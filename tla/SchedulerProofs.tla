---------------------------- MODULE SchedulerProofs ----------------------------
(***************************************************************************)
(* What the scheduler promises, for any jobs, boards and selectors: while  *)
(* its scan reads every waiting job, it picks one whenever one can go on,  *)
(* one that nobody outranks, and gives it the board that waited longest.   *)
(***************************************************************************)
EXTENDS Scheduler, FiniteSetTheorems, TLAPS

-----------------------------------------------------------------------------
(* The invariant: beside the types, that what the run stage holds is a     *)
(* board.                                                                  *)

Things == Jobs \cup Boards

SchedInv ==
  /\ TypeOK
  /\ order \in Seq(Jobs) /\ lru \in Seq(Boards)
  /\ stage = "run" /\ heldJob # None => heldBoard \in Boards

-----------------------------------------------------------------------------
(* Sequences without repetition.                                           *)

(* A set of numbers that has 0 and every successor has them all.           *)
LEMMA Induction ==
  ASSUME NEW S, 0 \in S, \A n \in Nat : n \in S => n + 1 \in S
  PROVE  Nat \subseteq S
<1> DEFINE T == {n \in Nat : n \notin S}
<1> SUFFICES ASSUME T # {} PROVE FALSE OBVIOUS
<1>1. IsWellFoundedOn(OpToRel(<, Nat), Nat)
  BY NatLessThanWellFounded
<1>2. PICK n \in T : \A m \in T : ~(<<m, n>> \in OpToRel(<, Nat))
  BY <1>1, WFMin
<1>3. \A m \in T : ~(m < n)
  BY <1>2 DEF OpToRel
<1>4. n # 0 OBVIOUS
<1>5. n - 1 \in Nat /\ n - 1 \notin T BY <1>3, <1>4
<1> QED BY <1>3, <1>4, <1>5

LEMMA SeqSet ==
  ASSUME NEW S, NEW s \in Seq(S)
  PROVE  /\ ToSet(s) = {s[i] : i \in 1 .. Len(s)} /\ Len(s) \in Nat
         /\ ToSet(s) \subseteq S
         /\ \A i \in 1 .. Len(s) : s[i] \in ToSet(s)
         /\ \A x \in ToSet(s) : \E i \in 1 .. Len(s) : x = s[i]
BY DEF ToSet

LEMMA Narrow ==
  ASSUME NEW S, NEW T, NEW s \in Seq(S), ToSet(s) \subseteq T
  PROVE  s \in Seq(T)
<1>1. \A i \in 1 .. Len(s) : s[i] \in T
  BY SeqSet
<1> QED BY <1>1

LEMMA Wide ==
  ASSUME NEW T, NEW s \in Seq(T), T \subseteq Things
  PROVE  s \in Seq(Things)
OBVIOUS

LEMMA Injective ==
  ASSUME NEW S, NEW s \in Seq(S)
  PROVE  IsInjective(s) <=> \A i, k \in 1 .. Len(s) : s[i] = s[k] => i = k
BY DEF IsInjective

(* A new element at the end.                                               *)
LEMMA AppendNew ==
  ASSUME NEW S, NEW s \in Seq(S), IsInjective(s), NEW e \in S, e \notin ToSet(s)
  PROVE  /\ Append(s, e) \in Seq(S) /\ IsInjective(Append(s, e))
         /\ ToSet(Append(s, e)) = ToSet(s) \cup {e}
<1> DEFINE t == Append(s, e)
<1>1. /\ t \in Seq(S) /\ Len(t) = Len(s) + 1 /\ Len(s) \in Nat
      /\ \A i \in 1 .. Len(s) : t[i] = s[i]
      /\ t[Len(s) + 1] = e
  OBVIOUS
<1> HIDE DEF t
<1>2. \A x : x \in ToSet(t) <=> \E i \in 1 .. Len(s) + 1 : x = t[i]
  BY <1>1, SeqSet
<1>3. \A x : x \in ToSet(s) <=> \E i \in 1 .. Len(s) : x = s[i]
  BY SeqSet
<1>4. ToSet(t) = ToSet(s) \cup {e}
  BY <1>1, <1>2, <1>3
<1>5. \A i, k \in 1 .. Len(s) : s[i] = s[k] => i = k
  BY Injective
<1>6. ASSUME NEW i \in 1 .. Len(t), NEW k \in 1 .. Len(t), t[i] = t[k]
      PROVE  i = k
  <2>1. CASE i \in 1 .. Len(s) /\ k \in 1 .. Len(s)
    BY <1>1, <1>5, <1>6, <2>1
  <2>2. CASE i = Len(s) + 1 /\ k \in 1 .. Len(s)
    BY <1>1, <1>3, <1>6, <2>2
  <2>3. CASE i \in 1 .. Len(s) /\ k = Len(s) + 1
    BY <1>1, <1>3, <1>6, <2>3
  <2> QED BY <1>1, <2>1, <2>2, <2>3
<1>7. IsInjective(t)
  BY <1>1, <1>6, Injective
<1> QED BY <1>1, <1>4, <1>7 DEF t

(* One sequence after another that shares nothing with it.                 *)
LEMMA ConcatNew ==
  ASSUME NEW S, NEW s \in Seq(S), NEW t \in Seq(S), ToSet(s) \cap ToSet(t) = {},
         IsInjective(s), IsInjective(t)
  PROVE  /\ s \o t \in Seq(S) /\ IsInjective(s \o t)
         /\ ToSet(s \o t) = ToSet(s) \cup ToSet(t)
<1> DEFINE u == s \o t
<1>1. /\ u \in Seq(S) /\ Len(u) = Len(s) + Len(t) /\ Len(s) \in Nat /\ Len(t) \in Nat
      /\ \A i \in 1 .. Len(s) : u[i] = s[i]
      /\ \A i \in 1 .. Len(t) : u[Len(s) + i] = t[i]
  OBVIOUS
<1> HIDE DEF u
<1>2. \A i \in 1 .. Len(u) : i \in 1 .. Len(s) \/ (i - Len(s) \in 1 .. Len(t) /\ u[i] = t[i - Len(s)])
  BY <1>1
<1>3. /\ \A i \in 1 .. Len(s) : s[i] \in ToSet(s)
      /\ \A i \in 1 .. Len(t) : t[i] \in ToSet(t)
  BY SeqSet
<1>4. ToSet(u) = ToSet(s) \cup ToSet(t)
  <2>1. ToSet(u) \subseteq ToSet(s) \cup ToSet(t)
    <3>1. \A x \in ToSet(u) : \E i \in 1 .. Len(u) : x = u[i]
      BY <1>1, SeqSet
    <3>2. \A i \in 1 .. Len(u) : u[i] \in ToSet(s) \cup ToSet(t)
      BY <1>1, <1>2, <1>3
    <3> QED BY <3>1, <3>2
  <2>2. ToSet(s) \cup ToSet(t) \subseteq ToSet(u)
    <3>1. /\ \A x \in ToSet(s) : \E i \in 1 .. Len(s) : x = s[i]
          /\ \A x \in ToSet(t) : \E i \in 1 .. Len(t) : x = t[i]
          /\ \A i \in 1 .. Len(u) : u[i] \in ToSet(u)
      BY <1>1, SeqSet
    <3>2. \A i \in 1 .. Len(s) : i \in 1 .. Len(u)
      BY <1>1
    <3>3. \A i \in 1 .. Len(t) : Len(s) + i \in 1 .. Len(u)
      BY <1>1
    <3> QED BY <1>1, <3>1, <3>2, <3>3
  <2> QED BY <2>1, <2>2
<1>5. /\ \A i, k \in 1 .. Len(s) : s[i] = s[k] => i = k
      /\ \A i, k \in 1 .. Len(t) : t[i] = t[k] => i = k
  BY Injective
<1>6. ASSUME NEW i \in 1 .. Len(u), NEW k \in 1 .. Len(u), u[i] = u[k]
      PROVE  i = k
  <2>1. CASE i \in 1 .. Len(s) /\ k \in 1 .. Len(s)
    BY <1>1, <1>5, <1>6, <2>1
  <2>2. CASE i \notin 1 .. Len(s) /\ k \notin 1 .. Len(s)
    <3>1. i - Len(s) = k - Len(s)
      BY <1>2, <1>5, <1>6, <2>2
    <3> QED BY <1>1, <3>1
  <2>3. CASE i \in 1 .. Len(s) /\ k \notin 1 .. Len(s)
    BY <1>1, <1>2, <1>3, <1>6, <2>3
  <2>4. CASE i \notin 1 .. Len(s) /\ k \in 1 .. Len(s)
    BY <1>1, <1>2, <1>3, <1>6, <2>4
  <2> QED BY <2>1, <2>2, <2>3, <2>4
<1>7. IsInjective(u)
  BY <1>1, <1>6, Injective
<1> QED BY <1>1, <1>4, <1>7 DEF u

(* A sequence without repetition is as long as its set is large.           *)
LEMMA SeqSize ==
  ASSUME NEW S, NEW s \in Seq(S), IsInjective(s)
  PROVE  IsFiniteSet(ToSet(s)) /\ Cardinality(ToSet(s)) = Len(s)
<1>1. /\ Len(s) \in Nat /\ \A i \in 1 .. Len(s) : s[i] \in ToSet(s)
      /\ \A x \in ToSet(s) : \E i \in 1 .. Len(s) : x = s[i]
  BY SeqSet
<1>2. s \in [1 .. Len(s) -> ToSet(s)]
  <2>1. s = [i \in 1 .. Len(s) |-> s[i]]
    OBVIOUS
  <2> QED BY <1>1, <2>1
<1>3. s \in Bijection(1 .. Len(s), ToSet(s))
  BY <1>1, <1>2 DEF Bijection, Injection, Surjection
<1>4. ExistsBijection(1 .. Len(s), ToSet(s))
  BY <1>3 DEF ExistsBijection
<1> QED BY <1>1, <1>4, FS_NatBijection, FS_CountingElements

(* What comes before what in it.                                           *)
LEMMA EarlierOrder ==
  ASSUME NEW S, NEW s \in Seq(S), IsInjective(s), NEW a, NEW b, Earlier(s, a, b)
  PROVE  a # b /\ ~Earlier(s, b, a)
<1>1. \A i, k \in 1 .. Len(s) : s[i] = s[k] => i = k
  BY Injective
<1>2. PICK m \in 1 .. Len(s), n \in 1 .. Len(s) : m < n /\ s[m] = a /\ s[n] = b
  BY DEF Earlier
<1>3. a # b
  BY <1>1, <1>2
<1>4. ASSUME NEW p \in 1 .. Len(s), NEW q \in 1 .. Len(s), p < q, s[p] = b, s[q] = a
      PROVE  FALSE
  <2>1. p = n /\ q = m
    BY <1>1, <1>2, <1>4
  <2> QED BY <1>2, <1>4, <2>1
<1> QED BY <1>3, <1>4 DEF Earlier

-----------------------------------------------------------------------------
(* What Filter keeps, and in what order.                                   *)

KeptNext(seq, S, kept, n) ==
  IF n = 0 THEN <<>>
  ELSE IF seq[n] \in S THEN Append(kept[n - 1], seq[n]) ELSE kept[n - 1]

Kept(seq, S) ==
  LET kept[n \in 0 .. Len(seq)] ==
        IF n = 0 THEN <<>>
        ELSE IF seq[n] \in S THEN Append(kept[n - 1], seq[n]) ELSE kept[n - 1]
  IN kept[Len(seq)]

LEMMA FilterIsKept ==
  ASSUME NEW seq \in Seq(Things), NEW S \in SUBSET Things
  PROVE  Filter[S][seq] = Kept(seq, S)
<1>1. Filter = [T \in SUBSET Things |-> [q \in Seq(Things) |-> Kept(q, T)]]
  BY SMT DEF Filter, Kept, Things
<1> QED BY <1>1

(* The recursion has a solution.                                           *)
LEMMA FilterRecurses ==
  ASSUME NEW seq \in Seq(Things), NEW S \in SUBSET Things
  PROVE  \E kept : /\ kept = [n \in 0 .. Len(seq) |-> KeptNext(seq, S, kept, n)]
                   /\ Filter[S][seq] = kept[Len(seq)]
<1> DEFINE Upto(k) == \E kept : kept = [n \in 0 .. k |-> KeptNext(seq, S, kept, n)]
           P == {k \in Nat : Upto(k)}
<1>1. 0 \in P
  <2> DEFINE g == [n \in 0 .. 0 |-> <<>>]
  <2>1. g = [n \in 0 .. 0 |-> KeptNext(seq, S, g, n)]
    BY DEF KeptNext
  <2> QED BY <2>1
<1>2. ASSUME NEW k \in Nat, k \in P
      PROVE  k + 1 \in P
  <2>1. PICK g : g = [n \in 0 .. k |-> KeptNext(seq, S, g, n)]
    BY <1>2
  <2> DEFINE h == [n \in 0 .. k + 1 |-> IF n <= k THEN g[n] ELSE KeptNext(seq, S, g, n)]
  <2>2. \A n \in 0 .. k + 1 : n # 0 => n - 1 \in 0 .. k /\ h[n - 1] = g[n - 1]
    OBVIOUS
  <2>3. \A n \in 0 .. k + 1 : KeptNext(seq, S, h, n) = KeptNext(seq, S, g, n)
    BY <2>2 DEF KeptNext
  <2>4. \A n \in 0 .. k + 1 : h[n] = KeptNext(seq, S, g, n)
    BY <2>1
  <2>5. h = [n \in 0 .. k + 1 |-> KeptNext(seq, S, h, n)]
    BY <2>3, <2>4
  <2> HIDE DEF h
  <2> QED BY <2>5
<1>3. Nat \subseteq P
  <2> HIDE DEF P
  <2> QED BY <1>1, <1>2, Induction
<1>4. Len(seq) \in Nat
  OBVIOUS
<1>5. Upto(Len(seq))
  BY <1>3, <1>4
<1>6. \E kept : /\ kept = [n \in 0 .. Len(seq) |-> KeptNext(seq, S, kept, n)]
                /\ Kept(seq, S) = kept[Len(seq)]
  BY <1>5 DEF Kept, KeptNext
<1> QED
  BY <1>6, FilterIsKept

(* The part of the result that the first k elements account for.           *)
Accounts(seq, S, f, k) ==
  /\ f \in Seq(Things)
  /\ \A i \in 1 .. Len(f) : f[i] \in S /\ \E p \in 1 .. k : f[i] = seq[p]
  /\ \A p \in 1 .. k : seq[p] \in S => \E i \in 1 .. Len(f) : f[i] = seq[p]
  /\ \A i, j \in 1 .. Len(f) : i < j =>
       \E p, q \in 1 .. k : p < q /\ f[i] = seq[p] /\ f[j] = seq[q]

LEMMA AccountsSkip ==
  ASSUME NEW seq \in Seq(Things), NEW S \in SUBSET Things, NEW f, NEW k \in Nat,
         Accounts(seq, S, f, k), k + 1 \in 1 .. Len(seq), seq[k + 1] \notin S
  PROVE  Accounts(seq, S, f, k + 1)
<1>1. \A p \in 1 .. k : p \in 1 .. k + 1
  OBVIOUS
<1>2. \A p \in 1 .. k + 1 : p \in 1 .. k \/ p = k + 1
  OBVIOUS
<1> QED BY <1>1, <1>2 DEF Accounts

LEMMA AccountsTake ==
  ASSUME NEW seq \in Seq(Things), NEW S \in SUBSET Things, NEW f, NEW k \in Nat,
         Accounts(seq, S, f, k), k + 1 \in 1 .. Len(seq), seq[k + 1] \in S
  PROVE  Accounts(seq, S, Append(f, seq[k + 1]), k + 1)
<1> DEFINE e == seq[k + 1]
           t == Append(f, e)
<1>1. e \in S /\ e \in Things /\ f \in Seq(Things)
  BY DEF Accounts
<1>2. /\ t \in Seq(Things) /\ Len(t) = Len(f) + 1 /\ Len(f) \in Nat
      /\ \A i \in 1 .. Len(f) : t[i] = f[i]
      /\ t[Len(f) + 1] = e
  BY <1>1
<1> HIDE DEF t
<1>3. \A i \in 1 .. Len(t) : i \in 1 .. Len(f) \/ i = Len(f) + 1
  BY <1>2
<1>4. \A p \in 1 .. k : p \in 1 .. k + 1 /\ p < k + 1
  OBVIOUS
<1>5. \A p \in 1 .. k + 1 : p \in 1 .. k \/ p = k + 1
  OBVIOUS
<1>6. k + 1 \in 1 .. k + 1
  OBVIOUS
<1>7. ASSUME NEW i \in 1 .. Len(t)
      PROVE  t[i] \in S /\ \E p \in 1 .. k + 1 : t[i] = seq[p]
  <2>1. CASE i \in 1 .. Len(f)
    <3>1. f[i] \in S /\ \E p \in 1 .. k : f[i] = seq[p]
      BY <2>1 DEF Accounts
    <3>2. t[i] = f[i]
      BY <1>2, <2>1
    <3> QED BY <1>4, <3>1, <3>2
  <2>2. CASE i = Len(f) + 1
    BY <1>1, <1>2, <1>6, <2>2
  <2> QED BY <1>3, <2>1, <2>2
<1>8. ASSUME NEW p \in 1 .. k + 1, seq[p] \in S
      PROVE  \E i \in 1 .. Len(t) : t[i] = seq[p]
  <2>1. CASE p \in 1 .. k
    <3>1. PICK i \in 1 .. Len(f) : f[i] = seq[p]
      BY <1>8, <2>1 DEF Accounts
    <3>2. i \in 1 .. Len(t)
      BY <1>2
    <3> QED BY <1>2, <3>1, <3>2
  <2>2. CASE p = k + 1
    <3>1. Len(f) + 1 \in 1 .. Len(t)
      BY <1>2
    <3> QED BY <1>2, <2>2, <3>1
  <2> QED BY <1>5, <2>1, <2>2
<1>9. ASSUME NEW i \in 1 .. Len(t), NEW j \in 1 .. Len(t), i < j
      PROVE  \E p, q \in 1 .. k + 1 : p < q /\ t[i] = seq[p] /\ t[j] = seq[q]
  <2>1. i \in 1 .. Len(f) /\ t[i] = f[i]
    BY <1>2, <1>9
  <2>2. CASE j \in 1 .. Len(f)
    <3>1. PICK p \in 1 .. k, q \in 1 .. k : p < q /\ f[i] = seq[p] /\ f[j] = seq[q]
      BY <1>9, <2>1, <2>2 DEF Accounts
    <3>2. t[j] = f[j]
      BY <1>2, <2>2
    <3> QED BY <1>4, <2>1, <3>1, <3>2
  <2>3. CASE j = Len(f) + 1
    <3>1. PICK p \in 1 .. k : f[i] = seq[p]
      BY <2>1 DEF Accounts
    <3> QED BY <1>2, <1>4, <1>6, <2>1, <2>3, <3>1
  <2> QED BY <1>3, <2>2, <2>3
<1>10. Accounts(seq, S, t, k + 1)
  BY <1>2, <1>7, <1>8, <1>9 DEF Accounts
<1> QED BY <1>10 DEF t

LEMMA FilterAccounts ==
  ASSUME NEW seq \in Seq(Things), NEW S \in SUBSET Things
  PROVE  Accounts(seq, S, Filter[S][seq], Len(seq))
<1>1. PICK kept : /\ kept = [n \in 0 .. Len(seq) |-> KeptNext(seq, S, kept, n)]
                  /\ Filter[S][seq] = kept[Len(seq)]
  BY FilterRecurses
<1> DEFINE P == {k \in Nat : k <= Len(seq) => Accounts(seq, S, kept[k], k)}
<1>2. Len(seq) \in Nat
  OBVIOUS
<1>3. 0 \in P
  <2>1. kept[0] = <<>>
    <3>1. 0 \in 0 .. Len(seq)
      BY <1>2
    <3>2. kept[0] = KeptNext(seq, S, kept, 0)
      BY <1>1, <3>1
    <3> QED BY <3>2 DEF KeptNext
  <2>2. Accounts(seq, S, <<>>, 0)
    BY DEF Accounts
  <2> QED BY <2>1, <2>2
<1>4. ASSUME NEW k \in Nat, k \in P
      PROVE  k + 1 \in P
  <2> SUFFICES ASSUME k + 1 <= Len(seq)
               PROVE  Accounts(seq, S, kept[k + 1], k + 1)
    OBVIOUS
  <2>1. k + 1 \in 0 .. Len(seq) /\ k + 1 \in 1 .. Len(seq) /\ (k + 1) - 1 = k /\ k + 1 # 0
    BY <1>2
  <2>2. Accounts(seq, S, kept[k], k)
    BY <1>2, <1>4
  <2>3. kept[k + 1] = KeptNext(seq, S, kept, k + 1)
    BY <1>1, <2>1
  <2>4. kept[k + 1] = IF seq[k + 1] \in S THEN Append(kept[k], seq[k + 1]) ELSE kept[k]
    BY <2>1, <2>3 DEF KeptNext
  <2>5. CASE seq[k + 1] \in S
    BY <2>1, <2>2, <2>4, <2>5, AccountsTake
  <2>6. CASE seq[k + 1] \notin S
    BY <2>1, <2>2, <2>4, <2>6, AccountsSkip
  <2> QED BY <2>5, <2>6
<1>5. Nat \subseteq P
  <2> HIDE DEF P
  <2> QED BY <1>3, <1>4, Induction
<1>6. Accounts(seq, S, kept[Len(seq)], Len(seq))
  BY <1>2, <1>5
<1> QED BY <1>1, <1>6

(* It keeps the elements of S, in the order they have.                     *)
LEMMA FilterFacts ==
  ASSUME NEW seq \in Seq(Things), NEW S \in SUBSET Things
  PROVE  /\ Filter[S][seq] \in Seq(Things)
         /\ ToSet(Filter[S][seq]) = ToSet(seq) \cap S
         /\ \A i, k \in 1 .. Len(Filter[S][seq]) :
              i < k => Earlier(seq, Filter[S][seq][i], Filter[S][seq][k])
<1> DEFINE f == Filter[S][seq]
<1>1. Accounts(seq, S, f, Len(seq))
  BY FilterAccounts
<1> HIDE DEF f
<1>2. f \in Seq(Things)
  BY <1>1 DEF Accounts
<1>3. ToSet(f) = ToSet(seq) \cap S
  <2>1. \A x : x \in ToSet(f) <=> \E i \in 1 .. Len(f) : x = f[i]
    BY <1>2, SeqSet
  <2>2. \A x : x \in ToSet(seq) <=> \E i \in 1 .. Len(seq) : x = seq[i]
    BY SeqSet
  <2>3. \A i \in 1 .. Len(f) : f[i] \in S /\ \E p \in 1 .. Len(seq) : f[i] = seq[p]
    BY <1>1 DEF Accounts
  <2>4. \A p \in 1 .. Len(seq) : seq[p] \in S => \E i \in 1 .. Len(f) : f[i] = seq[p]
    BY <1>1 DEF Accounts
  <2> QED BY <2>1, <2>2, <2>3, <2>4
<1>4. \A i, k \in 1 .. Len(f) : i < k => Earlier(seq, f[i], f[k])
  BY <1>1 DEF Accounts, Earlier
<1> QED BY <1>2, <1>3, <1>4 DEF f

LEMMA FilterInjective ==
  ASSUME NEW seq \in Seq(Things), NEW S \in SUBSET Things, IsInjective(seq)
  PROVE  IsInjective(Filter[S][seq])
<1> DEFINE f == Filter[S][seq]
<1>1. f \in Seq(Things) /\ \A i, k \in 1 .. Len(f) : i < k => Earlier(seq, f[i], f[k])
  BY FilterFacts
<1> HIDE DEF f
<1>2. \A i, k \in 1 .. Len(f) : i < k => f[i] # f[k]
  BY <1>1, EarlierOrder
<1>3. \A i, k \in 1 .. Len(f) : f[i] = f[k] => i = k
  BY <1>2
<1> QED BY <1>1, <1>3, Injective DEF f

(* The first element kept comes before every other.                        *)
LEMMA HeadIsFirst ==
  ASSUME NEW seq \in Seq(Things), NEW S \in SUBSET Things, NEW x \in ToSet(seq) \cap S
  PROVE  /\ Filter[S][seq] # <<>> /\ Head(Filter[S][seq]) \in ToSet(seq) \cap S
         /\ x = Head(Filter[S][seq]) \/ Earlier(seq, Head(Filter[S][seq]), x)
<1> DEFINE f == Filter[S][seq]
<1>1. /\ f \in Seq(Things) /\ ToSet(f) = ToSet(seq) \cap S
      /\ \A i, k \in 1 .. Len(f) : i < k => Earlier(seq, f[i], f[k])
  BY FilterFacts
<1> HIDE DEF f
<1>2. PICK i \in 1 .. Len(f) : x = f[i]
  BY <1>1, SeqSet
<1>3. f # <<>> /\ Head(f) = f[1] /\ 1 \in 1 .. Len(f)
  BY <1>1, <1>2
<1>4. Head(f) \in ToSet(f)
  BY <1>1, <1>3, SeqSet
<1>5. x = Head(f) \/ Earlier(seq, Head(f), x)
  <2>1. CASE i = 1
    BY <1>2, <1>3, <2>1
  <2>2. CASE 1 < i
    BY <1>1, <1>2, <1>3, <2>2
  <2> QED BY <1>3, <2>1, <2>2
<1> QED BY <1>1, <1>3, <1>4, <1>5 DEF f

-----------------------------------------------------------------------------
(* The scan, the promotion and the choice.                                 *)

Waits == {"submitted", "awaiting_board"}

LEMMA Queue ==
  ASSUME SchedInv
  PROVE  /\ order \in Seq(Things) /\ lru \in Seq(Things)
         /\ IsInjective(order) /\ ToSet(order) = Jobs \ In("absent")
         /\ IsInjective(lru) /\ ToSet(lru) = Boards
BY Wide DEF SchedInv, TypeOK, Things

(* Part of the queue.                                                      *)
LEMMA PartOfQueue ==
  ASSUME SchedInv, NEW S \in SUBSET Jobs
  PROVE  /\ Filter[S][order] \in Seq(Jobs) /\ IsInjective(Filter[S][order])
         /\ ToSet(Filter[S][order]) = ToSet(order) \cap S
         /\ \A i, k \in 1 .. Len(Filter[S][order]) :
              i < k => Earlier(order, Filter[S][order][i], Filter[S][order][k])
<1>1. S \in SUBSET Things
  BY DEF Things
<1>2. Filter[S][order] \in Seq(Things) /\ ToSet(Filter[S][order]) = ToSet(order) \cap S
  BY <1>1, Queue, FilterFacts
<1>3. Filter[S][order] \in Seq(Jobs)
  BY <1>2, Narrow
<1> QED BY <1>1, <1>2, <1>3, Queue, FilterFacts, FilterInjective

(* The scan reads waiting jobs, all of them when it can.                   *)
LEMMA ScanFacts ==
  ASSUME SchedInv, NEW s \in Waits
  PROVE  /\ Listed(s) \subseteq In(s)
         /\ Cardinality(In(s)) <= ScanLimit => Listed(s) = In(s)
<1> DEFINE A == Filter[In(s) \ Scheduled][order]
           B == Filter[In(s) \cap Scheduled][order]
           all == A \o B
<1>1. In(s) \subseteq Jobs /\ In(s) \subseteq ToSet(order)
  BY Queue DEF In, Waits
<1>2. /\ A \in Seq(Jobs) /\ IsInjective(A) /\ ToSet(A) = In(s) \ Scheduled
      /\ B \in Seq(Jobs) /\ IsInjective(B) /\ ToSet(B) = In(s) \cap Scheduled
  BY <1>1, PartOfQueue
<1>4. Listed(s) = Limit[all]
  BY Zenon DEF Listed
<1> HIDE DEF A, B
<1>3. all \in Seq(Jobs) /\ IsInjective(all) /\ ToSet(all) = In(s)
  <2>1. ToSet(A) \cap ToSet(B) = {} /\ ToSet(A) \cup ToSet(B) = In(s)
    BY <1>2
  <2>2. A \in Seq(Jobs) /\ IsInjective(A) /\ B \in Seq(Jobs) /\ IsInjective(B)
    BY <1>2
  <2> QED BY <2>1, <2>2, ConcatNew
<1> HIDE DEF all
<1>5. Listed(s) = {all[n] : n \in {m \in 1 .. Len(all) : m <= ScanLimit}}
  BY <1>3, <1>4 DEF Limit
<1>6. /\ \A i \in 1 .. Len(all) : all[i] \in In(s)
      /\ \A x \in In(s) : \E i \in 1 .. Len(all) : x = all[i]
  BY <1>3, SeqSet
<1>7. ASSUME Cardinality(In(s)) <= ScanLimit
      PROVE  Listed(s) = In(s)
  <2>1. Len(all) = Cardinality(In(s)) /\ Len(all) \in Nat
    BY <1>3, SeqSize
  <2>2. \A i \in 1 .. Len(all) : i <= ScanLimit
    BY <1>7, <2>1, SchedulerAssumption
  <2> QED BY <1>5, <1>6, <2>2
<1> QED BY <1>5, <1>6, <1>7

(* The promotion orders them: none outranks one before it.                 *)
LEMMA PromotedFacts ==
  ASSUME SchedInv, NEW rows \in SUBSET Jobs, rows \subseteq ToSet(order)
  PROVE  /\ Promoted(rows) \in Seq(Jobs) /\ ToSet(Promoted(rows)) = rows
         /\ \A i, j : Earlier(Promoted(rows), i, j) => ~Outranks(j, i)
         /\ \A i \in rows : ~Outranks(i, i)
<1> DEFINE U == rows \cap {j \in Jobs : Urgent(j)}
           V == rows \ {j \in Jobs : Urgent(j)}
           A == Filter[U][order]
           B == Filter[V][order]
           all == A \o B
<1>1. /\ A \in Seq(Jobs) /\ ToSet(A) = U
      /\ \A i, k \in 1 .. Len(A) : i < k => Earlier(order, A[i], A[k])
  BY PartOfQueue
<1>2. /\ B \in Seq(Jobs) /\ ToSet(B) = V
      /\ \A i, k \in 1 .. Len(B) : i < k => Earlier(order, B[i], B[k])
  BY PartOfQueue
<1>3. Promoted(rows) = all
  BY DEF Promoted
<1>4. /\ \A j \in U : Urgent(j)
      /\ \A j \in V : ~Urgent(j)
      /\ U \cup V = rows
  OBVIOUS
<1>5. IsInjective(A) /\ IsInjective(B) /\ ToSet(A) \cap ToSet(B) = {}
  BY <1>1, <1>2, PartOfQueue
<1> HIDE DEF A, B, U, V
<1>6. all \in Seq(Jobs) /\ ToSet(all) = rows
  BY <1>1, <1>2, <1>4, <1>5, ConcatNew
<1>7. /\ Len(all) = Len(A) + Len(B) /\ Len(A) \in Nat /\ Len(B) \in Nat
      /\ \A i \in 1 .. Len(A) : all[i] = A[i] /\ A[i] \in U
      /\ \A i \in 1 .. Len(B) : all[Len(A) + i] = B[i] /\ B[i] \in V
  <2>1. /\ Len(all) = Len(A) + Len(B) /\ Len(A) \in Nat /\ Len(B) \in Nat
        /\ \A i \in 1 .. Len(A) : all[i] = A[i]
        /\ \A i \in 1 .. Len(B) : all[Len(A) + i] = B[i]
    BY <1>1, <1>2
  <2>2. /\ \A i \in 1 .. Len(A) : A[i] \in U
        /\ \A i \in 1 .. Len(B) : B[i] \in V
    BY <1>1, <1>2, SeqSet
  <2> QED BY <2>1, <2>2
<1> HIDE DEF all
<1>8. \A a, b : Earlier(order, a, b) => a # b /\ ~Earlier(order, b, a)
  BY Queue, EarlierOrder
<1>9. ASSUME NEW m \in 1 .. Len(all), NEW n \in 1 .. Len(all), m < n
      PROVE  ~Outranks(all[n], all[m])
  <2>1. CASE m \in 1 .. Len(A) /\ n \in 1 .. Len(A)
    <3>1. Earlier(order, all[m], all[n])
      BY <1>1, <1>7, <1>9, <2>1
    <3>2. Urgent(all[m]) /\ Urgent(all[n])
      BY <1>4, <1>7, <2>1
    <3> QED BY <1>8, <3>1, <3>2 DEF Outranks
  <2>2. CASE m \in 1 .. Len(A) /\ n \notin 1 .. Len(A)
    <3>1. n - Len(A) \in 1 .. Len(B) /\ n = Len(A) + (n - Len(A))
      BY <1>7, <2>2
    <3>2. Urgent(all[m]) /\ ~Urgent(all[n])
      BY <1>4, <1>7, <2>2, <3>1
    <3> QED BY <3>2 DEF Outranks
  <2>3. CASE m \notin 1 .. Len(A)
    <3>1. /\ m - Len(A) \in 1 .. Len(B) /\ m = Len(A) + (m - Len(A))
          /\ n - Len(A) \in 1 .. Len(B) /\ n = Len(A) + (n - Len(A))
          /\ m - Len(A) < n - Len(A)
      <4>1. Len(all) = Len(A) + Len(B) /\ Len(A) \in Nat /\ Len(B) \in Nat
        BY <1>7
      <4> QED BY <1>9, <2>3, <4>1
    <3>2. all[m] = B[m - Len(A)] /\ all[n] = B[n - Len(A)] /\ ~Urgent(all[m]) /\ ~Urgent(all[n])
      BY <1>4, <1>7, <3>1
    <3>3. Earlier(order, all[m], all[n])
      BY <1>2, <3>1, <3>2
    <3> QED BY <1>8, <3>2, <3>3 DEF Outranks
  <2> QED BY <2>1, <2>2, <2>3
<1>10. \A i, j : Earlier(all, i, j) => ~Outranks(j, i)
  BY <1>9 DEF Earlier
<1>11. \A i \in rows : ~Outranks(i, i)
  BY <1>8 DEF Outranks
<1> QED BY <1>3, <1>6, <1>10, <1>11

(* The first of the promoted rows that can go on.                          *)
LEMMA PickFacts ==
  ASSUME SchedInv, NEW s \in Waits, NEW S \in SUBSET In(s)
  PROVE  LET c == Filter[S][Promoted(Listed(s))]
         IN /\ c # <<>> => Head(c) \in S
            /\ Cardinality(In(s)) <= ScanLimit =>
                 \A i \in S : c # <<>> /\ Head(c) \in S /\ ~Outranks(i, Head(c))
<1> DEFINE R == Promoted(Listed(s))
           c == Filter[S][R]
<1>1. In(s) \subseteq Jobs /\ In(s) \subseteq ToSet(order) /\ S \in SUBSET Things
  BY Queue DEF In, Waits, Things
<1>2. /\ R \in Seq(Things) /\ ToSet(R) = Listed(s)
      /\ \A i, j : Earlier(R, i, j) => ~Outranks(j, i)
      /\ \A i \in Listed(s) : ~Outranks(i, i)
  <2>1. Listed(s) \in SUBSET Jobs /\ Listed(s) \subseteq ToSet(order)
    BY <1>1, ScanFacts
  <2>2. R \in Seq(Jobs)
    BY <2>1, PromotedFacts
  <2>3. R \in Seq(Things)
    BY <2>2, Wide DEF Things
  <2> QED BY <2>1, <2>3, PromotedFacts
<1> HIDE DEF R
<1>3. c \in Seq(Things) /\ ToSet(c) = ToSet(R) \cap S
  BY <1>1, <1>2, FilterFacts
<1>4. c # <<>> => Head(c) \in S
  <2> HIDE DEF c
  <2>1. ASSUME c # <<>>
        PROVE  1 \in 1 .. Len(c) /\ Head(c) = c[1]
    BY <1>3, <2>1
  <2> QED BY <1>3, <2>1, SeqSet
<1>5. ASSUME Cardinality(In(s)) <= ScanLimit, NEW i \in S
      PROVE  c # <<>> /\ Head(c) \in S /\ ~Outranks(i, Head(c))
  <2>1. ToSet(R) = In(s)
    BY <1>2, <1>5, ScanFacts
  <2>2. i \in ToSet(R) \cap S
    BY <2>1
  <2>3. c # <<>> /\ (i = Head(c) \/ Earlier(R, Head(c), i)) /\ Head(c) \in ToSet(R) \cap S
    BY <1>1, <1>2, <2>2, HeadIsFirst
  <2> QED BY <1>2, <2>3
<1> QED BY <1>4, <1>5 DEF R

(* Of some boards, the one that waited longest.                            *)
LEMMA LruFacts ==
  ASSUME SchedInv, NEW bs \in SUBSET Boards, bs # {}
  PROVE  LruPick(bs) \in bs /\ \A b \in bs : ~Earlier(lru, b, LruPick(bs))
<1>1. bs \in SUBSET Things /\ bs = ToSet(lru) \cap bs
  BY Queue DEF Things
<1>2. \A b \in bs : /\ LruPick(bs) \in bs
                    /\ b = LruPick(bs) \/ Earlier(lru, LruPick(bs), b)
  BY <1>1, Queue, HeadIsFirst DEF LruPick
<1> QED BY <1>2, Queue, EarlierOrder

LEMMA FreeBoards ==
  ASSUME SchedInv
  PROVE  \A j \in Jobs : FreeFor(j) \subseteq Boards
BY SchedulerAssumption DEF FreeFor

-----------------------------------------------------------------------------
(* The steps.                                                              *)

States == {"absent", "submitted", "building", "awaiting_board", "running"}

(* Types that one step changes and another does not.                       *)
JobTypes ==
  /\ state \in [Jobs -> States] /\ boardOf \in [Jobs -> Boards \cup {None}]
  /\ order \in Seq(Jobs) /\ ToSet(order) = Jobs \ In("absent") /\ IsInjective(order)
  /\ starved \subseteq Scheduled \cap ToSet(order)

BoardTypes ==
  /\ lru \in Seq(Boards) /\ ToSet(lru) = Boards /\ IsInjective(lru)
  /\ healthy \subseteq Boards

LoopTypes ==
  /\ stage \in {"run", "build"}
  /\ heldJob \in Jobs \cup {None} /\ heldBoard \in Boards \cup {None}
  /\ stage = "run" /\ heldJob # None => heldBoard \in Boards

LEMMA InvParts ==
  SchedInv <=> JobTypes /\ BoardTypes /\ LoopTypes
BY DEF SchedInv, TypeOK, JobTypes, BoardTypes, LoopTypes, States

LEMMA InvPartsNext ==
  SchedInv' <=> JobTypes' /\ BoardTypes' /\ LoopTypes'
BY DEF SchedInv, TypeOK, JobTypes, BoardTypes, LoopTypes, States

(* A job that changes its state and stays in the queue.                    *)
LEMMA Moves ==
  ASSUME JobTypes, NEW j \in Jobs, NEW s \in States \ {"absent"}, state[j] # "absent",
         state' = [state EXCEPT ![j] = s], boardOf' \in [Jobs -> Boards \cup {None}],
         UNCHANGED <<order, starved>>
  PROVE  JobTypes'
<1>1. state' \in [Jobs -> States] /\ \A i \in Jobs : state'[i] = "absent" <=> state[i] = "absent"
  BY DEF JobTypes
<1>2. In("absent")' = In("absent")
  BY <1>1 DEF In
<1> QED BY <1>1, <1>2 DEF JobTypes

LEMMA LeavesTypes ==
  ASSUME SchedInv, NEW j \in Jobs, Leaves(j)
  PROVE  JobTypes'
<1>1. JobTypes
  BY InvParts
<1>2. /\ state' = [state EXCEPT ![j] = "absent"] /\ boardOf' = [boardOf EXCEPT ![j] = None]
      /\ order' = Filter[Jobs \ {j}][order] /\ starved' = starved \ {j}
  BY DEF Leaves
<1>3. /\ state' \in [Jobs -> States] /\ boardOf' \in [Jobs -> Boards \cup {None}]
      /\ In("absent")' = In("absent") \cup {j}
  BY <1>1, <1>2 DEF JobTypes, In, States
<1>4. /\ order' \in Seq(Jobs) /\ IsInjective(order')
      /\ ToSet(order') = ToSet(order) \cap (Jobs \ {j})
  BY <1>2, PartOfQueue
<1> QED BY <1>1, <1>2, <1>3, <1>4 DEF JobTypes

LEMMA InvRunPick ==
  ASSUME SchedInv, RunPick
  PROVE  SchedInv'
<1>1. JobTypes' /\ BoardTypes'
  BY InvParts DEF RunPick, JobTypes, BoardTypes, In
<1>2. CASE PickRunnable = <<>> /\ NextStage("build")
  <2>1. LoopTypes'
    BY <1>2 DEF NextStage, LoopTypes
  <2> QED BY <1>1, <2>1, InvPartsNext
<1>3. CASE PickRunnable # <<>> /\ Hold(Head(PickRunnable), LruPick(FreeFor(Head(PickRunnable))))
  <2>1. Head(PickRunnable) \in Runnable
    <3>1. Runnable \in SUBSET In("awaiting_board") /\ "awaiting_board" \in Waits
      BY DEF Runnable, Waits
    <3> QED BY <1>3, <3>1, PickFacts DEF PickRunnable
  <2>2. heldJob' \in Jobs /\ heldBoard' \in Boards /\ stage' = stage
    <3>1. FreeFor(Head(PickRunnable)) # {} /\ Head(PickRunnable) \in Jobs
      BY <2>1 DEF Runnable, In
    <3>2. FreeFor(Head(PickRunnable)) \in SUBSET Boards
      BY <3>1, FreeBoards
    <3>3. LruPick(FreeFor(Head(PickRunnable))) \in Boards
      BY <3>1, <3>2, LruFacts
    <3> QED BY <1>3, <3>1, <3>3 DEF Hold
  <2>3. LoopTypes'
    BY <2>2, InvParts DEF LoopTypes
  <2> QED BY <1>1, <2>3, InvPartsNext
<1> QED BY <1>2, <1>3 DEF RunPick

LEMMA InvRunClaim ==
  ASSUME SchedInv, RunClaim
  PROVE  SchedInv'
<1>1. JobTypes /\ BoardTypes /\ LoopTypes
  BY InvParts
<1>2. heldJob \in Jobs /\ heldBoard \in Boards
  BY <1>1 DEF RunClaim, LoopTypes
<1>3. LoopTypes'
  BY DEF RunClaim, NextStage, LoopTypes
<1>4. CASE /\ state[heldJob] = "awaiting_board" /\ state' = [state EXCEPT ![heldJob] = "running"]
           /\ boardOf' = [boardOf EXCEPT ![heldJob] = heldBoard]
           /\ lru' = Append(Filter[Boards \ {heldBoard}][lru], heldBoard)
  <2>1. UNCHANGED <<order, starved, healthy>>
    BY DEF RunClaim
  <2>2. boardOf' \in [Jobs -> Boards \cup {None}]
    BY <1>1, <1>2, <1>4 DEF JobTypes
  <2>3. JobTypes'
    BY <1>1, <1>2, <1>4, <2>1, <2>2, Moves DEF States
  <2>4. BoardTypes'
    <3> DEFINE f == Filter[Boards \ {heldBoard}][lru]
    <3>1. /\ f \in Seq(Things) /\ IsInjective(f) /\ ToSet(f) = Boards \ {heldBoard}
      <4>1. Boards \ {heldBoard} \in SUBSET Things
        BY DEF Things
      <4>2. ToSet(lru) \cap (Boards \ {heldBoard}) = Boards \ {heldBoard}
        BY Queue
      <4> QED BY <4>1, <4>2, Queue, FilterFacts, FilterInjective
    <3> HIDE DEF f
    <3>2. f \in Seq(Boards) /\ heldBoard \notin ToSet(f)
      BY <3>1, Narrow
    <3>3. /\ Append(f, heldBoard) \in Seq(Boards) /\ IsInjective(Append(f, heldBoard))
          /\ ToSet(Append(f, heldBoard)) = ToSet(f) \cup {heldBoard}
      BY <1>2, <3>1, <3>2, AppendNew
    <3>4. ToSet(f) \cup {heldBoard} = Boards /\ lru' = Append(f, heldBoard)
      BY <1>2, <1>4, <3>1 DEF f
    <3> QED BY <1>1, <2>1, <3>3, <3>4 DEF BoardTypes
  <2> QED BY <1>3, <2>3, <2>4, InvPartsNext
<1>5. CASE UNCHANGED <<state, boardOf, lru>>
  <2>1. JobTypes' /\ BoardTypes'
    BY <1>1, <1>5 DEF RunClaim, JobTypes, BoardTypes, In
  <2> QED BY <1>3, <2>1, InvPartsNext
<1> QED BY <1>4, <1>5 DEF RunClaim

LEMMA InvBuildPick ==
  ASSUME SchedInv, BuildPick
  PROVE  SchedInv'
<1>1. JobTypes' /\ BoardTypes'
  BY InvParts DEF BuildPick, JobTypes, BoardTypes, In
<1>2. CASE NextStage("run")
  <2>1. LoopTypes'
    BY <1>2 DEF NextStage, LoopTypes
  <2> QED BY <1>1, <2>1, InvPartsNext
<1>3. CASE PickBuildable # <<>> /\ Hold(Head(PickBuildable), None)
  <2>1. Head(PickBuildable) \in Buildable
    <3>1. Buildable \in SUBSET In("submitted") /\ "submitted" \in Waits
      BY DEF Buildable, Waits
    <3> QED BY <1>3, <3>1, PickFacts DEF PickBuildable
  <2>2. heldJob' \in Jobs /\ heldBoard' = None /\ stage' = "build"
    BY <1>3, <2>1 DEF Buildable, In, Hold, BuildPick
  <2>3. LoopTypes'
    BY <2>2 DEF LoopTypes
  <2> QED BY <1>1, <2>3, InvPartsNext
<1> QED BY <1>2, <1>3 DEF BuildPick

LEMMA InvBuildClaim ==
  ASSUME SchedInv, BuildClaim
  PROVE  SchedInv'
<1>1. JobTypes /\ BoardTypes /\ LoopTypes
  BY InvParts
<1>2. heldJob \in Jobs
  BY <1>1 DEF BuildClaim, LoopTypes
<1>3. LoopTypes' /\ BoardTypes'
  BY <1>1 DEF BuildClaim, NextStage, LoopTypes, BoardTypes
<1>4. CASE state[heldJob] = "submitted" /\ state' = [state EXCEPT ![heldJob] = "building"]
  <2>1. JobTypes'
    BY <1>1, <1>2, <1>4, Moves DEF BuildClaim, States, JobTypes
  <2> QED BY <1>3, <2>1, InvPartsNext
<1>5. CASE UNCHANGED state
  <2>1. JobTypes'
    BY <1>1, <1>5 DEF BuildClaim, JobTypes, In
  <2> QED BY <1>3, <2>1, InvPartsNext
<1> QED BY <1>4, <1>5 DEF BuildClaim

LEMMA InvJobs ==
  ASSUME SchedInv, NEW j \in Jobs, Enqueue(j) \/ Age(j) \/ BuildEnds(j) \/ RunEnds(j) \/ Cancel(j)
  PROVE  SchedInv'
<1>1. JobTypes /\ BoardTypes /\ LoopTypes
  BY InvParts
<1>2. BoardTypes' /\ LoopTypes'
  BY <1>1 DEF Enqueue, Age, BuildEnds, RunEnds, Cancel, BoardTypes, LoopTypes
<1>3. CASE Enqueue(j)
  <2>1. /\ state[j] = "absent" /\ state' = [state EXCEPT ![j] = "submitted"]
        /\ order' = Append(order, j) /\ UNCHANGED <<boardOf, starved>>
    BY <1>3 DEF Enqueue
  <2>2. state' \in [Jobs -> States] /\ In("absent")' = In("absent") \ {j} /\ j \in In("absent")
    BY <1>1, <2>1 DEF JobTypes, In, States
  <2>3. j \notin ToSet(order)
    BY <1>1, <2>2 DEF JobTypes
  <2>4. /\ order' \in Seq(Jobs) /\ IsInjective(order') /\ ToSet(order') = ToSet(order) \cup {j}
    BY <1>1, <2>1, <2>3, AppendNew DEF JobTypes
  <2>5. JobTypes'
    BY <1>1, <2>1, <2>2, <2>4 DEF JobTypes
  <2> QED BY <1>2, <2>5, InvPartsNext
<1>4. CASE Age(j)
  <2> DEFINE young == Filter[Scheduled \ starved][order]
  <2>1. young # <<>> /\ j = Head(young) /\ starved' = starved \cup {j} /\ UNCHANGED <<state, boardOf, order>>
    BY <1>4 DEF Age
  <2>2. young \in Seq(Jobs) /\ ToSet(young) = ToSet(order) \cap (Scheduled \ starved)
    BY SchedulerAssumption, PartOfQueue
  <2> HIDE DEF young
  <2>3. 1 \in 1 .. Len(young) /\ j = young[1]
    BY <2>1, <2>2
  <2>4. j \in Scheduled \cap ToSet(order)
    BY <2>2, <2>3, SeqSet
  <2>5. JobTypes'
    BY <1>1, <2>1, <2>4 DEF JobTypes, In
  <2> QED BY <1>2, <2>5, InvPartsNext
<1>5. CASE Leaves(j)
  BY <1>2, <1>5, LeavesTypes, InvPartsNext
<1>6. CASE /\ state[j] = "building" /\ state' = [state EXCEPT ![j] = "awaiting_board"]
           /\ UNCHANGED <<boardOf, order, starved>>
  <2>1. JobTypes'
    BY <1>1, <1>6, Moves DEF States, JobTypes
  <2> QED BY <1>2, <2>1, InvPartsNext
<1> QED BY <1>3, <1>4, <1>5, <1>6 DEF BuildEnds, RunEnds, Cancel

LEMMA InvHealth ==
  ASSUME SchedInv, NEW b \in Boards, SetHealth(b)
  PROVE  SchedInv'
<1>1. JobTypes /\ BoardTypes /\ LoopTypes
  BY InvParts
<1>2. healthy' \subseteq Boards /\ UNCHANGED <<state, boardOf, order, starved, lru, stage, heldJob, heldBoard>>
  BY <1>1 DEF SetHealth, BoardTypes
<1>3. JobTypes' /\ BoardTypes' /\ LoopTypes'
  BY <1>1, <1>2 DEF JobTypes, BoardTypes, LoopTypes, In
<1> QED BY <1>3, InvPartsNext

LEMMA InvInit ==
  ASSUME Init
  PROVE  SchedInv
<1>1. ToSet(<<>>) = {} /\ IsInjective(<<>>) /\ <<>> \in Seq(Jobs)
  BY DEF ToSet, IsInjective
<1>2. JobTypes
  BY <1>1 DEF Init, JobTypes, In, States
<1>3. BoardTypes /\ LoopTypes
  BY SchedulerAssumption DEF Init, BoardTypes, LoopTypes
<1> QED BY <1>2, <1>3, InvParts

LEMMA InvStutter ==
  ASSUME SchedInv, UNCHANGED vars
  PROVE  SchedInv'
<1>1. JobTypes /\ BoardTypes /\ LoopTypes
  BY InvParts
<1>2. JobTypes' /\ BoardTypes' /\ LoopTypes'
  BY <1>1 DEF JobTypes, BoardTypes, LoopTypes, In, vars
<1> QED BY <1>2, InvPartsNext

-----------------------------------------------------------------------------
(* The theorems.                                                           *)

(* The inductive invariant of the scheduler: no job is in the queue twice, *)
(* no board in the order of last use, and the queue is that of the live    *)
(* jobs, with what the dispatch loop holds between a pick and its claim.   *)
THEOREM SchedulerInvariance == Spec => []SchedInv
<1>1. Init => SchedInv
  BY InvInit
<1>2. SchedInv /\ [Next]_vars => SchedInv'
  BY InvRunPick, InvRunClaim, InvBuildPick, InvBuildClaim, InvJobs, InvHealth, InvStutter
     DEF Next, Dispatch
<1> QED BY <1>1, <1>2, PTL DEF Spec

(* Every variable has its type; the queue holds each live job once, the    *)
(* order of last use each board, and the age of a job goes with it.        *)
THEOREM SchedulerTypes == Spec => []TypeOK
<1>1. SchedInv => TypeOK
  BY DEF SchedInv
<1> QED BY <1>1, SchedulerInvariance, PTL

(* While the scan reaches every waiting job, a pick is made whenever a job *)
(* can go on, no job that could go on outranks the one picked, and of the  *)
(* boards it can have it gets the one that waited longest: pick_runnable,  *)
(* pick_buildable and lru_pick, for any queue, selectors and boards.       *)
THEOREM PicksAreTheBest == Spec => PicksAreBest
<1> DEFINE RunRight ==
             \A i \in Runnable :
               /\ heldJob' \in Runnable /\ ~Outranks(i, heldJob')
               /\ heldBoard' \in FreeFor(heldJob')
               /\ \A b \in FreeFor(heldJob') : ~Earlier(lru, b, heldBoard')
           BuildRight ==
             \A i \in Buildable : heldJob' \in Buildable /\ ~Outranks(i, heldJob')
<1>1. ASSUME SchedInv, RunPick, Cardinality(In("awaiting_board")) <= ScanLimit
      PROVE  RunRight
  <2>1. Runnable \in SUBSET In("awaiting_board") /\ "awaiting_board" \in Waits
    BY DEF Runnable, Waits
  <2>2. \A i \in Runnable : /\ PickRunnable # <<>> /\ Head(PickRunnable) \in Runnable
                            /\ ~Outranks(i, Head(PickRunnable))
    BY <1>1, <2>1, PickFacts DEF PickRunnable
  <2>3. PickRunnable # <<>> =>
          heldJob' = Head(PickRunnable) /\ heldBoard' = LruPick(FreeFor(Head(PickRunnable)))
    BY <1>1 DEF RunPick, Hold
  <2>4. ASSUME NEW i \in Runnable
        PROVE  /\ heldBoard' \in FreeFor(heldJob')
               /\ \A b \in FreeFor(heldJob') : ~Earlier(lru, b, heldBoard')
    <3>1. heldJob' \in Runnable /\ heldBoard' = LruPick(FreeFor(heldJob'))
      BY <2>2, <2>3
    <3>2. FreeFor(heldJob') \in SUBSET Boards /\ FreeFor(heldJob') # {}
      BY <1>1, <3>1, FreeBoards DEF Runnable, In
    <3> QED BY <1>1, <3>1, <3>2, LruFacts
  <2> QED BY <2>2, <2>3, <2>4
<1>2. ASSUME SchedInv, BuildPick, Cardinality(In("submitted")) <= ScanLimit,
             Cardinality(Building) < MaxBuilds
      PROVE  BuildRight
  <2>1. Buildable \in SUBSET In("submitted") /\ "submitted" \in Waits
    BY DEF Buildable, Waits
  <2>2. \A i \in Buildable : /\ PickBuildable # <<>> /\ Head(PickBuildable) \in Buildable
                             /\ ~Outranks(i, Head(PickBuildable))
    BY <1>2, <2>1, PickFacts DEF PickBuildable
  <2>3. ~(Cardinality(Building) >= MaxBuilds)
    <3>1. Building \subseteq ToSet(order) /\ IsFiniteSet(ToSet(order))
      BY <1>2, Queue, SeqSize DEF Building, In
    <3>2. Cardinality(Building) \in Nat
      BY <3>1, FS_Subset, FS_CardinalityType
    <3> QED BY <1>2, <3>2, SchedulerAssumption
  <2>4. PickBuildable # <<>> => heldJob' = Head(PickBuildable)
    BY <1>2, <2>3 DEF BuildPick, Hold
  <2> QED BY <2>2, <2>4
<1>3. SchedInv /\ [Next]_vars =>
        [/\ RunPick /\ Cardinality(In("awaiting_board")) <= ScanLimit => RunRight
         /\ /\ BuildPick /\ Cardinality(In("submitted")) <= ScanLimit
            /\ Cardinality(Building) < MaxBuilds
            => BuildRight]_vars
  BY <1>1, <1>2
<1> QED BY <1>3, SchedulerInvariance, PTL DEF Spec, PicksAreBest
===============================================================================
