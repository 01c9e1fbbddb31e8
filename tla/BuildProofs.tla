------------------------------ MODULE BuildProofs -----------------------------
(***************************************************************************)
(* What a build slot promises, for any jobs, any number of lines and any   *)
(* sizes of the pipes and of the tail: the log of a build is complete and  *)
(* in order when the build is over, and the artifact of a job is of its    *)
(* own tar as long as no crate's ELF is passed over for an older one's.    *)
(***************************************************************************)
EXTENDS Build, SequenceTheorems, WellFoundedInduction, TLAPS

-----------------------------------------------------------------------------
(* The invariant.                                                          *)

Ats == {"idle", "lookup", "unpack", "spawn", "poll", "receive", "join", "discover",
        "forward", "outcome"}
Line == [stream : Streams, run : Nat, n : Nat \ {0}, utf8 : BOOLEAN]

(* The slot and its thread: where cargo can be running, its pipes be read  *)
(* and lines be on their way.                                              *)
Thread ==
  /\ at \in Ats /\ job \in 0 .. Len(TarOf) /\ run \in 0 .. Updates + 1
  /\ status \in {"none", "building"} \cup Ended /\ handed \subseteq 1 .. job
  /\ cancel \in {"none", "sent", "taken"}
  /\ child \in {"none", "running", "hung", "ok", "failed", "killed"}
  /\ at # "idle" => job # 0
  /\ at \in {"lookup", "unpack"} => run = 0
  /\ at = "spawn" => run <= Updates
  /\ at \notin {"poll", "receive"} => child \notin {"running", "hung"}
  /\ at = "discover" => child = "ok" /\ run > Updates
  /\ pending # <<>> => child = "running"
  /\ at \notin {"poll", "receive", "join"} => \A s \in Streams : reader[s] # "reading"
  /\ at \in {"outcome", "idle", "lookup", "unpack"} => channel = <<>>

(* What lies in the target directory, and that cargo wrote this job's ELF  *)
(* before it succeeded.                                                    *)
Disk ==
  /\ picked \in Names \cup {0} /\ rows \subseteq Tars
  /\ target \in [Names -> Tars \cup {0}] /\ files \in [Tars -> Tars \cup {0}]
  /\ \A n \in Names : target[n] # 0 => \E i \in 1 .. job : n = NameOf[TarOf[i]]
  /\ child = "ok" /\ run > Updates => linked
  /\ linked => job # 0 /\ (NameOf[Tar] # 0 => target[NameOf[Tar]] = Tar)
  /\ at \in {"forward", "outcome"} /\ result = "ok" => picked \in Candidates

(* Crates whose ELFs do not fall behind in try_pick_elf's order from one   *)
(* job to the next: one crate in its versions, for one.                    *)
InOrder ==
  \A i, j \in 1 .. Len(TarOf) : i <= j => NameOf[TarOf[i]] <= NameOf[TarOf[j]]

OwnElf ==
  /\ \A t \in Tars : files[t] \in {0, t}
  /\ \A j \in handed : files[TarOf[j]] = TarOf[j]
  /\ at \in {"forward", "outcome"} /\ result = "ok" => target[picked] = Tar

Before(p, q) ==
  \A l \in ToSet(p), m \in ToSet(q) : l.stream = m.stream => l.n < m.n

(* The lines on their way: each is in one of the queues, the queues are in *)
(* order, and nothing a reader has not given up on is missing.             *)
Queues ==
  /\ wrote \in [Streams -> Nat] /\ pipe \in [Streams -> Seq(Line)]
  /\ channel \in Seq(Line) /\ log \in Seq(Line) /\ tail \in Seq(Line) /\ pending \in Seq(Line)
  /\ cut \subseteq Streams /\ reader \in [Streams -> {"none", "reading", "ended"}]
  /\ \A s \in Streams : reader[s] # "reading" => pipe[s] = <<>>
  /\ \A l \in ToSet(pending) : l.n = wrote[l.stream] + 1 /\ l.run = run
  /\ \A s \in Streams : \A l \in ToSet(pipe[s]) : l.stream = s /\ l.run = run /\ l.n <= wrote[s]
  /\ \A l \in ToSet(log) \cup ToSet(channel) : l.n <= wrote[l.stream] /\ l.run <= run

InSequence ==
  /\ InTurn(log) /\ InTurn(channel) /\ Before(log, channel)
  /\ \A s \in Streams : InTurn(pipe[s]) /\ Before(log, pipe[s]) /\ Before(channel, pipe[s])

Whole ==
  \A s \in Streams \ cut :
    /\ \A n \in 1 .. wrote[s] :
         \E l \in ToSet(log) \cup ToSet(channel) \cup ToSet(pipe[s]) : l.stream = s /\ l.n = n
    /\ reader[s] # "reading" => child \notin {"running", "hung"}

(* The stderr lines of this run that were read, and their end.             *)
ReadErr == {l \in ToSet(log) \cup ToSet(channel) : l.stream = "stderr" /\ l.run = run}

TailOfRead ==
  /\ ToSet(tail) \subseteq ReadErr /\ InTurn(tail) /\ Len(tail) <= TailCap
  /\ ToSet(tail) = ReadErr \/ Len(tail) = TailCap
  /\ \A l \in ReadErr \ ToSet(tail), m \in ToSet(tail) : l.n < m.n

Flow     == Queues /\ InSequence /\ Whole /\ TailOfRead
BuildInv == Thread /\ Disk /\ Flow

-----------------------------------------------------------------------------
(* Largest elements, by induction over the numbers.                        *)

(* Every nonempty set of numbers has a least.                              *)
LEMMA Least ==
  ASSUME NEW T \in SUBSET Nat, T # {}
  PROVE  \E n \in T : \A m \in T : n <= m
<1>1. IsWellFoundedOn(OpToRel(<, Nat), Nat)
  BY NatLessThanWellFounded
<1>2. PICK n \in T : \A m \in T : ~(<<m, n>> \in OpToRel(<, Nat))
  BY <1>1, WFMin
<1>3. \A m \in T : ~(m < n)
  BY <1>2 DEF OpToRel
<1> QED BY <1>3

(* A set of numbers that has 0 and every successor has them all.           *)
LEMMA Induction ==
  ASSUME NEW S, 0 \in S, \A n \in Nat : n \in S => n + 1 \in S
  PROVE  Nat \subseteq S
<1> DEFINE T == {n \in Nat : n \notin S}
<1> SUFFICES ASSUME T # {} PROVE FALSE OBVIOUS
<1>1. PICK n \in T : \A m \in T : n <= m BY Least
<1>2. n # 0 OBVIOUS
<1>3. n - 1 \in Nat /\ n - 1 \notin T BY <1>1, <1>2
<1> QED BY <1>1, <1>2, <1>3

(* A nonempty set of numbers that has an upper bound has a largest.        *)
LEMMA MaxFacts ==
  ASSUME NEW S \in SUBSET Nat, S # {}, NEW b \in Nat, \A m \in S : m <= b
  PROVE  Max(S) \in S /\ \A y \in S : Max(S) >= y
<1> DEFINE T == {n \in Nat : \A m \in S : m <= n}
<1>1. PICK n \in T : \A m \in T : n <= m
  <2>1. b \in T
    OBVIOUS
  <2> QED BY <2>1, Least
<1>2. n \in S
  <2> SUFFICES ASSUME n \notin S PROVE FALSE
    OBVIOUS
  <2>1. PICK m \in S : m \in Nat
    OBVIOUS
  <2>2. n \in Nat /\ n # 0
    BY <1>1, <2>1
  <2>3. \A k \in S : k <= n - 1
    BY <1>1, <2>2
  <2>4. n - 1 \in T
    BY <2>2, <2>3
  <2> QED BY <1>1, <2>2, <2>4
<1>3. \E x \in S : \A y \in S : x >= y
  BY <1>1, <1>2
<1> QED BY <1>3 DEF Max

(* The larger of two numbers.                                              *)
LEMMA MaxOfTwo ==
  ASSUME NEW a \in Int, NEW b \in Int
  PROVE  Max({a, b}) = IF a >= b THEN a ELSE b
BY DEF Max

-----------------------------------------------------------------------------
(* Sequences and the sets of their elements.                               *)

LEMMA SeqSet ==
  ASSUME NEW S, NEW s \in Seq(S)
  PROVE  /\ ToSet(s) = {s[i] : i \in 1 .. Len(s)}
         /\ ToSet(s) \subseteq S
         /\ \A i \in 1 .. Len(s) : s[i] \in ToSet(s)
         /\ \A x \in ToSet(s) : \E i \in 1 .. Len(s) : x = s[i]
BY DEF ToSet

LEMMA EmptySet ==
  ToSet(<<>>) = {} /\ InTurn(<<>>) /\ Len(<<>>) = 0
BY DEF ToSet, InTurn

LEMMA AppendSet ==
  ASSUME NEW S, NEW s \in Seq(S), NEW e \in S
  PROVE  ToSet(Append(s, e)) = ToSet(s) \cup {e}
<1> DEFINE t == Append(s, e)
<1>1. /\ t \in Seq(S) /\ Len(t) = Len(s) + 1 /\ Len(s) \in Nat
      /\ \A i \in 1 .. Len(s) : t[i] = s[i]
      /\ t[Len(s) + 1] = e
  OBVIOUS
<1> HIDE DEF t
<1>2. \A x : x \in ToSet(t) <=> \E i \in 1 .. Len(s) + 1 : x = t[i]
  BY <1>1, SeqSet
<1>3. \A x : x \in ToSet(s) <=> \E i \in 1 .. Len(s) : x = s[i]
  BY SeqSet
<1>4. ToSet(t) = ToSet(s) \cup {e}
  BY <1>1, <1>2, <1>3
<1> QED BY <1>4 DEF t

LEMMA TailSet ==
  ASSUME NEW S, NEW s \in Seq(S), s # <<>>
  PROVE  /\ Tail(s) \in Seq(S) /\ Len(Tail(s)) = Len(s) - 1 /\ Len(s) \in Nat \ {0}
         /\ \A i \in 1 .. Len(s) - 1 : Tail(s)[i] = s[i + 1]
         /\ Head(s) = s[1] /\ Head(s) \in S /\ Head(s) \in ToSet(s)
         /\ ToSet(s) = {Head(s)} \cup ToSet(Tail(s))
<1> DEFINE t == Tail(s)
<1>1. /\ t \in Seq(S) /\ Len(t) = Len(s) - 1 /\ Len(s) \in Nat \ {0}
      /\ \A i \in 1 .. Len(s) - 1 : t[i] = s[i + 1]
      /\ Head(s) = s[1] /\ Head(s) \in S
  OBVIOUS
<1> HIDE DEF t
<1>2. /\ \A i \in 1 .. Len(t) : t[i] \in ToSet(t)
      /\ \A x \in ToSet(t) : \E i \in 1 .. Len(t) : x = t[i]
  BY <1>1, SeqSet
<1>3. /\ \A i \in 1 .. Len(s) : s[i] \in ToSet(s)
      /\ \A x \in ToSet(s) : \E i \in 1 .. Len(s) : x = s[i]
  BY SeqSet
<1>4. Head(s) \in ToSet(s)
  BY <1>1, <1>3
<1>5. ASSUME NEW x \in ToSet(s)
      PROVE  x = Head(s) \/ x \in ToSet(t)
  <2>1. PICK i \in 1 .. Len(s) : x = s[i]
    BY <1>3
  <2>2. CASE i = 1
    BY <1>1, <2>1, <2>2
  <2>3. CASE i # 1
    <3>1. i - 1 \in 1 .. Len(t) /\ i - 1 \in 1 .. Len(s) - 1 /\ (i - 1) + 1 = i
      BY <1>1, <2>3
    <3>2. t[i - 1] = x
      BY <1>1, <2>1, <3>1
    <3> QED BY <1>2, <3>1, <3>2
  <2> QED BY <2>2, <2>3
<1>6. ASSUME NEW x \in ToSet(t)
      PROVE  x \in ToSet(s)
  <2>1. PICK i \in 1 .. Len(t) : x = t[i]
    BY <1>2
  <2>2. i \in 1 .. Len(s) - 1 /\ i + 1 \in 1 .. Len(s)
    BY <1>1
  <2>3. x = s[i + 1]
    BY <1>1, <2>1, <2>2
  <2> QED BY <1>3, <2>2, <2>3
<1>7. ToSet(s) = {Head(s)} \cup ToSet(t)
  BY <1>4, <1>5, <1>6
<1> QED BY <1>1, <1>4, <1>7 DEF t

LEMMA AppendInTurn ==
  ASSUME NEW s \in Seq(Line), InTurn(s), NEW l \in Line,
         \A m \in ToSet(s) : m.stream = l.stream => m.n < l.n
  PROVE  /\ Append(s, l) \in Seq(Line) /\ InTurn(Append(s, l))
         /\ ToSet(Append(s, l)) = ToSet(s) \cup {l}
<1> DEFINE t == Append(s, l)
<1>1. /\ t \in Seq(Line) /\ Len(t) = Len(s) + 1 /\ Len(s) \in Nat
      /\ \A i \in 1 .. Len(s) : t[i] = s[i]
      /\ t[Len(s) + 1] = l
  OBVIOUS
<1>2. ToSet(t) = ToSet(s) \cup {l}
  BY AppendSet
<1> HIDE DEF t
<1>3. ASSUME NEW i \in 1 .. Len(t), NEW k \in 1 .. Len(t), i < k, t[i].stream = t[k].stream
      PROVE  t[i].n < t[k].n
  <2>1. i \in 1 .. Len(s) /\ t[i] = s[i]
    BY <1>1, <1>3
  <2>2. CASE k \in 1 .. Len(s)
    BY <1>1, <1>3, <2>1, <2>2 DEF InTurn
  <2>3. CASE k = Len(s) + 1
    <3>1. s[i] \in ToSet(s)
      BY <2>1, SeqSet
    <3> QED BY <1>1, <1>3, <2>1, <2>3, <3>1
  <2> QED BY <1>1, <2>2, <2>3
<1>4. InTurn(t)
  BY <1>3 DEF InTurn
<1> QED BY <1>1, <1>2, <1>4 DEF t

LEMMA TailInTurn ==
  ASSUME NEW s \in Seq(Line), InTurn(s), s # <<>>
  PROVE  /\ Tail(s) \in Seq(Line) /\ Head(s) \in Line /\ InTurn(Tail(s))
         /\ Len(Tail(s)) = Len(s) - 1
         /\ ToSet(s) = {Head(s)} \cup ToSet(Tail(s))
         /\ \A m \in ToSet(Tail(s)) : m.stream = Head(s).stream => Head(s).n < m.n
<1> DEFINE t == Tail(s)
           h == Head(s)
<1>1. /\ t \in Seq(Line) /\ Len(t) = Len(s) - 1 /\ Len(s) \in Nat \ {0}
      /\ \A i \in 1 .. Len(s) - 1 : t[i] = s[i + 1]
      /\ h = s[1] /\ h \in Line
      /\ ToSet(s) = {h} \cup ToSet(t)
  BY TailSet
<1> HIDE DEF t, h
<1>2. \A i \in 1 .. Len(t) : i + 1 \in 1 .. Len(s) /\ t[i] = s[i + 1]
  BY <1>1
<1>3. ASSUME NEW i \in 1 .. Len(t), NEW k \in 1 .. Len(t), i < k, t[i].stream = t[k].stream
      PROVE  t[i].n < t[k].n
  <2>1. i + 1 \in 1 .. Len(s) /\ k + 1 \in 1 .. Len(s) /\ i + 1 < k + 1
    BY <1>2, <1>3
  <2> QED BY <1>2, <1>3, <2>1 DEF InTurn
<1>4. ASSUME NEW m \in ToSet(t), m.stream = h.stream
      PROVE  h.n < m.n
  <2>1. PICK i \in 1 .. Len(t) : m = t[i]
    BY <1>1, SeqSet
  <2>2. 1 \in 1 .. Len(s) /\ i + 1 \in 1 .. Len(s) /\ 1 < i + 1 /\ m = s[i + 1]
    BY <1>1, <1>2, <2>1
  <2> QED BY <1>1, <1>4, <2>2 DEF InTurn
<1>5. InTurn(t)
  BY <1>3 DEF InTurn
<1> QED BY <1>1, <1>4, <1>5 DEF t, h

(* One more line in a tail: the last k of one more than k lines lack the   *)
(* first.                                                                  *)
LEMMA LastOfAppend ==
  ASSUME NEW s \in Seq(Line), NEW l \in Line, NEW k \in Nat \ {0}, Len(s) <= k
  PROVE  LastOf(Append(s, l), k) = IF Len(s) < k THEN Append(s, l) ELSE Tail(Append(s, l))
<1> DEFINE t == Append(s, l)
<1>1. t \in Seq(Line) /\ Len(t) = Len(s) + 1 /\ Len(s) \in Nat
  OBVIOUS
<1> HIDE DEF t
<1>2. LastOf(t, k) = SubSeq(t, IF 1 >= Len(t) - k + 1 THEN 1 ELSE Len(t) - k + 1, Len(t))
  <2>1. Max({1, Len(t) - k + 1}) = IF 1 >= Len(t) - k + 1 THEN 1 ELSE Len(t) - k + 1
    BY <1>1, MaxOfTwo
  <2> QED BY <2>1 DEF LastOf
<1>3. CASE Len(s) < k
  <2>1. LastOf(t, k) = SubSeq(t, 1, Len(t))
    <3>1. 1 >= Len(t) - k + 1
      BY <1>1, <1>3
    <3> QED BY <1>2, <3>1
  <2>2. SubSeq(t, 1, Len(t)) = t
    BY <1>1, SubSeqFull
  <2> QED BY <1>3, <2>1, <2>2 DEF t
<1>4. CASE Len(s) = k
  <2>1. LastOf(t, k) = SubSeq(t, 2, Len(t))
    BY <1>1, <1>2, <1>4
  <2>2. Tail(t) = SubSeq(t, 2, Len(t))
    <3>1. t # <<>>
      BY <1>1
    <3> QED BY <1>1, <3>1, TailIsSubSeq
  <2> QED BY <1>4, <2>1, <2>2 DEF t
<1> QED BY <1>1, <1>3, <1>4

-----------------------------------------------------------------------------
(* The slot and its thread.                                                *)

LEMMA Numbers ==
  /\ TarOf \in Seq(Nat \ {0}) /\ Len(TarOf) \in Nat
  /\ PipeCap \in Nat \ {0} /\ TailCap \in Nat \ {0} /\ Updates \in Nat /\ MaxLines \in Nat
  /\ \A i \in 1 .. Len(TarOf) : TarOf[i] \in Tars /\ TarOf[i] \in DOMAIN NameOf
  /\ \A t \in Tars : t \in Nat \ {0} /\ t \in DOMAIN NameOf
  /\ \A t \in DOMAIN NameOf : NameOf[t] \in Nat /\ (NameOf[t] # 0 => NameOf[t] \in Names)
  /\ Names \subseteq Nat \ {0}
<1>1. /\ TarOf \in Seq(Nat \ {0}) /\ NameOf \in [DOMAIN NameOf -> Nat] /\ Tars \subseteq DOMAIN NameOf
      /\ {PipeCap, TailCap} \subseteq Nat \ {0} /\ {Updates, MaxLines} \subseteq Nat
  BY BuildAssumption
<1>2. Tars = {TarOf[i] : i \in 1 .. Len(TarOf)} /\ Len(TarOf) \in Nat
  BY <1>1 DEF Tars, Range
<1>3. Names = {NameOf[t] : t \in DOMAIN NameOf} \ {0}
  BY DEF Names, Range
<1>4. \A t \in DOMAIN NameOf : NameOf[t] \in Nat
  BY <1>1
<1>5. \A i \in 1 .. Len(TarOf) : TarOf[i] \in Nat \ {0}
  BY <1>1
<1> QED BY <1>1, <1>2, <1>3, <1>4, <1>5

LEMMA ThreadFacts ==
  ASSUME Thread
  PROVE  /\ job \in Nat /\ run \in Nat /\ run <= Updates + 1
         /\ at # "idle" => job \in 1 .. Len(TarOf) /\ Tar \in Tars
<1>1. job \in 0 .. Len(TarOf) /\ run \in 0 .. Updates + 1 /\ (at # "idle" => job # 0)
  BY DEF Thread
<1>2. at # "idle" => job \in 1 .. Len(TarOf)
  BY <1>1, Numbers
<1> QED BY <1>1, <1>2, Numbers DEF Tar

(* The thread's own steps, up to cargo ...                                 *)
LEMMA ThreadBefore ==
  ASSUME Thread, Claim \/ CacheHit \/ CacheMiss \/ UnpackFails \/ Unpack \/ Spawn \/ SpawnFails
  PROVE  Thread'
<1> USE Numbers, ThreadFacts
<1>1. CASE Claim
  BY <1>1 DEF Claim, Thread, Ats, process, disk
<1>2. CASE CacheHit
  BY <1>2 DEF CacheHit, End, Thread, Ats, Ended, process, lines, disk
<1>3. CASE CacheMiss
  BY <1>3 DEF CacheMiss, Thread, Ats, slot, process, lines, disk
<1>4. CASE UnpackFails
  BY <1>4 DEF UnpackFails, Return, Thread, Ats, slot, process, lines, disk
<1>5. CASE Unpack
  BY <1>5 DEF Unpack, Thread, Ats, slot, process, lines, disk
<1>6. CASE Spawn
  BY <1>6 DEF Spawn, Thread, Ats, slot, disk
<1>7. CASE SpawnFails
  BY <1>7 DEF SpawnFails, Return, Thread, Ats, slot, process, lines, disk
<1> QED BY <1>1, <1>2, <1>3, <1>4, <1>5, <1>6, <1>7

(* ... while it runs ...                                                   *)
LEMMA ThreadWaits ==
  ASSUME Thread, Queues, Poll \/ ReceiveTimesOut \/ Kill \/ AfterCargo \/ DiscoverElf
  PROVE  Thread'
<1> USE Numbers, ThreadFacts
<1>1. CASE Poll
  BY <1>1 DEF Poll, Exited, Thread, Ats, slot, process, lines, disk
<1>2. CASE ReceiveTimesOut
  BY <1>2 DEF ReceiveTimesOut, Exited, Thread, Ats, slot, process, lines, disk
<1>3. CASE Kill
  BY <1>3 DEF Kill, Exited, Thread, Ats, slot, lines, disk
<1>4. CASE AfterCargo
  <2>1. \A s \in Streams : reader[s] # "reading"
    BY <1>4 DEF AfterCargo, Joined
  <2>2. /\ at' \in {"forward", "spawn", "discover"} /\ at = "join"
        /\ at' = "spawn" => run <= Updates
        /\ at' = "discover" => child = "ok" /\ run > Updates
        /\ UNCHANGED <<slot, cancel, run, picked, process, lines, disk>>
    BY <1>4 DEF AfterCargo, Return
  <2> QED BY <2>1, <2>2 DEF Thread, Ats, slot, process, lines, disk
<1>5. CASE DiscoverElf
  BY <1>5 DEF DiscoverElf, Return, Thread, Ats, slot, process, lines, disk
<1> QED BY <1>1, <1>2, <1>3, <1>4, <1>5

(* ... and after it.                                                       *)
LEMMA ThreadAfter ==
  ASSUME Thread, JoinForwarder \/ BuildErr \/ BuildCancelled \/ Store \/ CopyFails
  PROVE  Thread'
<1> USE Numbers, ThreadFacts
<1>1. CASE JoinForwarder
  BY <1>1 DEF JoinForwarder, Thread, Ats, slot, process, lines, disk
<1>2. ASSUME NEW s \in Ended, at = "outcome", End(s),
             UNCHANGED <<job, cancel, run, process, lines>>
      PROVE  Thread'
  BY <1>2 DEF End, Thread, Ats, process, lines
<1> QED
  BY <1>1, <1>2 DEF BuildErr, BuildCancelled, Store, CopyFails, Ended

(* Cargo, the readers, the forwarder and who cancels.                      *)
LEMMA ThreadOthers ==
  ASSUME Thread, Queues, Cargo \/ Hang \/ Cancel \/ HelperEnds \/ Forward
                         \/ \E s \in Streams : Reader(s)
  PROVE  Thread'
<1>1. ASSUME NEW s \in Streams, Emit(s)
      PROVE  Thread'
  BY <1>1 DEF Emit, Put, Thread, slot, thread, disk
<1>2. CASE Unblock
  BY <1>2 DEF Unblock, Put, Thread, slot, thread, disk
<1>3. CASE Link
  BY <1>3 DEF Link, Thread, slot, thread, lines
<1>4. CASE Exit
  BY <1>4 DEF Exit, Thread, slot, thread, lines, disk
<1>5. CASE Hang
  BY <1>5 DEF Hang, Thread, slot, thread, lines, disk
<1>6. CASE Cancel
  BY <1>6 DEF Cancel, Thread, slot, thread, process, lines, disk
<1>7. CASE HelperEnds
  BY <1>7 DEF HelperEnds, Thread, slot, thread, lines, disk
<1>8. CASE Forward
  BY <1>8 DEF Forward, Thread, slot, thread, process, disk
<1>9. ASSUME NEW s \in Streams, Reader(s)
      PROVE  Thread'
  <2>1. /\ reader[s] = "reading" /\ \A r \in Streams : reader'[r] \in {reader[r], "ended"}
        /\ UNCHANGED <<slot, cancel, thread, process>>
    BY <1>9 DEF Reader, Read, EndOfFile, Reading, Queues
  <2>2. at \in {"poll", "receive", "join"}
    BY <2>1 DEF Thread
  <2> QED BY <2>1, <2>2 DEF Thread, slot, thread, process
<1> QED BY <1>1, <1>2, <1>3, <1>4, <1>5, <1>6, <1>7, <1>8, <1>9 DEF Cargo

-----------------------------------------------------------------------------
(* What lies on the disk.                                                  *)

(* An ELF is found where there is one, and it is the last in the order.    *)
LEMMA CandidateFacts ==
  ASSUME Thread, Disk, Candidates # {}
  PROVE  Max(Candidates) \in Candidates /\ \A n \in Candidates : n <= Max(Candidates)
<1> DEFINE P(k) == \E b \in Nat : \A i \in 1 .. k : NameOf[TarOf[i]] <= b
           S    == {k \in Nat : k <= Len(TarOf) => P(k)}
<1>1. 0 \in S
  OBVIOUS
<1>2. ASSUME NEW k \in Nat, P(k), k + 1 <= Len(TarOf)
      PROVE  P(k + 1)
  <2>1. PICK b \in Nat : \A i \in 1 .. k : NameOf[TarOf[i]] <= b
    BY <1>2
  <2>2. \A i \in 1 .. k + 1 : NameOf[TarOf[i]] \in Nat /\ (i \in 1 .. k \/ i = k + 1)
    <3>1. \A i \in 1 .. k + 1 : i \in 1 .. Len(TarOf) /\ (i \in 1 .. k \/ i = k + 1)
      BY <1>2, Numbers
    <3> QED BY <3>1, Numbers
  <2>3. PICK c \in Nat : c = NameOf[TarOf[k + 1]]
    BY <2>2
  <2>4. b + c \in Nat /\ b <= b + c /\ c <= b + c
    OBVIOUS
  <2>5. ASSUME NEW i \in 1 .. k + 1
        PROVE  NameOf[TarOf[i]] <= b + c
    <3>1. NameOf[TarOf[i]] \in Nat /\ (i \in 1 .. k \/ i = k + 1)
      BY <2>2
    <3>2. NameOf[TarOf[i]] <= b \/ NameOf[TarOf[i]] = c
      BY <2>1, <2>3, <3>1
    <3> QED BY <2>4, <3>1, <3>2
  <2> QED BY <2>4, <2>5
<1>3. Nat \subseteq S
  <2>1. ASSUME NEW k \in Nat, k \in S
        PROVE  k + 1 \in S
    <3> HIDE DEF P
    <3>1. k <= Len(TarOf) => P(k)
      BY <2>1
    <3>2. k + 1 <= Len(TarOf) => P(k + 1)
      BY <1>2, <3>1, Numbers
    <3> QED BY <3>2
  <2> HIDE DEF S
  <2> QED BY <1>1, <2>1, Induction
<1>4. job \in Nat /\ job <= Len(TarOf)
  BY Numbers DEF Thread
<1>5. PICK b \in Nat : \A i \in 1 .. job : NameOf[TarOf[i]] <= b
  BY <1>3, <1>4
<1>6. Candidates \in SUBSET Nat /\ \A n \in Candidates : n <= b
  <2>1. ASSUME NEW n \in Candidates
        PROVE  n \in Nat /\ n <= b
    <3>1. n \in Nat /\ \E i \in 1 .. job : n = NameOf[TarOf[i]]
      BY Numbers DEF Candidates, Disk
    <3> QED BY <1>5, <3>1
  <2> QED BY <2>1
<1>7. Max(Candidates) \in Candidates /\ \A n \in Candidates : Max(Candidates) >= n
  <2> HIDE DEF Candidates
  <2> QED BY <1>6, MaxFacts
<1> QED BY <1>6, <1>7

(* Steps that leave the ELFs alone.                                        *)
LEMMA DiskFrame ==
  ASSUME Disk, UNCHANGED <<job, picked, linked, disk>>,
         child' = "ok" /\ run' > Updates => linked,
         at' \in {"forward", "outcome"} /\ result' = "ok"
           => at \in {"forward", "outcome"} /\ result = "ok"
  PROVE  Disk'
BY DEF Disk, Candidates, Tar, disk

LEMMA DiskThread ==
  ASSUME Thread, Disk, BuildThread
  PROVE  Disk'
<1> USE Numbers, ThreadFacts
<1>1. CASE Claim
  <2>1. /\ job' = job + 1 /\ picked' = 0 /\ child' = "none" /\ linked' = FALSE /\ at' = "lookup"
        /\ UNCHANGED <<target, files, rows>>
    BY <1>1 DEF Claim, disk
  <2>2. \A n \in Names : target[n] # 0 => \E i \in 1 .. job + 1 : n = NameOf[TarOf[i]]
    BY DEF Disk
  <2> QED BY <2>1, <2>2 DEF Disk
<1>2. ASSUME CacheHit \/ CacheMiss \/ UnpackFails \/ Unpack \/ SpawnFails \/ Poll
               \/ ReceiveTimesOut \/ JoinForwarder \/ BuildErr \/ BuildCancelled \/ CopyFails
      PROVE  Disk'
  <2>1. /\ UNCHANGED <<job, picked, linked, disk, child, run>>
        /\ at' \in {"forward", "outcome"} /\ result' = "ok"
             => at \in {"forward", "outcome"} /\ result = "ok"
    BY <1>2 DEF CacheHit, CacheMiss, UnpackFails, Unpack, SpawnFails, Poll, ReceiveTimesOut,
         JoinForwarder, BuildErr, BuildCancelled, CopyFails, End, Return, slot, thread, process
  <2> QED BY <2>1, DiskFrame DEF Disk
<1>3. CASE Spawn
  BY <1>3, DiskFrame DEF Spawn, slot
<1>4. CASE Kill
  BY <1>4, DiskFrame DEF Kill, Exited, slot, Disk
<1>5. CASE AfterCargo
  <2>1. /\ UNCHANGED <<job, picked, linked, disk, child, run>>
        /\ at' \in {"forward", "outcome"} => result' # "ok"
    BY <1>5 DEF AfterCargo, Return, slot, process
  <2> QED BY <2>1, DiskFrame DEF Disk
<1>6. CASE DiscoverElf
  <2>1. UNCHANGED <<job, run, child, linked, disk>>
    BY <1>6 DEF DiscoverElf, slot, process
  <2>2. \/ UNCHANGED picked /\ result' # "ok"
        \/ Candidates # {} /\ picked' = Max(Candidates)
    BY <1>6 DEF DiscoverElf, Return
  <2>3. CASE UNCHANGED picked /\ result' # "ok"
    BY <2>1, <2>3, DiskFrame DEF Disk
  <2>4. CASE Candidates # {} /\ picked' = Max(Candidates)
    <3>1. picked' \in Candidates
      BY <2>4, CandidateFacts
    <3> QED BY <2>1, <3>1 DEF Disk, Candidates, Tar, disk
  <2> QED BY <2>2, <2>3, <2>4
<1>7. CASE Store
  <2>1. /\ UNCHANGED <<job, picked, run, child, linked, target>> /\ at' = "idle"
        /\ at = "outcome" /\ result = "ok"
        /\ files' = [files EXCEPT ![Tar] = target[picked]] /\ rows' \in {rows, rows \cup {Tar}}
    BY <1>7 DEF Store, End, process
  <2>2. target[picked] \in Tars \cup {0} /\ Tar \in Tars
    BY <2>1 DEF Disk, Candidates
  <2> QED BY <2>1, <2>2 DEF Disk, Tar
<1> QED BY <1>1, <1>2, <1>3, <1>4, <1>5, <1>6, <1>7 DEF BuildThread

LEMMA DiskOthers ==
  ASSUME Thread, Disk, Cargo \/ Hang \/ Cancel \/ HelperEnds \/ Forward
                       \/ \E s \in Streams : Reader(s)
  PROVE  Disk'
<1> USE Numbers, ThreadFacts
<1>1. CASE Link
  <2>1. /\ child = "running" /\ at # "idle" /\ linked' = TRUE
        /\ target' = IF NameOf[Tar] = 0 THEN target ELSE [target EXCEPT ![NameOf[Tar]] = Tar]
        /\ UNCHANGED <<job, at, run, result, picked, child, files, rows>>
    BY <1>1 DEF Link, Thread, slot, thread
  <2>2. job \in 1 .. Len(TarOf) /\ Tar \in Tars /\ Tar # 0 /\ Tar = TarOf[job]
    BY <2>1 DEF Tar
  <2>3. target' \in [Names -> Tars \cup {0}] /\ (NameOf[Tar] # 0 => target'[NameOf[Tar]] = Tar)
    BY <2>1, <2>2 DEF Disk
  <2>4. \A n \in Names : target'[n] # 0 => \E i \in 1 .. job : n = NameOf[TarOf[i]]
    BY <2>1, <2>2 DEF Disk
  <2>5. \A n \in Names : target[n] # 0 => target'[n] # 0
    BY <2>1, <2>2 DEF Disk
  <2> QED BY <2>1, <2>2, <2>3, <2>4, <2>5 DEF Disk, Candidates, Tar
<1>2. CASE Exit
  BY <1>2, DiskFrame DEF Exit, slot, thread
<1>3. ASSUME Hang \/ Cancel \/ HelperEnds \/ Forward \/ (\E s \in Streams : Emit(s) \/ Reader(s))
               \/ Unblock
      PROVE  Disk'
  <2>1. /\ UNCHANGED <<job, at, run, result, picked, linked, disk>>
        /\ child' \in {child, "running", "failed", "hung"}
    BY <1>3 DEF Hang, Cancel, HelperEnds, Forward, Emit, Put, Reader, Read, EndOfFile, Unblock,
         slot, thread, process
  <2> QED BY <2>1, DiskFrame DEF Disk
<1> QED BY <1>1, <1>2, <1>3 DEF Cargo

-----------------------------------------------------------------------------
(* The artifacts of a slot whose crates' ELFs come in order.               *)

LEMMA OwnElfFrame ==
  ASSUME OwnElf, UNCHANGED <<job, handed, picked, target, files>>,
         at' \in {"forward", "outcome"} /\ result' = "ok"
           => at \in {"forward", "outcome"} /\ result = "ok"
  PROVE  OwnElf'
BY DEF OwnElf, Tar

LEMMA OwnElfStep ==
  ASSUME InOrder, Thread, Disk, OwnElf, Next
  PROVE  OwnElf'
<1> USE Numbers, ThreadFacts
<1>1. CASE Claim
  BY <1>1 DEF Claim, OwnElf, disk
<1>2. CASE CacheHit
  <2>1. /\ Tar \in rows /\ files[Tar] # 0 /\ handed' = handed \cup {job} /\ at' = "idle"
        /\ UNCHANGED <<job, files>> /\ Tar \in Tars
    BY <1>2 DEF CacheHit, End, disk
  <2>2. files[Tar] = Tar
    BY <2>1 DEF OwnElf
  <2> QED BY <2>1, <2>2 DEF OwnElf, Tar
<1>3. CASE Store
  <2>1. /\ UNCHANGED <<job, picked, target>> /\ at' = "idle" /\ handed' = handed \cup {job}
        /\ at = "outcome" /\ result = "ok"
        /\ files' = [files EXCEPT ![Tar] = target[picked]] /\ Tar \in Tars
    BY <1>3 DEF Store, End
  <2>2. target[picked] = Tar
    BY <2>1 DEF OwnElf
  <2>3. /\ files \in [Tars -> Tars \cup {0}]
        /\ \A j \in handed : TarOf[j] \in Tars
    BY DEF Disk, Thread
  <2>4. files'[Tar] = Tar /\ \A t \in Tars : files'[t] \in {files[t], t}
    BY <2>1, <2>2, <2>3
  <2>5. \A t \in Tars : files'[t] \in {0, t}
    BY <2>4 DEF OwnElf
  <2>6. \A j \in handed' : files'[TarOf[j]] = TarOf[j]
    BY <2>1, <2>3, <2>4 DEF OwnElf, Tar
  <2> QED BY <2>1, <2>5, <2>6 DEF OwnElf
<1>4. CASE DiscoverElf
  <2>1. /\ UNCHANGED <<job, handed, target, files>> /\ at = "discover" /\ at' = "forward"
        /\ result' = "ok" => Candidates # {} /\ picked' = Max(Candidates)
    BY <1>4 DEF DiscoverElf, Return, slot, disk
  <2>2. ASSUME result' = "ok"
        PROVE  target[picked'] = Tar
    <3>1. linked /\ job \in 1 .. Len(TarOf)
      BY <2>1 DEF Thread, Disk
    <3>2. /\ Candidates # {} /\ picked' \in Candidates
          /\ \A n \in Candidates : n <= picked'
      BY <2>1, <2>2, CandidateFacts
    <3>3. PICK i \in 1 .. job : picked' = NameOf[TarOf[i]]
      BY <3>2 DEF Candidates, Disk
    <3>4. picked' <= NameOf[Tar] /\ picked' \in Nat \ {0} /\ NameOf[Tar] \in Nat
      <4>1. i \in 1 .. Len(TarOf) /\ i <= job
        BY <3>1
      <4>2. NameOf[TarOf[i]] <= NameOf[Tar]
        BY <3>1, <4>1 DEF InOrder, Tar
      <4>3. picked' \in Names /\ NameOf[Tar] \in Nat
        BY <3>1, <3>2 DEF Candidates, Tar
      <4> QED BY <3>3, <4>2, <4>3
    <3>5. NameOf[Tar] \in Candidates /\ target[NameOf[Tar]] = Tar
      BY <3>1, <3>4 DEF Disk, Candidates, Tar
    <3>6. picked' = NameOf[Tar]
      BY <3>2, <3>4, <3>5
    <3> QED BY <3>5, <3>6
  <2> QED BY <2>1, <2>2 DEF OwnElf, Tar
<1>5. CASE Link
  <2>1. /\ at \in {"poll", "receive"} /\ UNCHANGED <<job, handed, at, files>>
    BY <1>5 DEF Link, Thread, slot, thread
  <2> QED BY <2>1 DEF OwnElf
<1>6. ASSUME CacheMiss \/ UnpackFails \/ Unpack \/ Spawn \/ SpawnFails \/ Poll
               \/ ReceiveTimesOut \/ Kill \/ JoinForwarder \/ BuildErr \/ BuildCancelled \/ CopyFails
      PROVE  OwnElf'
  <2>1. /\ UNCHANGED <<job, handed, picked, target, files>>
        /\ at' \in {"forward", "outcome"} /\ result' = "ok"
             => at \in {"forward", "outcome"} /\ result = "ok"
    BY <1>6 DEF CacheMiss, UnpackFails, Unpack, Spawn, SpawnFails, Poll, ReceiveTimesOut, Kill,
         JoinForwarder, BuildErr, BuildCancelled, CopyFails, End, Return, slot, thread, disk
  <2> QED BY <2>1, OwnElfFrame
<1>7. CASE AfterCargo
  <2>1. /\ UNCHANGED <<job, handed, picked, target, files>>
        /\ at' \in {"forward", "outcome"} => result' # "ok"
    BY <1>7 DEF AfterCargo, Return, slot, disk
  <2> QED BY <2>1, OwnElfFrame
<1>8. ASSUME Exit \/ Hang \/ Cancel \/ HelperEnds \/ Forward
               \/ (\E s \in Streams : Emit(s) \/ Reader(s)) \/ Unblock
      PROVE  OwnElf'
  <2>1. UNCHANGED <<job, handed, at, result, picked, target, files>>
    BY <1>8 DEF Exit, Hang, Cancel, HelperEnds, Forward, Emit, Reader, Read, EndOfFile, Unblock,
         slot, thread, disk
  <2> QED BY <2>1, OwnElfFrame
<1> QED
  BY <1>1, <1>2, <1>3, <1>4, <1>5, <1>6, <1>7, <1>8 DEF Next, BuildThread, Cargo

-----------------------------------------------------------------------------
(* The lines on their way.                                                 *)

LEMMA LineFacts ==
  ASSUME Queues
  PROVE  /\ \A l \in ToSet(log) \cup ToSet(channel) :
              /\ l \in Line /\ l.stream \in Streams /\ l.n \in Nat /\ l.run \in Nat
              /\ l.n <= wrote[l.stream] /\ l.run <= run
         /\ \A r \in Streams : \A l \in ToSet(pipe[r]) :
              /\ l \in Line /\ l.n \in Nat
              /\ l.stream = r /\ l.run = run /\ l.n <= wrote[r]
<1>1. /\ log \in Seq(Line) /\ channel \in Seq(Line) /\ \A r \in Streams : pipe[r] \in Seq(Line)
  BY DEF Queues
<1>2. /\ \A l \in ToSet(log) \cup ToSet(channel) : l \in Line
      /\ \A r \in Streams : \A l \in ToSet(pipe[r]) : l \in Line
  BY <1>1, SeqSet
<1>3. \A l \in Line : l.stream \in Streams /\ l.n \in Nat /\ l.run \in Nat
  BY DEF Line
<1>4. /\ \A l \in ToSet(log) \cup ToSet(channel) : l.n <= wrote[l.stream] /\ l.run <= run
      /\ \A r \in Streams : \A l \in ToSet(pipe[r]) : l.stream = r /\ l.run = run /\ l.n <= wrote[r]
  BY DEF Queues
<1> QED BY <1>2, <1>3, <1>4

(* Steps that leave them where they are.                                   *)
LEMMA FlowFrame ==
  ASSUME Flow, UNCHANGED <<lines, wrote, run>>, pending' \in {pending, <<>>},
         child' \in {"running", "hung"} => child \in {"running", "hung"}
  PROVE  Flow'
<1>1. Queues'
  <2>1. pending' \in Seq(Line) /\ ToSet(pending') \subseteq ToSet(pending)
    <3>1. pending \in Seq(Line) /\ <<>> \in Seq(Line) /\ ToSet(<<>>) = {}
      BY EmptySet DEF Flow, Queues
    <3>2. CASE pending' = <<>>
      BY <3>1, <3>2
    <3>3. CASE pending' = pending
      BY <3>1, <3>3
    <3> QED BY <3>2, <3>3
  <2>2. UNCHANGED <<wrote, pipe, channel, log, tail, cut, reader, run>>
    BY DEF lines
  <2>3. \A l \in ToSet(pending') : l.n = wrote[l.stream] + 1 /\ l.run = run
    BY <2>1 DEF Flow, Queues
  <2> QED BY <2>1, <2>2, <2>3 DEF Flow, Queues
<1>2. InSequence'
  BY DEF Flow, InSequence, lines
<1>3. Whole'
  BY DEF Flow, Whole, lines
<1>4. TailOfRead'
  BY DEF Flow, TailOfRead, ReadErr, lines
<1> QED BY <1>1, <1>2, <1>3, <1>4 DEF Flow

LEMMA FlowClaim ==
  ASSUME Thread, Flow, Claim
  PROVE  Flow'
<1>1. /\ channel = <<>> /\ pending = <<>> /\ \A s \in Streams : pipe[s] = <<>> /\ reader[s] # "reading"
  BY DEF Claim, Thread, Flow, Queues
<1>2. /\ run' = 0 /\ wrote' = [s \in Streams |-> 0] /\ tail' = <<>> /\ cut' = {} /\ log' = <<>>
      /\ UNCHANGED <<pending, pipe, reader, channel>> /\ child' = "none"
  BY DEF Claim
<1> USE EmptySet, Numbers
<1>3. Queues'
  BY <1>1, <1>2 DEF Flow, Queues
<1>4. InSequence'
  BY <1>1, <1>2 DEF InSequence, Before
<1>5. Whole'
  BY <1>1, <1>2 DEF Whole
<1>6. TailOfRead'
  BY <1>1, <1>2 DEF TailOfRead, ReadErr
<1> QED BY <1>3, <1>4, <1>5, <1>6 DEF Flow

LEMMA FlowSpawn ==
  ASSUME Thread, Flow, Spawn
  PROVE  Flow'
<1>1. /\ pending = <<>> /\ \A s \in Streams : pipe[s] = <<>>
  BY DEF Spawn, Thread, Flow, Queues
<1>2. /\ run' = run + 1 /\ pipe' = [s \in Streams |-> <<>>] /\ tail' = <<>>
      /\ reader' = [s \in Streams |-> "reading"] /\ UNCHANGED <<pending, wrote, cut, channel, log>>
  BY DEF Spawn
<1>3. run \in Nat
  BY Numbers DEF Thread
<1> USE EmptySet, Numbers
<1>4. Queues'
  <2>1. \A l \in ToSet(log) \cup ToSet(channel) : l.n <= wrote[l.stream] /\ l.run <= run + 1
    <3>1. \A l \in ToSet(log) \cup ToSet(channel) : l \in Line
      BY SeqSet DEF Flow, Queues
    <3> QED BY <1>3, <3>1 DEF Flow, Queues, Line
  <2> QED BY <1>1, <1>2, <2>1 DEF Flow, Queues
<1>5. InSequence'
  BY <1>1, <1>2 DEF Flow, InSequence, Before
<1>6. Whole'
  BY <1>1, <1>2 DEF Flow, Whole
<1>7. TailOfRead'
  <2>1. ReadErr' = {}
    <3>1. \A l \in ToSet(log) \cup ToSet(channel) : l \in Line /\ l.run <= run
      BY SeqSet DEF Flow, Queues
    <3> QED BY <1>2, <1>3, <3>1 DEF ReadErr, Line
  <2> QED BY <1>2, <2>1 DEF TailOfRead
<1> QED BY <1>4, <1>5, <1>6, <1>7 DEF Flow

(* Cargo writes a line, to a pipe or to nobody.                            *)
LEMMA FlowPut ==
  ASSUME Thread, Flow, NEW line \in Line, line.n = wrote[line.stream] + 1, line.run = run,
         child = "running", Put(line), pending' = <<>>,
         UNCHANGED <<run, reader, tail, cut, channel, log>>
  PROVE  Flow'
<1> DEFINE s == line.stream
<1>1. /\ s \in Streams /\ run \in Nat /\ wrote' = [wrote EXCEPT ![s] = @ + 1]
      /\ wrote' \in [Streams -> Nat] /\ wrote'[s] = wrote[s] + 1
      /\ \A r \in Streams \ {s} : wrote'[r] = wrote[r]
      /\ \A r \in Streams : wrote[r] \in Nat /\ wrote[r] <= wrote'[r]
  <2>1. s \in Streams
    BY DEF Line
  <2>2. run \in Nat
    BY Numbers DEF Thread
  <2>3. wrote \in [Streams -> Nat] /\ wrote' = [wrote EXCEPT ![s] = @ + 1]
    BY DEF Put, Flow, Queues
  <2> HIDE DEF s
  <2> QED BY <2>1, <2>2, <2>3
<1>2. \A l \in ToSet(log) \cup ToSet(channel) :
        l \in Line /\ l.n <= wrote[l.stream] /\ l.run <= run /\ l.n <= wrote'[l.stream]
  <2>1. \A l \in ToSet(log) \cup ToSet(channel) :
          l \in Line /\ l.stream \in Streams /\ l.n \in Nat /\ l.n <= wrote[l.stream] /\ l.run <= run
    BY LineFacts DEF Flow
  <2> QED BY <1>1, <2>1
<1>3. \A r \in Streams : \A l \in ToSet(pipe[r]) :
        /\ l \in Line /\ l.stream = r /\ l.run = run /\ l.n <= wrote[r] /\ l.n <= wrote'[r]
  <2>1. \A r \in Streams : \A l \in ToSet(pipe[r]) :
          l \in Line /\ l.n \in Nat /\ l.stream = r /\ l.run = run /\ l.n <= wrote[r]
    BY LineFacts DEF Flow
  <2> QED BY <1>1, <2>1
<1>4. TailOfRead'
  BY DEF Flow, TailOfRead, ReadErr
<1>5. CASE reader[s] = "reading"
  <2>1. /\ pipe' = [pipe EXCEPT ![s] = Append(@, line)] /\ UNCHANGED child
        /\ pipe \in [Streams -> Seq(Line)]
    BY <1>5 DEF Put, Flow, Queues
  <2>2. /\ Append(pipe[s], line) \in Seq(Line) /\ InTurn(Append(pipe[s], line))
        /\ ToSet(Append(pipe[s], line)) = ToSet(pipe[s]) \cup {line}
    <3>1. \A m \in ToSet(pipe[s]) : m.n < line.n
      BY <1>1, <1>3 DEF Line
    <3>2. pipe[s] \in Seq(Line) /\ InTurn(pipe[s])
      BY <1>1, <2>1 DEF Flow, InSequence
    <3> QED BY <3>1, <3>2, AppendInTurn
  <2>3. /\ pipe' \in [Streams -> Seq(Line)]
        /\ \A r \in Streams : InTurn(pipe'[r])
        /\ ToSet(pipe'[s]) = ToSet(pipe[s]) \cup {line}
        /\ \A r \in Streams \ {s} : pipe'[r] = pipe[r]
    BY <1>1, <2>1, <2>2 DEF Flow, InSequence
  <2>4. Queues'
    <3>1. \A r \in Streams : reader[r] # "reading" => pipe'[r] = <<>>
      BY <1>5, <2>3 DEF Flow, Queues
    <3>2. \A r \in Streams : \A l \in ToSet(pipe'[r]) : l.stream = r /\ l.run = run /\ l.n <= wrote'[r]
      BY <1>1, <1>3, <2>3 DEF Line
    <3>3. /\ channel' \in Seq(Line) /\ log' \in Seq(Line) /\ tail' \in Seq(Line)
          /\ pending' \in Seq(Line) /\ ToSet(pending') = {}
          /\ cut' \subseteq Streams /\ reader' \in [Streams -> {"none", "reading", "ended"}]
      BY EmptySet DEF Flow, Queues
    <3>4. \A l \in ToSet(log') \cup ToSet(channel') : l.n <= wrote'[l.stream] /\ l.run <= run'
      BY <1>2
    <3> QED BY <1>1, <2>3, <3>1, <3>2, <3>3, <3>4 DEF Queues
  <2>5. InSequence'
    <3>1. \A l \in ToSet(log) \cup ToSet(channel) : l.stream = line.stream => l.n < line.n
      BY <1>1, <1>2 DEF Line
    <3>2. \A r \in Streams : Before(log, pipe'[r]) /\ Before(channel, pipe'[r])
      BY <2>3, <3>1 DEF Flow, InSequence, Before
    <3> QED BY <2>3, <3>2 DEF Flow, InSequence
  <2>6. Whole'
    <3>1. ASSUME NEW r \in Streams \ cut, NEW n \in 1 .. wrote'[r]
          PROVE  \E l \in ToSet(log) \cup ToSet(channel) \cup ToSet(pipe'[r]) : l.stream = r /\ l.n = n
      <4>1. CASE r = s /\ n = wrote[s] + 1
        BY <2>3, <4>1
      <4>2. CASE n \in 1 .. wrote[r]
        <5>1. PICK l \in ToSet(log) \cup ToSet(channel) \cup ToSet(pipe[r]) : l.stream = r /\ l.n = n
          BY <4>2 DEF Flow, Whole
        <5>2. ToSet(pipe[r]) \subseteq ToSet(pipe'[r])
          BY <2>3
        <5> QED BY <5>1, <5>2
      <4>3. (r = s /\ n = wrote[s] + 1) \/ n \in 1 .. wrote[r]
        <5> HIDE DEF s
        <5> QED BY <1>1
      <4> QED BY <4>1, <4>2, <4>3
    <3> QED BY <2>1, <3>1 DEF Flow, Whole
  <2> QED BY <1>4, <2>4, <2>5, <2>6 DEF Flow
<1>6. CASE reader[s] # "reading"
  <2>1. UNCHANGED pipe /\ child' \in {"running", "failed"}
    BY <1>6 DEF Put
  <2>2. Queues'
    BY <1>1, <1>2, <1>3, <2>1, EmptySet DEF Flow, Queues
  <2>3. InSequence'
    BY <2>1 DEF Flow, InSequence
  <2>4. Whole'
    <3>1. s \in cut
      BY <1>1, <1>6 DEF Flow, Whole
    <3>2. \A r \in Streams \ cut : wrote'[r] = wrote[r]
      BY <1>1, <3>1
    <3> QED BY <2>1, <3>2 DEF Flow, Whole
  <2> QED BY <1>4, <2>2, <2>3, <2>4 DEF Flow
<1> QED BY <1>5, <1>6

LEMMA FlowEmit ==
  ASSUME Thread, Flow, NEW s \in Streams, Emit(s)
  PROVE  Flow'
<1>1. /\ child = "running" /\ pending = <<>> /\ run \in Nat /\ wrote[s] \in Nat
      /\ UNCHANGED <<run, reader, tail, cut, channel, log>>
  BY Numbers DEF Emit, Thread, Flow, Queues, thread
<1>2. PICK utf8 \in BOOLEAN :
        LET line == [stream |-> s, run |-> run, n |-> wrote[s] + 1, utf8 |-> utf8]
        IN IF Full(s) THEN pending' = <<line>> /\ UNCHANGED <<wrote, pipe, child>>
           ELSE Put(line) /\ UNCHANGED pending
  BY DEF Emit
<1> DEFINE line == [stream |-> s, run |-> run, n |-> wrote[s] + 1, utf8 |-> utf8]
<1>3. line \in Line /\ line.stream = s /\ line.n = wrote[s] + 1 /\ line.run = run
  BY <1>1 DEF Line
<1>4. \/ pending' = <<line>> /\ UNCHANGED <<wrote, pipe, child>>
      \/ Put(line) /\ pending' = <<>>
  BY <1>1, <1>2
<1> HIDE DEF line
<1>5. CASE Put(line) /\ pending' = <<>>
  BY <1>1, <1>3, <1>5, FlowPut
<1>6. CASE pending' = <<line>> /\ UNCHANGED <<wrote, pipe, child>>
  <2>1. <<line>> \in Seq(Line) /\ ToSet(<<line>>) = {line}
    BY <1>3 DEF ToSet
  <2>2. Queues'
    BY <1>1, <1>3, <1>6, <2>1 DEF Flow, Queues
  <2>3. InSequence' /\ Whole' /\ TailOfRead'
    BY <1>1, <1>6 DEF Flow, InSequence, Whole, TailOfRead, ReadErr
  <2> QED BY <2>2, <2>3 DEF Flow
<1> QED BY <1>4, <1>5, <1>6

LEMMA FlowUnblock ==
  ASSUME Thread, Flow, Unblock
  PROVE  Flow'
<1>1. /\ pending # <<>> /\ pending \in Seq(Line) /\ child = "running" /\ pending' = <<>>
      /\ UNCHANGED <<run, reader, tail, cut, channel, log>> /\ Put(pending[1])
  BY DEF Unblock, Thread, Flow, Queues, thread
<1>2. pending[1] \in ToSet(pending) /\ pending[1] \in Line
  BY <1>1, SeqSet
<1>3. pending[1].n = wrote[pending[1].stream] + 1 /\ pending[1].run = run
  BY <1>2 DEF Flow, Queues
<1> QED BY <1>1, <1>2, <1>3, FlowPut

(* A reader takes a line that is not UTF-8 and gives up ...                *)
LEMMA FlowCut ==
  ASSUME Flow, NEW s \in Streams, Read(s), ~Head(pipe[s]).utf8
  PROVE  Flow'
<1>1. /\ reader' = [reader EXCEPT ![s] = "ended"] /\ pipe' = [pipe EXCEPT ![s] = <<>>]
      /\ cut' = cut \cup {s} /\ UNCHANGED <<tail, channel, log, run, wrote, pending, child>>
  BY DEF Read, thread, process
<1>2. pipe \in [Streams -> Seq(Line)] /\ reader \in [Streams -> {"none", "reading", "ended"}]
  BY DEF Flow, Queues
<1>3. /\ pipe' \in [Streams -> Seq(Line)] /\ pipe'[s] = <<>> /\ reader'[s] = "ended"
      /\ \A r \in Streams \ {s} : pipe'[r] = pipe[r] /\ reader'[r] = reader[r]
      /\ reader' \in [Streams -> {"none", "reading", "ended"}]
  BY <1>1, <1>2
<1>4. Queues'
  <2>1. \A r \in Streams : reader'[r] # "reading" => pipe'[r] = <<>>
    BY <1>3 DEF Flow, Queues
  <2>2. \A r \in Streams : \A l \in ToSet(pipe'[r]) : l.stream = r /\ l.run = run /\ l.n <= wrote[r]
    BY <1>3, EmptySet DEF Flow, Queues
  <2> QED BY <1>1, <1>3, <2>1, <2>2 DEF Flow, Queues
<1>5. InSequence'
  BY <1>1, <1>3, EmptySet DEF Flow, InSequence, Before
<1>6. Whole'
  BY <1>1, <1>3 DEF Flow, Whole
<1>7. TailOfRead'
  BY <1>1 DEF Flow, TailOfRead, ReadErr
<1> QED BY <1>4, <1>5, <1>6, <1>7 DEF Flow

LEMMA FlowEndOfFile ==
  ASSUME Flow, NEW s \in Streams, EndOfFile(s)
  PROVE  Flow'
<1>1. /\ reader' = [reader EXCEPT ![s] = "ended"] /\ pipe[s] = <<>>
      /\ child \in {"ok", "failed", "killed"}
      /\ UNCHANGED <<pipe, cut, tail, channel, log, run, wrote, pending, child>>
  BY DEF EndOfFile, Exited, thread, process
<1>2. reader \in [Streams -> {"none", "reading", "ended"}]
  BY DEF Flow, Queues
<1>3. /\ reader' \in [Streams -> {"none", "reading", "ended"}]
      /\ \A r \in Streams \ {s} : reader'[r] = reader[r]
  BY <1>1, <1>2
<1>4. Queues'
  <2>1. \A r \in Streams : reader'[r] # "reading" => pipe[r] = <<>>
    BY <1>1, <1>3 DEF Flow, Queues
  <2> QED BY <1>1, <1>3, <2>1 DEF Flow, Queues
<1>5. Whole'
  BY <1>1 DEF Flow, Whole
<1>6. InSequence' /\ TailOfRead'
  BY <1>1 DEF Flow, InSequence, TailOfRead, ReadErr
<1> QED BY <1>4, <1>5, <1>6 DEF Flow

LEMMA FlowForward ==
  ASSUME Flow, Forward
  PROVE  Flow'
<1> DEFINE h == Head(channel)
           t == Tail(channel)
<1>1. /\ channel # <<>> /\ log' = Append(log, h) /\ channel' = t
      /\ UNCHANGED <<run, wrote, pending, child, pipe, reader, tail, cut>>
  BY DEF Forward, thread, process
<1>2. /\ log \in Seq(Line) /\ channel \in Seq(Line) /\ InTurn(log) /\ InTurn(channel)
      /\ Before(log, channel)
  BY DEF Flow, Queues, InSequence
<1>3. /\ t \in Seq(Line) /\ h \in Line /\ InTurn(t) /\ ToSet(channel) = {h} \cup ToSet(t)
      /\ \A m \in ToSet(t) : m.stream = h.stream => h.n < m.n
  BY <1>1, <1>2, TailInTurn
<1> HIDE DEF h, t
<1>4. /\ log' \in Seq(Line) /\ InTurn(log') /\ ToSet(log') = ToSet(log) \cup {h}
  BY <1>1, <1>2, <1>3, AppendInTurn DEF Before
<1>5. ToSet(log') \cup ToSet(channel') = ToSet(log) \cup ToSet(channel)
  BY <1>1, <1>3, <1>4
<1>6. Queues'
  BY <1>1, <1>3, <1>4, <1>5 DEF Flow, Queues
<1>7. InSequence'
  <2>1. Before(log', channel')
    BY <1>1, <1>2, <1>3, <1>4 DEF Before
  <2>2. \A r \in Streams : Before(log', pipe[r]) /\ Before(channel', pipe[r])
    BY <1>1, <1>3, <1>4 DEF Before, Flow, InSequence
  <2> QED BY <1>1, <1>3, <1>4, <2>1, <2>2 DEF Flow, InSequence
<1>8. Whole'
  BY <1>1, <1>5 DEF Flow, Whole
<1>9. TailOfRead'
  BY <1>1, <1>5 DEF Flow, TailOfRead, ReadErr
<1> QED BY <1>6, <1>7, <1>8, <1>9 DEF Flow

(* One more line read of cargo's stderr: the tail is still the end of what *)
(* was read.                                                               *)
LEMMA TailGrows ==
  ASSUME NEW R \in SUBSET Line, NEW u \in Seq(Line), NEW line \in Line,
         ToSet(u) \subseteq R, InTurn(u), Len(u) <= TailCap,
         ToSet(u) = R \/ Len(u) = TailCap,
         \A l \in R \ ToSet(u), m \in ToSet(u) : l.n < m.n,
         \A l \in R : l.stream = line.stream /\ l.n < line.n
  PROVE  LET v == LastOf(Append(u, line), TailCap)
         IN /\ v \in Seq(Line) /\ ToSet(v) \subseteq R \cup {line} /\ InTurn(v) /\ Len(v) <= TailCap
            /\ ToSet(v) = R \cup {line} \/ Len(v) = TailCap
            /\ \A l \in (R \cup {line}) \ ToSet(v), m \in ToSet(v) : l.n < m.n
<1> DEFINE w == Append(u, line)
<1>1. /\ w \in Seq(Line) /\ InTurn(w) /\ ToSet(w) = ToSet(u) \cup {line}
      /\ Len(w) = Len(u) + 1 /\ Len(u) \in Nat /\ TailCap \in Nat \ {0}
  <2>1. \A m \in ToSet(u) : m.stream = line.stream => m.n < line.n
    OBVIOUS
  <2>2. Len(w) = Len(u) + 1 /\ Len(u) \in Nat
    OBVIOUS
  <2> QED BY <2>1, <2>2, AppendInTurn, Numbers
<1>2. CASE Len(u) < TailCap
  <2>1. LastOf(w, TailCap) = w
    BY <1>2, Numbers, LastOfAppend
  <2>2. ToSet(u) = R
    BY <1>1, <1>2
  <2> QED BY <1>1, <1>2, <2>1, <2>2
<1>3. CASE Len(u) = TailCap
  <2> DEFINE h == Head(w)
             v == Tail(w)
  <2>1. LastOf(w, TailCap) = v
    BY <1>3, Numbers, LastOfAppend
  <2> HIDE DEF w
  <2>2. w # <<>>
    BY <1>1
  <2>3. /\ v \in Seq(Line) /\ InTurn(v) /\ Len(v) = Len(w) - 1 /\ ToSet(w) = {h} \cup ToSet(v)
        /\ \A m \in ToSet(v) : m.stream = h.stream => h.n < m.n
    BY <1>1, <2>2, TailInTurn
  <2> HIDE DEF h, v
  <2>4. Len(v) = TailCap
    BY <1>1, <1>3, <2>3
  <2>5. \A l \in R \cup {line} : l.stream = line.stream
    OBVIOUS
  <2>6. h \in R \cup {line} /\ ToSet(v) \subseteq R \cup {line}
    BY <1>1, <2>3
  <2>7. ASSUME NEW l \in (R \cup {line}) \ ToSet(v), NEW m \in ToSet(v)
        PROVE  l.n < m.n
    <3>1. CASE l = h
      BY <2>3, <2>5, <2>6, <3>1
    <3>2. CASE l # h
      <4>1. l \notin ToSet(w) /\ l \in R
        BY <1>1, <2>3, <3>2
      <4>2. m \in ToSet(u) \/ m = line
        BY <1>1, <2>3
      <4> QED BY <1>1, <4>1, <4>2
    <3> QED BY <3>1, <3>2
  <2> QED BY <2>1, <2>3, <2>4, <2>6, <2>7 DEF w
<1> QED BY <1>1, <1>2, <1>3

(* ... or one that is, which goes to the channel and, of stderr, the tail. *)
LEMMA FlowRead ==
  ASSUME Flow, run \in Nat, NEW s \in Streams, Read(s), Head(pipe[s]).utf8
  PROVE  Flow'
<1> DEFINE h == Head(pipe[s])
           t == Tail(pipe[s])
<1>1. /\ pipe[s] # <<>> /\ reader[s] = "reading"
      /\ pipe' = [pipe EXCEPT ![s] = t] /\ channel' = Append(channel, h)
      /\ tail' = IF s = "stderr" THEN LastOf(Append(tail, h), TailCap) ELSE tail
      /\ UNCHANGED <<log, run, wrote, pending, child, reader, cut>>
  BY DEF Read, Reading, thread, process
<1>2. /\ pipe \in [Streams -> Seq(Line)] /\ log \in Seq(Line) /\ channel \in Seq(Line)
      /\ tail \in Seq(Line) /\ InTurn(channel) /\ InTurn(pipe[s])
      /\ Before(log, channel) /\ Before(log, pipe[s]) /\ Before(channel, pipe[s])
  BY DEF Flow, Queues, InSequence
<1>3. /\ t \in Seq(Line) /\ h \in Line /\ InTurn(t) /\ ToSet(pipe[s]) = {h} \cup ToSet(t)
      /\ \A m \in ToSet(t) : m.stream = h.stream => h.n < m.n
  <2>1. pipe[s] \in Seq(Line)
    BY <1>2
  <2> QED BY <1>1, <1>2, <2>1, TailInTurn
<1> HIDE DEF h, t
<1>4. /\ h.stream = s /\ h.run = run /\ h.n <= wrote[s] /\ h.n \in Nat
      /\ \A l \in ToSet(t) : l.stream = s
  BY <1>3, LineFacts DEF Flow
<1>5. /\ channel' \in Seq(Line) /\ InTurn(channel') /\ ToSet(channel') = ToSet(channel) \cup {h}
  BY <1>1, <1>2, <1>3, AppendInTurn DEF Before
<1>6. /\ pipe' \in [Streams -> Seq(Line)] /\ pipe'[s] = t
      /\ \A r \in Streams \ {s} : pipe'[r] = pipe[r]
  BY <1>1, <1>2, <1>3
<1>7. tail' \in Seq(Line) /\ TailOfRead'
  <2>1. TailOfRead /\ ReadErr \in SUBSET Line
    BY LineFacts DEF Flow, ReadErr
  <2>2. CASE s # "stderr"
    <3>1. ReadErr' = ReadErr /\ tail' = tail
      BY <1>1, <1>4, <1>5, <2>2 DEF ReadErr
    <3> QED BY <1>2, <2>1, <3>1 DEF TailOfRead
  <2>3. CASE s = "stderr"
    <3>1. ReadErr' = ReadErr \cup {h}
      BY <1>1, <1>4, <1>5, <2>3 DEF ReadErr
    <3>2. \A l \in ReadErr : l.stream = h.stream /\ l.n < h.n
      BY <1>2, <1>3, <1>4, <2>3 DEF ReadErr, Before
    <3>3. tail' = LastOf(Append(tail, h), TailCap)
      BY <1>1, <2>3
    <3> HIDE DEF ReadErr
    <3> DEFINE v == LastOf(Append(tail, h), TailCap)
    <3>4. /\ v \in Seq(Line) /\ ToSet(v) \subseteq ReadErr \cup {h} /\ InTurn(v) /\ Len(v) <= TailCap
          /\ ToSet(v) = ReadErr \cup {h} \/ Len(v) = TailCap
          /\ \A l \in (ReadErr \cup {h}) \ ToSet(v), m \in ToSet(v) : l.n < m.n
      <4>1. /\ ToSet(tail) \subseteq ReadErr /\ InTurn(tail) /\ Len(tail) <= TailCap
            /\ ToSet(tail) = ReadErr \/ Len(tail) = TailCap
            /\ \A l \in ReadErr \ ToSet(tail), m \in ToSet(tail) : l.n < m.n
        BY <2>1 DEF TailOfRead
      <4> QED BY <1>2, <1>3, <2>1, <3>2, <4>1, TailGrows
    <3> HIDE DEF v
    <3>5. tail' = v
      BY <3>3 DEF v
    <3> QED BY <3>1, <3>4, <3>5 DEF TailOfRead
  <2> QED BY <2>2, <2>3
<1>8. Queues'
  <2>1. \A l \in ToSet(log') \cup ToSet(channel') : l.n <= wrote'[l.stream] /\ l.run <= run'
    BY <1>1, <1>4, <1>5, LineFacts DEF Flow
  <2>2. \A r \in Streams : \A l \in ToSet(pipe'[r]) : l.stream = r /\ l.run = run' /\ l.n <= wrote'[r]
    BY <1>1, <1>3, <1>6, LineFacts DEF Flow
  <2>3. \A r \in Streams : reader'[r] # "reading" => pipe'[r] = <<>>
    BY <1>1, <1>6 DEF Flow, Queues
  <2> QED BY <1>1, <1>5, <1>6, <1>7, <2>1, <2>2, <2>3 DEF Flow, Queues
<1>9. InSequence'
  <2>1. Before(log', channel')
    BY <1>1, <1>2, <1>3, <1>5 DEF Before
  <2>2. \A r \in Streams : InTurn(pipe'[r]) /\ Before(log', pipe'[r])
    BY <1>1, <1>3, <1>6 DEF Flow, InSequence, Before
  <2>3. Before(channel', pipe'[s])
    BY <1>2, <1>3, <1>5, <1>6 DEF Before
  <2>4. ASSUME NEW r \in Streams \ {s}
        PROVE  Before(channel', pipe'[r])
    <3>1. \A l \in ToSet(pipe[r]) : l.stream = r
      BY LineFacts DEF Flow
    <3> QED BY <1>4, <1>5, <1>6, <3>1 DEF Before, Flow, InSequence
  <2> QED BY <1>1, <1>5, <2>1, <2>2, <2>3, <2>4 DEF Flow, InSequence
<1>10. Whole'
  <2>1. \A r \in Streams :
          ToSet(log) \cup ToSet(channel) \cup ToSet(pipe[r])
            \subseteq ToSet(log') \cup ToSet(channel') \cup ToSet(pipe'[r])
    BY <1>1, <1>3, <1>5, <1>6
  <2>2. ASSUME NEW r \in Streams \ cut, NEW n \in 1 .. wrote[r]
        PROVE  \E l \in ToSet(log') \cup ToSet(channel') \cup ToSet(pipe'[r]) : l.stream = r /\ l.n = n
    BY <2>1 DEF Flow, Whole
  <2> QED BY <1>1, <2>2 DEF Flow, Whole
<1> QED BY <1>7, <1>8, <1>9, <1>10 DEF Flow

LEMMA FlowStep ==
  ASSUME Thread, Flow, Next
  PROVE  Flow'
<1>1. ASSUME NEW s \in Streams, Reader(s)
      PROVE  Flow'
  BY <1>1, Numbers, FlowCut, FlowRead, FlowEndOfFile DEF Reader, Thread
<1>2. ASSUME CacheHit \/ CacheMiss \/ UnpackFails \/ Unpack \/ SpawnFails \/ Poll \/ ReceiveTimesOut
               \/ Kill \/ AfterCargo \/ DiscoverElf \/ JoinForwarder \/ BuildErr \/ BuildCancelled
               \/ Store \/ CopyFails
      PROVE  Flow'
  <2>1. /\ UNCHANGED <<lines, wrote, run>> /\ pending' \in {pending, <<>>}
        /\ child' \in {"running", "hung"} => child \in {"running", "hung"}
    BY <1>2 DEF CacheHit, CacheMiss, UnpackFails, Unpack, SpawnFails, Poll, ReceiveTimesOut, Kill,
         AfterCargo, DiscoverElf, JoinForwarder, BuildErr, BuildCancelled, Store, CopyFails,
         End, Return, Exited, process
  <2> QED BY <2>1, FlowFrame
<1>3. ASSUME Link \/ Exit \/ Hang \/ Cancel \/ HelperEnds
      PROVE  Flow'
  <2>1. /\ UNCHANGED <<lines, wrote, run>> /\ pending' \in {pending, <<>>}
        /\ child' \in {"running", "hung"} => child \in {"running", "hung"}
    BY <1>3 DEF Link, Exit, Hang, Cancel, HelperEnds, thread, process
  <2> QED BY <2>1, FlowFrame
<1> QED
  BY <1>1, <1>2, <1>3, FlowClaim, FlowSpawn, FlowEmit, FlowUnblock, FlowForward
     DEF Next, BuildThread, Cargo

-----------------------------------------------------------------------------
(* The theorems.                                                           *)

LEMMA BuildInit ==
  ASSUME Init
  PROVE  BuildInv
<1> USE EmptySet, Numbers
<1>1. Thread
  BY DEF Init, Thread, Ats
<1>2. Disk
  <2>1. files \in [Tars -> Tars \cup {0}] /\ target \in [Names -> Tars \cup {0}]
    BY DEF Init
  <2>2. \A n \in Names : target[n] = 0
    BY DEF Init
  <2> QED BY <2>1, <2>2 DEF Init, Disk
<1>3. Queues
  BY DEF Init, Queues
<1>4. InSequence /\ Whole /\ TailOfRead
  BY DEF Init, InSequence, Before, Whole, TailOfRead, ReadErr
<1> QED BY <1>1, <1>2, <1>3, <1>4 DEF BuildInv, Flow

LEMMA BuildStep ==
  ASSUME BuildInv, [Next]_vars
  PROVE  BuildInv'
<1>1. CASE Next
  <2>1. Thread'
    BY <1>1, ThreadBefore, ThreadWaits, ThreadAfter, ThreadOthers DEF BuildInv, Flow, Next, BuildThread
  <2>2. Disk'
    BY <1>1, DiskThread, DiskOthers DEF BuildInv, Next
  <2>3. Flow'
    BY <1>1, FlowStep DEF BuildInv
  <2> QED BY <2>1, <2>2, <2>3 DEF BuildInv
<1>2. CASE UNCHANGED vars
  <2>1. Thread'
    BY <1>2 DEF BuildInv, Thread, vars, slot, thread, process, lines, disk
  <2>2. Disk'
    BY <1>2, DiskFrame DEF BuildInv, Disk, vars, slot, thread, process, lines, disk
  <2>3. Flow'
    BY <1>2, FlowFrame DEF BuildInv, vars, thread, process
  <2> QED BY <2>1, <2>2, <2>3 DEF BuildInv
<1> QED BY <1>1, <1>2

(* The inductive invariant of a build slot: where its thread, cargo, the   *)
(* readers and the forwarder can be, what lies in its target directory,    *)
(* and where every line cargo wrote is on its way to the log.              *)
THEOREM BuildInvariance == Spec => []BuildInv
<1>1. Init => BuildInv
  BY BuildInit
<1>2. BuildInv /\ [Next]_vars => BuildInv'
  BY BuildStep
<1> QED BY <1>1, <1>2, PTL DEF Spec

(* Every variable has its type, no more runs of cargo are started than the *)
(* updates and the build, and between two jobs no line is on its way and   *)
(* cargo runs for none (build_inner joins its threads before it returns).  *)
THEOREM BuildTypes == Spec => []TypeOK
<1>1. BuildInv => TypeOK
  BY DEF BuildInv, Thread, Disk, TypeOK
<1> QED BY <1>1, BuildInvariance, PTL

(* The log of a build that is over is complete and in order, and the tail  *)
(* its outcome carries is the end of it, for any number of lines, however  *)
(* the readers, the forwarder, cargo and a kill interleave.                *)
THEOREM LogsTellBuilds == Spec => []LogTellsBuild
<1>1. ASSUME BuildInv
      PROVE  LogTellsBuild
  <2> SUFFICES ASSUME at = "idle"
               PROVE  /\ InTurn(log) /\ \A s \in Streams \ cut : Logged(s) = 1 .. wrote[s]
                      /\ ToSet(tail) \subseteq Reported /\ InTurn(tail)
                      /\ ToSet(tail) = Reported \/ Len(tail) = TailCap
                      /\ \A l \in Reported \ ToSet(tail), m \in ToSet(tail) : l.n < m.n
    BY DEF LogTellsBuild
  <2>1. Thread /\ Flow /\ Queues /\ InSequence /\ Whole /\ TailOfRead
    BY <1>1 DEF BuildInv, Flow
  <2>2. channel = <<>> /\ \A s \in Streams : pipe[s] = <<>>
    BY <2>1 DEF Thread, Queues
  <2>3. ToSet(channel) = {} /\ \A s \in Streams : ToSet(pipe[s]) = {}
    BY <2>2, EmptySet
  <2>4. ReadErr = Reported
    BY <2>3 DEF ReadErr, Reported
  <2>5. ASSUME NEW s \in Streams \ cut
        PROVE  Logged(s) = 1 .. wrote[s]
    <3>1. \A l \in ToSet(log) : l \in Line /\ l.n <= wrote[l.stream]
      BY <2>1, LineFacts
    <3>2. wrote[s] \in Nat
      BY <2>1 DEF Queues
    <3>3. ASSUME NEW l \in ToSet(log), l.stream = s
          PROVE  l.n \in 1 .. wrote[s]
      BY <3>1, <3>2, <3>3 DEF Line
    <3>4. ASSUME NEW n \in 1 .. wrote[s]
          PROVE  \E l \in ToSet(log) : l.stream = s /\ l.n = n
      BY <2>1, <2>3 DEF Whole
    <3> QED BY <3>3, <3>4 DEF Logged
  <2> QED BY <2>1, <2>4, <2>5 DEF InSequence, TailOfRead
<1> QED BY <1>1, BuildInvariance, PTL

(* While no crate's ELF falls behind another's in the order try_pick_elf   *)
(* keeps the last of (the versions of one crate, for one), the artifact of *)
(* every job that went on to a board was built from that job's tar,        *)
(* whatever the slot built, failed to build or stopped building before.    *)
THEOREM ElfsAreOfTheirTar ==
  ASSUME InOrder
  PROVE  Spec => []ElfIsOfItsTar
<1>1. Init => OwnElf
  BY Numbers DEF Init, OwnElf
<1>2. BuildInv /\ OwnElf /\ [Next]_vars => OwnElf'
  <2>1. ASSUME BuildInv, OwnElf, Next
        PROVE  OwnElf'
    BY <2>1, OwnElfStep DEF BuildInv
  <2>2. ASSUME OwnElf, UNCHANGED vars
        PROVE  OwnElf'
    BY <2>2, OwnElfFrame DEF vars, slot, thread, disk
  <2> QED BY <2>1, <2>2
<1>3. OwnElf => ElfIsOfItsTar
  BY DEF OwnElf, ElfIsOfItsTar
<1> QED BY <1>1, <1>2, <1>3, BuildInvariance, PTL DEF Spec
===============================================================================
