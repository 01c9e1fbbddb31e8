---------------------------- MODULE LogStreamProofs ----------------------------
(***************************************************************************)
(* What the log of a job promises the pages that show it, for any number   *)
(* of viewers, frames and broken connections, any size of the batch, the   *)
(* channel and the seed, with or without failing writes and reads, and     *)
(* with a purge at any time the code allows one.  LInv is the inductive    *)
(* invariant: it follows a frame through the sink, the queues of the       *)
(* broker and the lines of the pages.                                      *)
(***************************************************************************)
EXTENDS LogStream, WellFoundedInduction, TLAPS

-----------------------------------------------------------------------------
(* The invariant.                                                          *)

Ascending(s) == \A m, n \in 1 .. Len(s) : m < n => s[m][2] < s[n][2]

(* Where the job is tells what its row can be, whether a batch is open and *)
(* which frames there can be.                                              *)
JobKnown ==
  /\ row = "open" => job \in {"submitted", "building", "awaiting_board", "running"}
  /\ row = "over" => job \in {"publish", "close", "done", "cancelled"}
  /\ row = "gone" => /\ job \in {"submitted", "publish", "close", "done", "cancelled"}
                    /\ stored = <<>>
  /\ batch # <<>> => job \in {"building", "running"}
  /\ job = "submitted" => emitted = {}
  /\ job \in {"building", "awaiting_board"} => \A f \in emitted : f[1] = "build"

(* What is written and what is to be written next ascends, and the counter *)
(* is ahead of it.                                                         *)
SinkInOrder ==
  /\ ToSet(stored) \cup ToSet(batch) \subseteq emitted
  /\ Ascending(stored) /\ Ascending(batch)
  /\ \A f \in ToSet(stored), g \in ToSet(batch) : f[2] < g[2]
  /\ job \in {"building", "running"} =>
       \A f \in ToSet(stored) \cup ToSet(batch) : f[2] < nextSeq

(* While every batch is written, that is all there is until it is purged,  *)
(* the build first.                                                        *)
AllWritten ==
  ~unwritten =>
    /\ row # "gone" => emitted \subseteq ToSet(stored) \cup ToSet(batch)
    /\ \A f, g \in emitted : f[1] = "build" /\ g[1] = "run" => f[2] < g[2]

(* A page shows frames of the job, and its since_seq is behind them.       *)
Lines(v) ==
  /\ ToSet(seen[v]) \subseteq emitted
  /\ Ascending(seen[v])
  /\ cut[v] <= LastSeq(seen[v])

(* A receiver holds frames in order, and the end after them.               *)
Queued(v) ==
  /\ ToSet(queue[v]) \subseteq emitted \cup {Terminal}
  /\ \A m \in 1 .. Len(queue[v]) :
       queue[v][m] = Terminal => m = Len(queue[v]) /\ job \in {"close", "done"}
  /\ ~unwritten => \A m, n \in 1 .. Len(queue[v]) :
       m < n /\ queue[v][n] # Terminal => queue[v][m][2] < queue[v][n][2]

(* Only the end of the job, a purge or a failed second look at the row     *)
(* detaches a receiver under its connection.                               *)
Connected(v) ==
  /\ conn[v] \in {"recheck", "history", "live"} =>
       v \in attached \/ row # "open" \/ "recheck" \in faults
  /\ conn[v] = "abandon" => row = "gone" \/ "recheck" \in faults
  /\ conn[v] \in {"drop", "replay"} => row # "open"
  /\ told[v] = "terminal" => row # "open" /\ conn[v] = "closed"

(* While every batch is written: the page lacks nothing before its last    *)
(* line, has or will have the rest once it is live, and lacks nothing that *)
(* is purged before a replay.                                              *)
NoGap(v) ==
  ~unwritten =>
    /\ \A f \in emitted : f[2] <= LastSeq(seen[v]) => f \in ToSet(seen[v]) \cup lost[v]
    /\ conn[v] = "live" => emitted \subseteq ToSet(seen[v]) \cup lost[v] \cup ToSet(queue[v])
    /\ row = "gone" /\ conn[v] \in {"drop", "replay"} =>
         emitted \subseteq ToSet(seen[v]) \cup lost[v]

(* NothingElseIsLost and NeverCutShort, of one page.                       *)
Complete(v) ==
  ~unwritten /\ told[v] = "terminal" => emitted \subseteq ToSet(seen[v]) \cup lost[v]

NotCut(v) == told[v] = "ended" => row = "gone" \/ faults \cap {"recheck", "end"} # {}

Page(v) == Lines(v) /\ Queued(v) /\ Connected(v) /\ NoGap(v) /\ Complete(v) /\ NotCut(v)

LInv ==
  /\ TypeOK
  /\ JobKnown /\ SinkInOrder /\ AllWritten /\ SeqsAreUnique
  /\ \A v \in Viewers : Page(v)
  /\ ChannelReclaimed

-----------------------------------------------------------------------------
(* Induction over the numbers, by their least elements.                    *)

(* Every nonempty set of numbers has a least.                              *)
LEMMA Least ==
  ASSUME NEW T \in SUBSET Nat, T # {}
  PROVE  \E n \in T : \A m \in T : n <= m
<1>1. IsWellFoundedOn(OpToRel(<, Nat), Nat)
  BY NatLessThanWellFounded
<1>2. PICK n \in T : \A m \in T : ~(<<m, n>> \in OpToRel(<, Nat))
  BY <1>1, WFMin
<1>3. \A m \in T : ~(m < n)
  BY <1>2 DEF OpToRel
<1> QED BY <1>3

(* A set of numbers that has 0 and every successor has them all.           *)
LEMMA Induction ==
  ASSUME NEW S, 0 \in S, \A n \in Nat : n \in S => n + 1 \in S
  PROVE  Nat \subseteq S
<1> DEFINE T == {n \in Nat : n \notin S}
<1> SUFFICES ASSUME T # {} PROVE FALSE OBVIOUS
<1>1. PICK n \in T : \A m \in T : n <= m BY Least
<1>2. n # 0 OBVIOUS
<1>3. n - 1 \in Nat /\ n - 1 \notin T BY <1>1, <1>2
<1> QED BY <1>1, <1>2, <1>3

(* The body of the recursion of Shown, and that Shown is what it defines.  *)
ShowNext(v, lines, frames, show, n) ==
  IF n = 0 THEN lines
  ELSE LET f == frames[n]
       IN IF f[2] > cut[v] /\ f[2] > LastSeq(show[n - 1])
          THEN Append(show[n - 1], f) ELSE show[n - 1]

ShowsUpto(v, lines, frames, show, k) ==
  show = [n \in 0 .. k |-> ShowNext(v, lines, frames, show, n)]

LEMMA ShownRecurses ==
  ASSUME NEW v, NEW lines, NEW frames, Len(frames) \in Nat
  PROVE  \E show : /\ ShowsUpto(v, lines, frames, show, Len(frames))
                   /\ Shown(v, lines, frames) = show[Len(frames)]
<1> DEFINE Upto(k) == \E show : show = [n \in 0 .. k |-> ShowNext(v, lines, frames, show, n)]
           S == {k \in Nat : Upto(k)}
<1>1. 0 \in S
  <2> DEFINE g == [n \in 0 .. 0 |-> lines]
  <2>1. g = [n \in 0 .. 0 |-> ShowNext(v, lines, frames, g, n)]
    BY DEF ShowNext
  <2> QED BY <2>1
<1>2. ASSUME NEW k \in Nat, k \in S
      PROVE  k + 1 \in S
  <2>1. PICK g : g = [n \in 0 .. k |-> ShowNext(v, lines, frames, g, n)]
    BY <1>2
  <2> DEFINE h == [n \in 0 .. k + 1 |-> IF n <= k THEN g[n] ELSE ShowNext(v, lines, frames, g, n)]
  <2>2. \A n \in 0 .. k + 1 : n # 0 => n - 1 \in 0 .. k /\ h[n - 1] = g[n - 1]
    OBVIOUS
  <2>3. \A n \in 0 .. k + 1 : ShowNext(v, lines, frames, h, n) = ShowNext(v, lines, frames, g, n)
    BY <2>2 DEF ShowNext
  <2>4. \A n \in 0 .. k + 1 : h[n] = ShowNext(v, lines, frames, g, n)
    BY <2>1
  <2>5. h = [n \in 0 .. k + 1 |-> ShowNext(v, lines, frames, h, n)]
    BY <2>3, <2>4
  <2> HIDE DEF h
  <2> QED BY <2>5
<1>3. Nat \subseteq S
  <2> HIDE DEF S
  <2> QED BY <1>1, <1>2, Induction
<1>4. Upto(Len(frames))
  BY <1>3
<1> QED
  BY <1>4 DEF Shown, ShowNext, ShowsUpto

-----------------------------------------------------------------------------
(* Sequences and the sets of their elements.                               *)

LEMMA SeqSet ==
  ASSUME NEW S, NEW s \in Seq(S)
  PROVE  /\ ToSet(s) = {s[i] : i \in 1 .. Len(s)}
         /\ ToSet(s) \subseteq S
         /\ \A i \in 1 .. Len(s) : s[i] \in ToSet(s)
         /\ \A x \in ToSet(s) : \E i \in 1 .. Len(s) : x = s[i]
BY DEF ToSet

LEMMA EmptySet ==
  ToSet(<<>>) = {} /\ Ascending(<<>>) /\ LastSeq(<<>>) = -1
BY DEF ToSet, Ascending, LastSeq

LEMMA AppendSet ==
  ASSUME NEW S, NEW s \in Seq(S), NEW e \in S
  PROVE  ToSet(Append(s, e)) = ToSet(s) \cup {e}
<1> DEFINE t == Append(s, e)
<1>1. /\ t \in Seq(S) /\ Len(t) = Len(s) + 1 /\ Len(s) \in Nat
      /\ \A i \in 1 .. Len(s) : t[i] = s[i]
      /\ t[Len(s) + 1] = e
  OBVIOUS
<1> HIDE DEF t
<1>2. \A x : x \in ToSet(t) <=> \E i \in 1 .. Len(s) + 1 : x = t[i]
  BY <1>1, SeqSet
<1>3. \A x : x \in ToSet(s) <=> \E i \in 1 .. Len(s) : x = s[i]
  BY SeqSet
<1>4. ToSet(t) = ToSet(s) \cup {e}
  BY <1>1, <1>2, <1>3
<1> QED BY <1>4 DEF t

LEMMA TailSet ==
  ASSUME NEW S, NEW s \in Seq(S), s # <<>>
  PROVE  /\ Tail(s) \in Seq(S) /\ Len(Tail(s)) = Len(s) - 1 /\ Len(s) \in Nat \ {0}
         /\ \A i \in 1 .. Len(s) - 1 : Tail(s)[i] = s[i + 1]
         /\ Head(s) = s[1] /\ Head(s) \in S /\ Head(s) \in ToSet(s)
         /\ ToSet(s) = {Head(s)} \cup ToSet(Tail(s))
<1> DEFINE t == Tail(s)
<1>1. /\ t \in Seq(S) /\ Len(t) = Len(s) - 1 /\ Len(s) \in Nat \ {0}
      /\ \A i \in 1 .. Len(s) - 1 : t[i] = s[i + 1]
      /\ Head(s) = s[1] /\ Head(s) \in S
  OBVIOUS
<1> HIDE DEF t
<1>2. /\ \A i \in 1 .. Len(t) : t[i] \in ToSet(t)
      /\ \A x \in ToSet(t) : \E i \in 1 .. Len(t) : x = t[i]
  BY <1>1, SeqSet
<1>3. /\ \A i \in 1 .. Len(s) : s[i] \in ToSet(s)
      /\ \A x \in ToSet(s) : \E i \in 1 .. Len(s) : x = s[i]
  BY SeqSet
<1>4. Head(s) \in ToSet(s)
  BY <1>1, <1>3
<1>5. ASSUME NEW x \in ToSet(s)
      PROVE  x = Head(s) \/ x \in ToSet(t)
  <2>1. PICK i \in 1 .. Len(s) : x = s[i]
    BY <1>3
  <2>2. CASE i = 1
    BY <1>1, <2>1, <2>2
  <2>3. CASE i # 1
    <3>1. i - 1 \in 1 .. Len(t) /\ i - 1 \in 1 .. Len(s) - 1 /\ (i - 1) + 1 = i
      BY <1>1, <2>3
    <3>2. t[i - 1] = x
      BY <1>1, <2>1, <3>1
    <3> QED BY <1>2, <3>1, <3>2
  <2> QED BY <2>2, <2>3
<1>6. ASSUME NEW x \in ToSet(t)
      PROVE  x \in ToSet(s)
  <2>1. PICK i \in 1 .. Len(t) : x = t[i]
    BY <1>2
  <2>2. i \in 1 .. Len(s) - 1 /\ i + 1 \in 1 .. Len(s)
    BY <1>1
  <2>3. x = s[i + 1]
    BY <1>1, <2>1, <2>2
  <2> QED BY <1>3, <2>2, <2>3
<1>7. ToSet(s) = {Head(s)} \cup ToSet(t)
  BY <1>4, <1>5, <1>6
<1> QED BY <1>1, <1>4, <1>7 DEF t

LEMMA ConcatSet ==
  ASSUME NEW S, NEW s \in Seq(S), NEW t \in Seq(S)
  PROVE  /\ s \o t \in Seq(S) /\ Len(s \o t) = Len(s) + Len(t)
         /\ \A i \in 1 .. Len(s) + Len(t) : (s \o t)[i] = IF i <= Len(s) THEN s[i] ELSE t[i - Len(s)]
         /\ ToSet(s \o t) = ToSet(s) \cup ToSet(t)
<1> DEFINE u == s \o t
<1>1. /\ u \in Seq(S) /\ Len(u) = Len(s) + Len(t) /\ Len(s) \in Nat /\ Len(t) \in Nat
      /\ \A i \in 1 .. Len(s) + Len(t) : u[i] = IF i <= Len(s) THEN s[i] ELSE t[i - Len(s)]
  OBVIOUS
<1> HIDE DEF u
<1>2. /\ \A i \in 1 .. Len(u) : u[i] \in ToSet(u)
      /\ \A x \in ToSet(u) : \E i \in 1 .. Len(u) : x = u[i]
  BY <1>1, SeqSet
<1>3. /\ \A i \in 1 .. Len(s) : s[i] \in ToSet(s)
      /\ \A x \in ToSet(s) : \E i \in 1 .. Len(s) : x = s[i]
  BY SeqSet
<1>4. /\ \A i \in 1 .. Len(t) : t[i] \in ToSet(t)
      /\ \A x \in ToSet(t) : \E i \in 1 .. Len(t) : x = t[i]
  BY SeqSet
<1>5. ASSUME NEW i \in 1 .. Len(t)
      PROVE  i + Len(s) \in 1 .. Len(u) /\ u[i + Len(s)] = t[i]
  <2>1. /\ i + Len(s) \in 1 .. Len(s) + Len(t) /\ ~(i + Len(s) <= Len(s))
        /\ (i + Len(s)) - Len(s) = i
    BY <1>1
  <2>2. u[i + Len(s)] = t[(i + Len(s)) - Len(s)]
    BY <1>1, <2>1
  <2> QED BY <1>1, <2>1, <2>2
<1>6. \A i \in 1 .. Len(s) : i \in 1 .. Len(u) /\ u[i] = s[i]
  BY <1>1
<1>7. ToSet(s) \cup ToSet(t) \subseteq ToSet(u)
  <2>1. ASSUME NEW x \in ToSet(s)
        PROVE  x \in ToSet(u)
    BY <1>2, <1>3, <1>6
  <2>2. ASSUME NEW x \in ToSet(t)
        PROVE  x \in ToSet(u)
    <3>1. PICK i \in 1 .. Len(t) : x = t[i]
      BY <1>4
    <3>2. i + Len(s) \in 1 .. Len(u) /\ u[i + Len(s)] = x
      BY <1>5, <3>1
    <3> QED BY <1>2, <3>2
  <2> QED BY <2>1, <2>2
<1>8. ASSUME NEW x \in ToSet(u)
      PROVE  x \in ToSet(s) \cup ToSet(t)
  <2>1. PICK i \in 1 .. Len(u) : x = u[i]
    BY <1>2
  <2>2. CASE i <= Len(s)
    <3>1. i \in 1 .. Len(s)
      BY <1>1, <2>2
    <3> QED BY <1>3, <1>6, <2>1, <3>1
  <2>3. CASE ~(i <= Len(s))
    <3>1. i - Len(s) \in 1 .. Len(t) /\ i \in 1 .. Len(s) + Len(t)
      BY <1>1, <2>3
    <3>2. u[i] = t[i - Len(s)]
      BY <1>1, <2>3, <3>1
    <3> QED BY <1>4, <2>1, <3>1, <3>2
  <2> QED BY <2>2, <2>3
<1>9. ToSet(u) = ToSet(s) \cup ToSet(t)
  BY <1>7, <1>8
<1> QED BY <1>1, <1>9 DEF u

(* The last line of a page and the order of its lines.                     *)
LEMMA LastSeqTyped ==
  ASSUME NEW s \in Seq(Frames)
  PROVE  /\ LastSeq(s) \in Nat \cup {-1}
         /\ s # <<>> => Last(s) \in ToSet(s) /\ LastSeq(s) = Last(s)[2]
BY SeqSet DEF LastSeq, Last, Frames

LEMMA LastIsLargest ==
  ASSUME NEW s \in Seq(Frames), Ascending(s)
  PROVE  \A f \in ToSet(s) : f[2] <= LastSeq(s)
<1> TAKE f \in ToSet(s)
<1>1. PICK i \in 1 .. Len(s) : f = s[i]
  BY SeqSet
<1>2. s # <<>> /\ LastSeq(s) = s[Len(s)][2] /\ Len(s) \in 1 .. Len(s)
  BY <1>1 DEF LastSeq, Last
<1>3. f[2] \in Nat /\ s[Len(s)][2] \in Nat
  BY <1>1, <1>2 DEF Frames
<1>4. CASE i = Len(s)
  BY <1>1, <1>2, <1>3, <1>4
<1>5. CASE i < Len(s)
  BY <1>1, <1>2, <1>3, <1>5 DEF Ascending
<1> QED BY <1>4, <1>5

LEMMA AppendAscends ==
  ASSUME NEW s \in Seq(Frames), NEW f \in Frames
  PROVE  /\ Append(s, f) \in Seq(Frames) /\ LastSeq(Append(s, f)) = f[2]
         /\ Ascending(s) /\ f[2] > LastSeq(s) => Ascending(Append(s, f))
<1>1. /\ Append(s, f) \in Seq(Frames) /\ Len(Append(s, f)) = Len(s) + 1 /\ Len(s) \in Nat
      /\ \A i \in 1 .. Len(s) : Append(s, f)[i] = s[i] /\ s[i] \in Frames
      /\ Append(s, f)[Len(s) + 1] = f
  OBVIOUS
<1>2. LastSeq(Append(s, f)) = f[2]
  <2> DEFINE t == Append(s, f)
  <2>1. t # <<>> /\ Len(t) = Len(s) + 1 /\ t[Len(s) + 1] = f
    BY <1>1
  <2> HIDE DEF t
  <2>2. LastSeq(t) = f[2]
    BY <2>1 DEF LastSeq, Last
  <2> QED BY <2>2 DEF t
<1>3. ASSUME Ascending(s), f[2] > LastSeq(s),
             NEW m \in 1 .. Len(s) + 1, NEW n \in 1 .. Len(s) + 1, m < n
      PROVE  Append(s, f)[m][2] < Append(s, f)[n][2]
  <2>1. m \in 1 .. Len(s)
    BY <1>1, <1>3
  <2>2. s[m][2] <= LastSeq(s) /\ s[m][2] \in Nat /\ f[2] \in Nat /\ LastSeq(s) \in Int
    BY <1>1, <1>3, <2>1, LastIsLargest, LastSeqTyped, SeqSet DEF Frames
  <2>3. CASE n = Len(s) + 1
    BY <1>1, <1>3, <2>1, <2>2, <2>3
  <2>4. CASE n \in 1 .. Len(s)
    BY <1>1, <1>3, <2>1, <2>4 DEF Ascending
  <2> QED BY <1>1, <2>3, <2>4
<1> QED BY <1>1, <1>2, <1>3 DEF Ascending

(* Shown keeps the lines and the order, and misses nothing newer of frames *)
(* that ascend.                                                            *)
LEMMA ShownFacts ==
  ASSUME NEW v \in Viewers, NEW lines \in Seq(Frames), NEW frames \in Seq(Frames),
         cut[v] \in Int, cut[v] <= LastSeq(lines), Ascending(lines)
  PROVE  LET shown == Shown(v, lines, frames) IN
         /\ shown \in Seq(Frames) /\ Ascending(shown)
         /\ LastSeq(lines) <= LastSeq(shown)
         /\ ToSet(lines) \subseteq ToSet(shown)
         /\ ToSet(shown) \subseteq ToSet(lines) \cup ToSet(frames)
         /\ LastSeq(shown) = LastSeq(lines) \/ \E f \in ToSet(frames) : LastSeq(shown) = f[2]
         /\ Ascending(frames) =>
              \A f \in ToSet(frames) : f[2] > LastSeq(lines) => f \in ToSet(shown)
<1>0. Len(frames) \in Nat
  OBVIOUS
<1>1. PICK show : /\ ShowsUpto(v, lines, frames, show, Len(frames))
                  /\ Shown(v, lines, frames) = show[Len(frames)]
  BY <1>0, ShownRecurses
<1> DEFINE Good(s, n) ==
             /\ s \in Seq(Frames) /\ Ascending(s)
             /\ LastSeq(lines) <= LastSeq(s)
             /\ ToSet(lines) \subseteq ToSet(s)
             /\ ToSet(s) \subseteq ToSet(lines) \cup ToSet(frames)
             /\ LastSeq(s) = LastSeq(lines) \/ \E i \in 1 .. n : LastSeq(s) = frames[i][2]
             /\ Ascending(frames) =>
                  \A i \in 1 .. n : frames[i][2] > LastSeq(lines) => frames[i] \in ToSet(s)
           S == {n \in Nat : n <= Len(frames) => Good(show[n], n)}
<1> Len(frames) \in Nat
  OBVIOUS
<1>2. LastSeq(lines) \in Int
  BY LastSeqTyped
<1>3. show[0] = lines
  BY <1>1 DEF ShowNext, ShowsUpto
<1>4. Good(show[0], 0)
  BY <1>2, <1>3
<1>5. ASSUME NEW n \in Nat, n + 1 <= Len(frames), Good(show[n], n)
      PROVE  Good(show[n + 1], n + 1)
  <2> DEFINE f == frames[n + 1]
             s == show[n]
  <2>1. f \in Frames /\ f \in ToSet(frames) /\ f[2] \in Nat
    BY <1>5, SeqSet DEF Frames
  <2>2. show[n + 1] = IF f[2] > cut[v] /\ f[2] > LastSeq(s) THEN Append(s, f) ELSE s
    <3>1. n + 1 \in 0 .. Len(frames) /\ n + 1 # 0 /\ (n + 1) - 1 = n
      BY <1>5
    <3>2. show[n + 1] = ShowNext(v, lines, frames, show, n + 1)
      BY <1>1, <3>1 DEF ShowsUpto
    <3> QED BY <3>1, <3>2 DEF ShowNext
  <2>3. LastSeq(s) \in Int /\ s \in Seq(Frames)
    BY <1>5, LastSeqTyped
  <2>4. CASE f[2] > LastSeq(s)
    <3>0. f[2] > cut[v]
      <4>1. cut[v] \in Int /\ cut[v] <= LastSeq(lines) /\ LastSeq(lines) <= LastSeq(s)
        BY <1>5
      <4> QED BY <1>2, <2>1, <2>3, <2>4, <4>1
    <3>1. show[n + 1] = Append(s, f)
      BY <2>2, <2>4, <3>0
    <3>2. /\ Append(s, f) \in Seq(Frames) /\ LastSeq(Append(s, f)) = f[2]
          /\ Ascending(Append(s, f))
      BY <1>5, <2>1, <2>3, <2>4, AppendAscends
    <3>3. ToSet(Append(s, f)) = ToSet(s) \cup {f}
      BY <2>1, <2>3, AppendSet
    <3>4. LastSeq(lines) <= LastSeq(Append(s, f))
      BY <1>2, <1>5, <2>1, <2>3, <2>4, <3>2
    <3>5. \A i \in 1 .. n + 1 : i = n + 1 \/ i \in 1 .. n
      OBVIOUS
    <3> QED BY <1>5, <2>1, <3>1, <3>2, <3>3, <3>4, <3>5
  <2>5. CASE ~(f[2] > LastSeq(s))
    <3>1. show[n + 1] = s
      BY <2>2, <2>5
    <3>2. ASSUME Ascending(frames), f[2] > LastSeq(lines)
          PROVE  FALSE
      <4>1. PICK i \in 1 .. n : LastSeq(s) = frames[i][2]
        BY <1>2, <1>5, <2>1, <2>3, <2>5, <3>2
      <4>2. frames[i][2] < frames[n + 1][2]
        <5>1. i \in 1 .. Len(frames) /\ n + 1 \in 1 .. Len(frames) /\ i < n + 1
          BY <1>5
        <5> QED BY <3>2, <5>1 DEF Ascending
      <4> QED BY <2>1, <2>3, <2>5, <4>1, <4>2
    <3>3. \A i \in 1 .. n + 1 : i = n + 1 \/ i \in 1 .. n
      OBVIOUS
    <3>4. \A i \in 1 .. n : i \in 1 .. n + 1
      OBVIOUS
    <3> QED BY <1>5, <3>1, <3>2, <3>3, <3>4
  <2> QED BY <2>4, <2>5
<1>6. Nat \subseteq S
  <2>1. 0 \in S
    BY <1>4
  <2>2. \A n \in Nat : n \in S => n + 1 \in S
    BY <1>5
  <2> HIDE DEF S
  <2> QED BY <2>1, <2>2, Induction
<1>7. Good(show[Len(frames)], Len(frames))
  BY <1>6
<1>8. /\ \A f \in ToSet(frames) : \E i \in 1 .. Len(frames) : f = frames[i]
      /\ \A i \in 1 .. Len(frames) : frames[i] \in ToSet(frames)
  BY SeqSet
<1>9. Shown(v, lines, frames) = show[Len(frames)]
  BY <1>1
<1> QED BY <1>7, <1>8, <1>9

-----------------------------------------------------------------------------
(* The steps of the pages.                                                 *)

(* What leaves a page alone keeps it right.                                *)
LEMMA SamePage ==
  ASSUME NEW w \in Viewers, Page(w),
         emitted' = emitted,
         queue'[w] = queue[w], seen'[w] = seen[w], cut'[w] = cut[w],
         conn'[w] = conn[w], told'[w] = told[w], lost[w] \subseteq lost'[w],
         row # "open" => row' # "open", row = "gone" <=> row' = "gone",
         w \in attached => w \in attached' \/ row' # "open" \/ "recheck" \in faults',
         job \in {"close", "done"} => job' \in {"close", "done"},
         faults \subseteq faults'
  PROVE  Page(w)'
<1>0. unwritten => unwritten'
  BY DEF unwritten
<1>1. Lines(w)'
  BY DEF Page, Lines
<1>2. Queued(w)'
  BY <1>0 DEF Page, Queued
<1>3. Connected(w)'
  BY DEF Page, Connected
<1>4. NoGap(w)' /\ Complete(w)'
  BY <1>0 DEF Page, NoGap, Complete
<1>5. NotCut(w)'
  BY DEF Page, NotCut
<1> QED BY <1>1, <1>2, <1>3, <1>4, <1>5 DEF Page

(* A step of one page changes neither the job nor the other pages.         *)
OnePage(v) ==
  /\ UNCHANGED sink
  /\ faults \subseteq faults' /\ unwritten' = unwritten
  /\ \A w \in Viewers \ {v} :
       /\ queue'[w] = queue[w] /\ seen'[w] = seen[w] /\ cut'[w] = cut[w]
       /\ conn'[w] = conn[w] /\ told'[w] = told[w] /\ lost'[w] = lost[w]
       /\ w \in attached => w \in attached' \/ row # "open" \/ "recheck" \in faults'

LEMMA OnePageKeeps ==
  ASSUME LInv, NEW v \in Viewers, OnePage(v), TypeOK', Page(v)', ChannelReclaimed'
  PROVE  LInv'
<1>1. JobKnown' /\ SinkInOrder' /\ AllWritten' /\ SeqsAreUnique'
  BY DEF LInv, OnePage, sink, JobKnown, SinkInOrder, AllWritten, SeqsAreUnique, Ascending
<1>2. ASSUME NEW w \in Viewers
      PROVE  Page(w)'
  <2>1. CASE w = v
    BY <2>1
  <2>2. CASE w # v
    <3>1. Page(w)
      BY DEF LInv
    <3> QED BY <2>2, <3>1, SamePage DEF OnePage, sink
  <2> QED BY <2>1, <2>2
<1> QED BY <1>1, <1>2 DEF LInv

LEMMA StaysReclaimed ==
  ASSUME LInv, NEW v \in Viewers, UNCHANGED job, channel' => channel,
         \A w \in Viewers \ {v} : conn'[w] = conn[w],
         conn[v] \in {"recheck", "drop", "abandon"} => conn'[v] \in {"recheck", "drop", "abandon"}
  PROVE  ChannelReclaimed'
<1>1. ASSUME NEW w \in Viewers, conn'[w] \notin {"recheck", "drop", "abandon"}
      PROVE  conn[w] \notin {"recheck", "drop", "abandon"}
  BY <1>1
<1> QED BY <1>1 DEF LInv, ChannelReclaimed, TypeOK

LEMMA SinkFacts ==
  ASSUME LInv
  PROVE  /\ ToSet(stored) \subseteq emitted /\ ToSet(batch) \subseteq emitted
         /\ \A f \in emitted : f \in Frames /\ f[2] \in Nat /\ f # Terminal
         /\ \A v \in Viewers : LastSeq(seen[v]) \in Nat \cup {-1}
BY LastSeqTyped DEF LInv, TypeOK, SinkInOrder, Frames, Terminal

(* What failed stays known, and only a write that fails leaves a batch     *)
(* unwritten.                                                              *)
LEMMA FailsFacts ==
  ASSUME LInv, NEW access \in Accesses, Fails(access) \/ UNCHANGED faults
  PROVE  /\ faults \subseteq faults' /\ faults' \subseteq Accesses
         /\ access # "write" => unwritten' = unwritten
         /\ Fails(access) => access \in faults'
BY DEF LInv, TypeOK, Fails, unwritten

LEMMA ReadRowKeeps ==
  ASSUME LInv, NEW v \in Viewers, ReadRow(v)
  PROVE  LInv'
<1>0. /\ faults \subseteq faults' /\ faults' \subseteq Accesses /\ unwritten' = unwritten
      /\ conn' = [conn EXCEPT ![v] = conn'[v]] /\ conn[v] = "read"
      /\ conn'[v] = "subscribe" \/ (conn'[v] = "replay" /\ row = "over") \/ conn'[v] = "refused"
      /\ UNCHANGED <<sink, broker, seen, cut, told, breaks, lost>>
  <2>1. Fails("row") \/ UNCHANGED faults
    BY DEF ReadRow
  <2>2. faults \subseteq faults' /\ faults' \subseteq Accesses /\ unwritten' = unwritten
    BY <2>1, FailsFacts DEF Accesses
  <2>3. /\ conn' = [conn EXCEPT ![v] = conn'[v]] /\ conn[v] = "read"
        /\ conn'[v] = "subscribe" \/ (conn'[v] = "replay" /\ row = "over") \/ conn'[v] = "refused"
    BY DEF LInv, TypeOK, ReadRow, Moves
  <2> QED BY <2>2, <2>3 DEF ReadRow
<1>1. TypeOK'
  BY <1>0 DEF LInv, TypeOK, sink, broker, ConnPcs
<1>2. OnePage(v)
  BY <1>0 DEF LInv, TypeOK, sink, broker, OnePage
<1>3. Page(v)'
  BY <1>0 DEF LInv, sink, broker, Page, Lines, Queued, Connected, NoGap, Complete, NotCut
<1>4. ChannelReclaimed'
  BY <1>0, StaysReclaimed DEF LInv, TypeOK, sink, broker
<1> QED BY <1>1, <1>2, <1>3, <1>4, OnePageKeeps

LEMMA SubscribeKeeps ==
  ASSUME LInv, NEW v \in Viewers, Subscribe(v)
  PROVE  LInv'
<1>1. TypeOK'
  BY DEF LInv, TypeOK, Subscribe, Moves, sink, ConnPcs
<1>2. OnePage(v)
  BY DEF LInv, TypeOK, Subscribe, Moves, sink, OnePage, unwritten
<1>3. Page(v)'
  <2>1. queue'[v] = <<>> /\ conn'[v] = "recheck" /\ v \in attached' /\ conn[v] = "subscribe"
    BY DEF LInv, TypeOK, Subscribe, Moves
  <2>2. UNCHANGED <<sink, seen, cut, told, breaks, lost, faults>> /\ unwritten' = unwritten
    BY DEF Subscribe, unwritten
  <2>3. Queued(v)'
    BY <2>1, EmptySet DEF Queued
  <2> QED BY <2>1, <2>2, <2>3 DEF LInv, sink, Page, Lines, Connected, NoGap, Complete, NotCut
<1>4. ChannelReclaimed'
  BY DEF LInv, TypeOK, Subscribe, Moves, ChannelReclaimed
<1> QED BY <1>1, <1>2, <1>3, <1>4, OnePageKeeps

LEMMA RecheckKeeps ==
  ASSUME LInv, NEW v \in Viewers, Recheck(v)
  PROVE  LInv'
<1>0. /\ faults \subseteq faults' /\ faults' \subseteq Accesses /\ unwritten' = unwritten
      /\ conn' = [conn EXCEPT ![v] = conn'[v]] /\ conn[v] = "recheck"
      /\ \/ conn'[v] = "history" /\ row = "open"
         \/ conn'[v] = "drop" /\ row = "over"
         \/ conn'[v] = "abandon" /\ (row = "gone" \/ "recheck" \in faults')
      /\ UNCHANGED <<sink, broker, seen, cut, told, breaks, lost>>
  <2>1. Fails("recheck") \/ UNCHANGED faults
    BY DEF Recheck
  <2>2. /\ faults \subseteq faults' /\ faults' \subseteq Accesses /\ unwritten' = unwritten
        /\ Fails("recheck") => "recheck" \in faults'
    BY <2>1, FailsFacts DEF Accesses
  <2>3. /\ conn' = [conn EXCEPT ![v] = conn'[v]] /\ conn[v] = "recheck"
        /\ \/ conn'[v] = "history" /\ row = "open"
           \/ conn'[v] = "drop" /\ row = "over"
           \/ conn'[v] = "abandon" /\ (row = "gone" \/ "recheck" \in faults')
    BY <2>2 DEF LInv, TypeOK, Recheck, Moves
  <2> QED BY <2>2, <2>3 DEF Recheck
<1>1. TypeOK'
  BY <1>0 DEF LInv, TypeOK, sink, broker, ConnPcs
<1>2. OnePage(v)
  BY <1>0 DEF LInv, TypeOK, sink, broker, OnePage
<1>3. Page(v)'
  BY <1>0 DEF LInv, sink, broker, Page, Lines, Queued, Connected, NoGap, Complete, NotCut
<1>4. ChannelReclaimed'
  <2>1. CASE conn'[v] = "history"
    BY <1>0, <2>1 DEF LInv, JobKnown, sink, ChannelReclaimed
  <2>2. CASE conn'[v] # "history"
    BY <1>0, <2>2, StaysReclaimed DEF LInv, TypeOK, sink, broker
  <2> QED BY <2>1, <2>2
<1> QED BY <1>1, <1>2, <1>3, <1>4, OnePageKeeps

LEMMA DropChannelKeeps ==
  ASSUME LInv, NEW v \in Viewers, DropChannel(v)
  PROVE  LInv'
<1>0. /\ conn' = [conn EXCEPT ![v] = conn'[v]]
      /\ \/ conn[v] = "drop" /\ conn'[v] = "replay" /\ row # "open"
         \/ conn[v] = "abandon" /\ conn'[v] = "refused" /\ (row = "gone" \/ "recheck" \in faults)
      /\ queue' = [queue EXCEPT ![v] = <<>>] /\ queue'[v] = <<>>
      /\ channel' = FALSE /\ attached' = {} /\ unwritten' = unwritten
      /\ UNCHANGED <<sink, missed, seen, cut, told, breaks, lost, faults>>
  BY DEF LInv, TypeOK, DropChannel, CloseChannel, Moves, Page, Connected, unwritten
<1>1. TypeOK'
  <2>1. queue' \in [Viewers -> Seq(Frames \cup {Terminal})]
    <3>1. <<>> \in Seq(Frames \cup {Terminal})
      OBVIOUS
    <3> QED BY <1>0, <3>1 DEF LInv, TypeOK
  <2> QED BY <1>0, <2>1 DEF LInv, TypeOK, sink, ConnPcs
<1>2. OnePage(v)
  BY <1>0 DEF LInv, TypeOK, sink, OnePage
<1>3. Page(v)'
  <2>1. Queued(v)'
    BY <1>0, EmptySet DEF Queued
  <2> QED
    BY <1>0, <2>1 DEF LInv, sink, Page, Lines, Connected, NoGap, Complete, NotCut
<1>4. ChannelReclaimed'
  BY <1>0 DEF ChannelReclaimed
<1> QED BY <1>1, <1>2, <1>3, <1>4, OnePageKeeps

LEMMA SendLaggedKeeps ==
  ASSUME LInv, NEW v \in Viewers, SendLagged(v)
  PROVE  LInv'
<1>1. TypeOK'
  BY DEF LInv, TypeOK, SendLagged, sink, pages
<1>2. OnePage(v)
  BY DEF SendLagged, sink, pages, OnePage, unwritten
<1>3. Page(v)'
  BY DEF LInv, SendLagged, sink, pages, Page, Lines, Queued, Connected, NoGap, Complete, NotCut,
         unwritten
<1>4. ChannelReclaimed'
  BY DEF LInv, SendLagged, sink, pages, ChannelReclaimed
<1> QED BY <1>1, <1>2, <1>3, <1>4, OnePageKeeps

LEMMA SendEndKeeps ==
  ASSUME LInv, NEW v \in Viewers, SendEnd(v)
  PROVE  LInv'
<1>0. /\ faults \subseteq faults' /\ faults' \subseteq Accesses /\ unwritten' = unwritten
      /\ told' = [told EXCEPT ![v] = told'[v]]
      /\ \/ told'[v] = "terminal" /\ row = "over"
         \/ told'[v] = "ended" /\ (row = "gone" \/ faults' \cap {"recheck", "end"} # {})
      /\ conn' = [conn EXCEPT ![v] = "closed"] /\ conn[v] = "live" /\ conn'[v] = "closed"
      /\ queue[v] = <<>>
      /\ UNCHANGED <<sink, broker, seen, cut, breaks, lost>>
  <2>1. Fails("end") \/ UNCHANGED faults
    BY DEF SendEnd
  <2>2. /\ faults \subseteq faults' /\ faults' \subseteq Accesses /\ unwritten' = unwritten
        /\ Fails("end") => "end" \in faults'
    BY <2>1, FailsFacts DEF Accesses
  <2>3. row = "over" \/ row = "gone" \/ "recheck" \in faults
    BY DEF LInv, TypeOK, SendEnd, Page, Connected
  <2>4. /\ told' = [told EXCEPT ![v] = told'[v]]
        /\ \/ told'[v] = "terminal" /\ row = "over"
           \/ told'[v] = "ended" /\ (row = "gone" \/ faults' \cap {"recheck", "end"} # {})
    BY <2>2, <2>3 DEF LInv, TypeOK, SendEnd
  <2>5. /\ conn' = [conn EXCEPT ![v] = "closed"] /\ conn[v] = "live" /\ conn'[v] = "closed"
        /\ queue[v] = <<>>
    BY DEF LInv, TypeOK, SendEnd
  <2> QED BY <2>2, <2>4, <2>5 DEF SendEnd
<1>1. TypeOK'
  BY <1>0 DEF LInv, TypeOK, sink, broker, ConnPcs, Ends
<1>2. OnePage(v)
  BY <1>0 DEF LInv, TypeOK, sink, broker, OnePage
<1>3. Page(v)'
  <2>1. Complete(v)'
    BY <1>0, EmptySet DEF LInv, Page, NoGap, Complete, sink
  <2>2. Connected(v)' /\ NotCut(v)'
    BY <1>0 DEF Connected, NotCut, sink
  <2> QED BY <1>0, <2>1, <2>2 DEF LInv, sink, broker, Page, Lines, Queued, NoGap
<1>4. ChannelReclaimed'
  BY <1>0, StaysReclaimed DEF LInv, TypeOK, sink, broker
<1> QED BY <1>1, <1>2, <1>3, <1>4, OnePageKeeps

LEMMA BreakKeeps ==
  ASSUME LInv, NEW v \in Viewers, Break(v)
  PROVE  LInv'
<1>0. /\ conn[v] \in {"history", "live", "replay"} /\ conn'[v] \in {"read", "closed"}
      /\ conn' = [conn EXCEPT ![v] = conn'[v]]
      /\ queue' = [queue EXCEPT ![v] = <<>>] /\ queue'[v] = <<>>
      /\ missed' = [missed EXCEPT ![v] = 0] /\ attached' = attached \ {v}
      /\ told' = [told EXCEPT ![v] = told'[v]]
      /\ told'[v] \in {told[v], "broken"} /\ told[v] # "terminal"
      /\ breaks' = breaks + 1 /\ breaks \in Nat /\ unwritten' = unwritten
      /\ UNCHANGED <<sink, channel, seen, cut, lost, faults>>
  BY DEF LInv, TypeOK, Break, Page, Connected, unwritten
<1>1. TypeOK'
  <2>1. queue' \in [Viewers -> Seq(Frames \cup {Terminal})] /\ missed' \in [Viewers -> Nat]
    <3>1. <<>> \in Seq(Frames \cup {Terminal})
      OBVIOUS
    <3> QED BY <1>0, <3>1 DEF LInv, TypeOK
  <2>2. told' \in [Viewers -> {"open"} \cup Ends]
    <3>1. told'[v] \in {"open"} \cup Ends
      BY <1>0 DEF LInv, TypeOK, Ends
    <3> QED BY <1>0, <3>1 DEF LInv, TypeOK
  <2>3. conn' \in [Viewers -> ConnPcs]
    <3>1. conn'[v] \in ConnPcs
      BY <1>0 DEF ConnPcs
    <3> QED BY <1>0, <3>1 DEF LInv, TypeOK
  <2>4. breaks' \in Nat /\ attached' \subseteq Viewers
    BY <1>0 DEF LInv, TypeOK
  <2> QED BY <1>0, <2>1, <2>2, <2>3, <2>4 DEF LInv, TypeOK, sink
<1>2. OnePage(v)
  BY <1>0 DEF LInv, TypeOK, sink, OnePage
<1>3. Page(v)'
  <2>1. Queued(v)'
    BY <1>0, EmptySet DEF Queued
  <2> QED
    BY <1>0, <2>1 DEF LInv, sink, Page, Lines, Connected, NoGap, Complete, NotCut
<1>4. ChannelReclaimed'
  BY <1>0, StaysReclaimed DEF LInv, TypeOK, sink
<1> QED BY <1>1, <1>2, <1>3, <1>4, OnePageKeeps

(* The first n frames of what is stored: what ascends stays in order, and  *)
(* what is left out is newer than its last.                                *)
LEMMA PrefixFacts ==
  ASSUME NEW s \in Seq(Frames), Ascending(s), NEW n \in 0 .. Len(s)
  PROVE  LET t == SubSeq(s, 1, n) IN
         /\ t \in Seq(Frames) /\ Ascending(t) /\ ToSet(t) \subseteq ToSet(s)
         /\ \A f \in ToSet(s) : f[2] <= LastSeq(t) => f \in ToSet(t)
<1> DEFINE t == SubSeq(s, 1, n)
<1>1. /\ t \in Seq(Frames) /\ Len(t) = n /\ Len(s) \in Nat /\ n \in Nat
      /\ \A i \in 1 .. n : t[i] = s[i]
  OBVIOUS
<1> HIDE DEF t
<1>2. /\ \A i \in 1 .. n : i \in 1 .. Len(s) /\ t[i] \in ToSet(t)
      /\ \A x \in ToSet(t) : \E i \in 1 .. n : x = t[i]
  BY <1>1, SeqSet
<1>3. /\ \A i \in 1 .. Len(s) : s[i] \in ToSet(s) /\ s[i] \in Frames
      /\ \A x \in ToSet(s) : \E i \in 1 .. Len(s) : x = s[i]
  BY SeqSet
<1>4. Ascending(t) /\ ToSet(t) \subseteq ToSet(s)
  <2>1. Ascending(t)
    BY <1>1, <1>2 DEF Ascending
  <2>2. ASSUME NEW x \in ToSet(t)
        PROVE  x \in ToSet(s)
    <3>1. PICK i \in 1 .. n : x = t[i]
      BY <1>2
    <3> QED BY <1>1, <1>2, <1>3, <3>1
  <2> QED BY <2>1, <2>2
<1>5. ASSUME NEW f \in ToSet(s), f[2] <= LastSeq(t)
      PROVE  f \in ToSet(t)
  <2>1. PICK i \in 1 .. Len(s) : f = s[i]
    BY <1>3
  <2>2. CASE i <= n
    <3>1. i \in 1 .. n
      BY <1>1, <2>2
    <3> QED BY <1>1, <1>2, <2>1, <3>1
  <2>3. CASE ~(i <= n)
    <3>1. CASE n = 0
      <4>1. LastSeq(t) = -1
        BY <1>1, <3>1 DEF LastSeq
      <4> QED BY <1>3, <1>5, <2>1, <4>1 DEF Frames
    <3>2. CASE n # 0
      <4>1. n \in 1 .. n /\ n \in 1 .. Len(s) /\ n < i
        BY <1>1, <2>3, <3>2
      <4>2. LastSeq(t) = s[n][2]
        BY <1>1, <3>2, <4>1 DEF LastSeq, Last
      <4>3. s[n][2] < s[i][2]
        BY <4>1 DEF Ascending
      <4>4. s[n][2] \in Nat /\ s[i][2] \in Nat
        BY <1>3, <4>1 DEF Frames
      <4> QED BY <1>5, <2>1, <4>2, <4>3, <4>4
    <3> QED BY <3>1, <3>2
  <2> QED BY <2>2, <2>3
<1> QED BY <1>1, <1>4, <1>5 DEF t

(* A seed that fails leaves the page as it was.                            *)
LEMMA SeedFailsKeeps ==
  ASSUME LInv, NEW v \in Viewers, Moves(v, "seed", "read"), Fails("seed"),
         UNCHANGED <<seen, cut, sink, broker, told, breaks, lost>>
  PROVE  LInv'
<1>0. /\ faults \subseteq faults' /\ faults' \subseteq Accesses /\ unwritten' = unwritten
      /\ conn' = [conn EXCEPT ![v] = "read"] /\ conn[v] = "seed" /\ conn'[v] = "read"
  BY FailsFacts DEF Accesses, Moves, LInv, TypeOK
<1>1. TypeOK'
  BY <1>0 DEF LInv, TypeOK, sink, broker, ConnPcs
<1>2. OnePage(v)
  BY <1>0 DEF LInv, TypeOK, sink, broker, OnePage
<1>3. Page(v)'
  BY <1>0 DEF LInv, sink, broker, Page, Lines, Queued, Connected, NoGap, Complete, NotCut
<1>4. ChannelReclaimed'
  BY <1>0, StaysReclaimed DEF LInv, TypeOK, sink, broker
<1> QED BY <1>1, <1>2, <1>3, <1>4, OnePageKeeps

LEMMA SeedKeeps ==
  ASSUME LInv, NEW v \in Viewers, Seed(v)
  PROVE  LInv'
<1> DEFINE n == IF Len(stored) < SeedLimit THEN Len(stored) ELSE SeedLimit
           t == SubSeq(stored, 1, n)
<1>1. stored \in Seq(Frames) /\ Ascending(stored) /\ n \in 0 .. Len(stored)
  BY LogStreamAssumption DEF LInv, TypeOK, SinkInOrder
<1>2. /\ t \in Seq(Frames) /\ Ascending(t) /\ ToSet(t) \subseteq ToSet(stored)
      /\ \A f \in ToSet(stored) : f[2] <= LastSeq(t) => f \in ToSet(t)
  BY <1>1, PrefixFacts
<1>0. SUFFICES ASSUME seen' = [seen EXCEPT ![v] = t], cut' = [cut EXCEPT ![v] = LastSeq(t)],
                      UNCHANGED faults
               PROVE  LInv'
  BY SeedFailsKeeps DEF Seed
<1>3. /\ seen' = [seen EXCEPT ![v] = t] /\ cut' = [cut EXCEPT ![v] = LastSeq(t)]
      /\ conn' = [conn EXCEPT ![v] = "read"] /\ conn[v] = "seed"
      /\ UNCHANGED <<sink, broker, told, breaks, lost, faults>> /\ unwritten' = unwritten
  BY <1>0 DEF Seed, Moves, unwritten
<1> HIDE DEF t
<1>4. LastSeq(t) \in Nat \cup {-1}
  BY <1>2, LastSeqTyped
<1>5. seen'[v] = t /\ cut'[v] = LastSeq(t) /\ conn'[v] = "read"
  BY <1>3 DEF LInv, TypeOK
<1>6. TypeOK'
  BY <1>2, <1>3, <1>4 DEF LInv, TypeOK, sink, broker, ConnPcs
<1>7. OnePage(v)
  BY <1>3 DEF LInv, TypeOK, sink, broker, OnePage
<1>8. Page(v)'
  <2>1. Lines(v)'
    BY <1>2, <1>3, <1>4, <1>5, SinkFacts DEF sink, Lines
  <2>2. Queued(v)'
    BY <1>3 DEF LInv, Page, Queued, sink, broker
  <2>3. Connected(v)' /\ NotCut(v)' /\ told'[v] # "terminal"
    BY <1>3, <1>5 DEF LInv, Page, Connected, NotCut, sink, broker
  <2>4. ASSUME ~unwritten, NEW f \in emitted, f[2] <= LastSeq(t)
        PROVE  f \in ToSet(t)
    <3>1. CASE f \in ToSet(stored)
      BY <1>2, <2>4, <3>1
    <3>2. CASE f \in ToSet(batch)
      <4>1. t # <<>>
        BY <2>4, SinkFacts DEF LastSeq
      <4>2. Last(t) \in ToSet(stored) /\ LastSeq(t) = Last(t)[2]
        BY <1>2, <4>1, LastSeqTyped
      <4>3. Last(t)[2] < f[2] /\ Last(t)[2] \in Nat /\ f[2] \in Nat
        BY <3>2, <4>2, SinkFacts DEF LInv, SinkInOrder
      <4> QED BY <2>4, <4>2, <4>3
    <3>3. row # "gone"
      <4>1. row = "gone" => LastSeq(t) = -1
        BY <1>2, EmptySet, LastSeqTyped DEF LInv, JobKnown
      <4> QED BY <2>4, <4>1, SinkFacts
    <3> QED BY <2>4, <3>1, <3>2, <3>3 DEF LInv, AllWritten
  <2>5. NoGap(v)' /\ Complete(v)'
    BY <1>3, <1>5, <2>3, <2>4 DEF NoGap, Complete, sink
  <2> QED BY <2>1, <2>2, <2>3, <2>5 DEF Page
<1>9. ChannelReclaimed'
  BY <1>3, StaysReclaimed DEF LInv, TypeOK, sink, broker
<1> QED BY <1>6, <1>7, <1>8, <1>9, OnePageKeeps

(* What the page shows of what is stored, as far as it is read.            *)
LEMMA ShownOfStored ==
  ASSUME LInv, NEW v \in Viewers, NEW read \in Seq(Frames), Ascending(read),
         ToSet(read) \subseteq ToSet(stored)
  PROVE  LET shown == Shown(v, seen[v], read) IN
         /\ shown \in Seq(Frames) /\ Ascending(shown)
         /\ ToSet(shown) \subseteq emitted
         /\ cut[v] <= LastSeq(shown)
         /\ ToSet(seen[v]) \subseteq ToSet(shown)
         /\ LastSeq(shown) = LastSeq(seen[v]) \/ \E f \in ToSet(read) : LastSeq(shown) = f[2]
         /\ ~unwritten => \A f \in ToSet(read) : f \in ToSet(shown) \cup lost[v]
<1> DEFINE shown == Shown(v, seen[v], read)
<1>1. /\ seen[v] \in Seq(Frames) /\ cut[v] \in Int
      /\ cut[v] <= LastSeq(seen[v]) /\ Ascending(seen[v])
      /\ ToSet(seen[v]) \subseteq emitted /\ ToSet(read) \subseteq emitted
  BY SinkFacts DEF LInv, TypeOK, Page, Lines, SinkInOrder
<1>2. /\ shown \in Seq(Frames) /\ Ascending(shown)
      /\ LastSeq(seen[v]) <= LastSeq(shown)
      /\ ToSet(seen[v]) \subseteq ToSet(shown)
      /\ ToSet(shown) \subseteq ToSet(seen[v]) \cup ToSet(read)
      /\ LastSeq(shown) = LastSeq(seen[v]) \/ \E f \in ToSet(read) : LastSeq(shown) = f[2]
      /\ \A f \in ToSet(read) : f[2] > LastSeq(seen[v]) => f \in ToSet(shown)
  BY <1>1, ShownFacts
<1> HIDE DEF shown
<1>3. cut[v] <= LastSeq(shown)
  BY <1>1, <1>2, LastSeqTyped
<1>4. ASSUME ~unwritten, NEW f \in ToSet(read)
      PROVE  f \in ToSet(shown) \cup lost[v]
  <2>1. f \in emitted /\ f[2] \in Nat /\ LastSeq(seen[v]) \in Int
    BY <1>1, SinkFacts
  <2>2. CASE f[2] > LastSeq(seen[v])
    BY <1>2, <2>2
  <2>3. CASE f[2] <= LastSeq(seen[v])
    BY <1>2, <1>4, <2>1, <2>3 DEF LInv, Page, NoGap
  <2> QED BY <2>1, <2>2, <2>3
<1> QED BY <1>1, <1>2, <1>3, <1>4 DEF shown

LEMMA ReplayKeeps ==
  ASSUME LInv, NEW v \in Viewers, Replay(v)
  PROVE  LInv'
<1> DEFINE t == Shown(v, seen[v], stored)
<1>1. /\ t \in Seq(Frames) /\ Ascending(t) /\ ToSet(t) \subseteq emitted /\ cut[v] <= LastSeq(t)
      /\ ToSet(seen[v]) \subseteq ToSet(t)
      /\ ~unwritten => \A f \in ToSet(stored) : f \in ToSet(t) \cup lost[v]
  <2>1. stored \in Seq(Frames) /\ Ascending(stored)
    BY DEF LInv, TypeOK, SinkInOrder
  <2> QED BY <2>1, ShownOfStored
<1>2. /\ seen' = [seen EXCEPT ![v] = t] /\ told' = [told EXCEPT ![v] = "terminal"]
      /\ conn' = [conn EXCEPT ![v] = "closed"] /\ conn[v] = "replay"
      /\ UNCHANGED <<sink, broker, cut, breaks, lost, faults>> /\ unwritten' = unwritten
  BY DEF Replay, Moves, LInv, TypeOK, unwritten
<1> HIDE DEF t
<1>3. row # "open" /\ batch = <<>>
  BY <1>2 DEF LInv, TypeOK, Page, Connected, JobKnown
<1>4. seen'[v] = t /\ told'[v] = "terminal" /\ conn'[v] = "closed"
  BY <1>2 DEF LInv, TypeOK
<1>5. TypeOK'
  BY <1>1, <1>2 DEF LInv, TypeOK, sink, broker, ConnPcs, Ends
<1>6. OnePage(v)
  BY <1>2 DEF LInv, TypeOK, sink, broker, OnePage
<1>7. Page(v)'
  <2>1. Lines(v)'
    BY <1>1, <1>2, <1>4 DEF sink, Lines
  <2>2. Queued(v)'
    BY <1>2 DEF LInv, Page, Queued, sink, broker
  <2>3. Connected(v)' /\ NotCut(v)'
    BY <1>2, <1>3, <1>4 DEF Connected, NotCut, sink
  <2>4. ~unwritten => \A f \in emitted : f \in ToSet(t) \cup lost[v]
    <3>1. CASE row = "gone"
      BY <1>1, <1>2, <3>1 DEF LInv, Page, NoGap
    <3>2. CASE row # "gone"
      BY <1>1, <1>3, <3>2, EmptySet DEF LInv, AllWritten
    <3> QED BY <3>1, <3>2
  <2>5. NoGap(v)' /\ Complete(v)'
    BY <1>2, <1>4, <2>4 DEF NoGap, Complete, sink
  <2> QED BY <2>1, <2>2, <2>3, <2>5 DEF Page
<1>8. ChannelReclaimed'
  BY <1>2, StaysReclaimed DEF LInv, TypeOK, sink, broker
<1> QED BY <1>5, <1>6, <1>7, <1>8, OnePageKeeps

LEMMA SendHistoryKeeps ==
  ASSUME LInv, NEW v \in Viewers, SendHistory(v)
  PROVE  LInv'
<1> DEFINE t == Shown(v, seen[v], stored)
           l == lost[v] \cup ((emitted \ ToSet(stored)) \ ToSet(queue[v]))
<1>1. /\ t \in Seq(Frames) /\ Ascending(t) /\ ToSet(t) \subseteq emitted /\ cut[v] <= LastSeq(t)
      /\ ToSet(seen[v]) \subseteq ToSet(t)
      /\ LastSeq(t) = LastSeq(seen[v]) \/ \E f \in ToSet(stored) : LastSeq(t) = f[2]
      /\ ~unwritten => \A f \in ToSet(stored) : f \in ToSet(t) \cup lost[v]
  <2>1. stored \in Seq(Frames) /\ Ascending(stored)
    BY DEF LInv, TypeOK, SinkInOrder
  <2> QED BY <2>1, ShownOfStored
<1>2. /\ seen' = [seen EXCEPT ![v] = t] /\ lost' = [lost EXCEPT ![v] = l]
      /\ conn' = [conn EXCEPT ![v] = "live"] /\ conn[v] = "history"
      /\ UNCHANGED <<sink, broker, cut, told, breaks, faults>> /\ unwritten' = unwritten
  BY DEF SendHistory, Moves, LInv, TypeOK, unwritten
<1> HIDE DEF t
<1>4. seen'[v] = t /\ lost'[v] = l /\ conn'[v] = "live"
  BY <1>2 DEF LInv, TypeOK
<1>5. TypeOK'
  <2>1. l \in SUBSET (Frames \cup {Terminal})
    BY SinkFacts DEF LInv, TypeOK
  <2> HIDE DEF l
  <2> QED BY <1>1, <1>2, <2>1 DEF LInv, TypeOK, sink, broker, ConnPcs
<1>6. OnePage(v)
  BY <1>2 DEF LInv, TypeOK, sink, broker, OnePage
<1>7. Page(v)'
  <2>1. Lines(v)'
    BY <1>1, <1>2, <1>4 DEF sink, Lines
  <2>2. Queued(v)'
    BY <1>2 DEF LInv, Page, Queued, sink, broker
  <2>3. Connected(v)' /\ NotCut(v)' /\ told'[v] # "terminal"
    BY <1>2, <1>4 DEF LInv, Page, Connected, NotCut, sink, broker
  <2>4. ~unwritten => \A f \in emitted : f \in ToSet(t) \cup l \cup ToSet(queue[v])
    BY <1>1
  <2>5. ASSUME ~unwritten, NEW f \in emitted, f[2] <= LastSeq(t)
        PROVE  f \in ToSet(t) \cup l
    <3>1. CASE f \in ToSet(stored)
      BY <1>1, <2>5, <3>1
    <3>2. CASE f \in ToSet(batch) /\ LastSeq(t) = LastSeq(seen[v])
      BY <1>1, <2>5, <3>2 DEF LInv, Page, NoGap
    <3>3. CASE f \in ToSet(batch) /\ \E g \in ToSet(stored) : LastSeq(t) = g[2]
      <4>1. PICK g \in ToSet(stored) : LastSeq(t) = g[2]
        BY <3>3
      <4>2. g[2] < f[2] /\ g[2] \in Nat /\ f[2] \in Nat
        BY <3>3, SinkFacts DEF LInv, SinkInOrder
      <4> QED BY <2>5, <4>1, <4>2
    <3>4. CASE row = "gone"
      <4>1. ToSet(stored) = {}
        BY <3>4, EmptySet DEF LInv, JobKnown
      <4> QED BY <1>1, <2>5, <4>1 DEF LInv, Page, NoGap
    <3> QED BY <1>1, <2>5, <3>1, <3>2, <3>3, <3>4 DEF LInv, AllWritten
  <2>6. NoGap(v)' /\ Complete(v)'
    <3> HIDE DEF l
    <3> QED BY <1>2, <1>4, <2>3, <2>4, <2>5 DEF NoGap, Complete, sink, broker
  <2> QED BY <2>1, <2>2, <2>3, <2>6 DEF Page
<1>8. ChannelReclaimed'
  BY <1>2, StaysReclaimed DEF LInv, TypeOK, sink, broker
<1> QED BY <1>5, <1>6, <1>7, <1>8, OnePageKeeps

LEMMA HistoryFailsKeeps ==
  ASSUME LInv, NEW v \in Viewers, HistoryFails(v)
  PROVE  LInv'
<1>1. PICK n \in 0 .. Len(stored) :
        seen' = [seen EXCEPT ![v] = Shown(v, @, SubSeq(stored, 1, n))]
  BY DEF HistoryFails
<1> DEFINE r == SubSeq(stored, 1, n)
           t == Shown(v, seen[v], r)
<1>2. /\ r \in Seq(Frames) /\ Ascending(r) /\ ToSet(r) \subseteq ToSet(stored)
      /\ \A f \in ToSet(stored) : f[2] <= LastSeq(r) => f \in ToSet(r)
  BY PrefixFacts DEF LInv, TypeOK, SinkInOrder
<1>3. seen' = [seen EXCEPT ![v] = t]
  BY <1>1 DEF LInv, TypeOK
<1> HIDE DEF r
<1>4. /\ t \in Seq(Frames) /\ Ascending(t) /\ ToSet(t) \subseteq emitted /\ cut[v] <= LastSeq(t)
      /\ ToSet(seen[v]) \subseteq ToSet(t)
      /\ LastSeq(t) = LastSeq(seen[v]) \/ \E f \in ToSet(r) : LastSeq(t) = f[2]
      /\ ~unwritten => \A f \in ToSet(r) : f \in ToSet(t) \cup lost[v]
  BY <1>2, ShownOfStored
<1> HIDE DEF t
<1>5. /\ faults \subseteq faults' /\ faults' \subseteq Accesses /\ unwritten' = unwritten
  BY FailsFacts DEF Accesses, HistoryFails
<1>6. /\ told' = [told EXCEPT ![v] = "unread"] /\ conn' = [conn EXCEPT ![v] = "closed"]
      /\ attached' = attached \ {v} /\ queue' = [queue EXCEPT ![v] = <<>>]
      /\ conn[v] \in {"history", "replay"}
      /\ UNCHANGED <<sink, channel, missed, cut, breaks, lost>>
  BY DEF HistoryFails
<1>7. /\ seen'[v] = t /\ told'[v] = "unread" /\ conn'[v] = "closed" /\ queue'[v] = <<>>
  BY <1>3, <1>6 DEF LInv, TypeOK
<1>8. TypeOK'
  <2>1. <<>> \in Seq(Frames \cup {Terminal})
    OBVIOUS
  <2>2. queue' \in [Viewers -> Seq(Frames \cup {Terminal})]
    BY <1>6, <2>1 DEF LInv, TypeOK
  <2> QED BY <1>3, <1>4, <1>5, <1>6, <2>2 DEF LInv, TypeOK, sink, ConnPcs, Ends
<1>9. OnePage(v)
  BY <1>3, <1>5, <1>6 DEF LInv, TypeOK, sink, OnePage
<1>10. Page(v)'
  <2>1. Lines(v)'
    BY <1>4, <1>6, <1>7 DEF sink, Lines
  <2>2. Queued(v)'
    BY <1>7, EmptySet DEF Queued
  <2>3. Connected(v)' /\ NotCut(v)'
    BY <1>7 DEF Connected, NotCut
  <2>4. ASSUME ~unwritten, NEW f \in emitted, f[2] <= LastSeq(t)
        PROVE  f \in ToSet(t) \cup lost[v]
    <3>1. CASE LastSeq(t) = LastSeq(seen[v])
      BY <1>4, <2>4, <3>1 DEF LInv, Page, NoGap
    <3>2. CASE \E g \in ToSet(r) : LastSeq(t) = g[2]
      <4>1. PICK g \in ToSet(r) : LastSeq(t) = g[2]
        BY <3>2
      <4>2. g \in ToSet(stored) /\ g[2] \in Nat /\ f[2] \in Nat /\ g[2] <= LastSeq(r)
        BY <1>2, <4>1, SinkFacts, LastIsLargest
      <4>3. f \in ToSet(stored)
        <5>1. ASSUME f \in ToSet(batch)
              PROVE  FALSE
          BY <2>4, <4>1, <4>2, <5>1 DEF LInv, SinkInOrder
        <5>2. row # "gone"
          BY <4>2, EmptySet DEF LInv, JobKnown
        <5> QED BY <2>4, <5>1, <5>2 DEF LInv, AllWritten
      <4>4. f[2] <= LastSeq(r)
        BY <1>2, <2>4, <4>1, <4>2, LastSeqTyped
      <4> QED BY <1>2, <1>4, <2>4, <4>3, <4>4
    <3> QED BY <1>4, <3>1, <3>2
  <2>5. NoGap(v)' /\ Complete(v)'
    BY <1>5, <1>6, <1>7, <2>4 DEF NoGap, Complete, sink
  <2> QED BY <2>1, <2>2, <2>3, <2>5 DEF Page
<1>11. ChannelReclaimed'
  BY <1>6, StaysReclaimed DEF LInv, TypeOK, sink
<1> QED BY <1>8, <1>9, <1>10, <1>11, OnePageKeeps

(* A queue without its head is in order as the queue was.                  *)
LEMMA TailQueued ==
  ASSUME LInv, NEW v \in Viewers, queue[v] # <<>>
  PROVE  LET h == Head(queue[v])
             q == Tail(queue[v]) IN
         /\ h \in emitted \cup {Terminal} /\ q \in Seq(Frames \cup {Terminal})
         /\ ToSet(queue[v]) = {h} \cup ToSet(q)
         /\ \A m \in 1 .. Len(q) :
              q[m] = Terminal => m = Len(q) /\ job \in {"close", "done"}
         /\ ~unwritten => \A m, n \in 1 .. Len(q) :
              m < n /\ q[n] # Terminal => q[m][2] < q[n][2]
         /\ h = Terminal => job \in {"close", "done"} /\ ToSet(queue[v]) = {Terminal}
         /\ ~unwritten => \A f \in ToSet(q) : f # Terminal => h[2] < f[2]
<1> DEFINE s == queue[v]
           h == Head(s)
           q == Tail(s)
<1>1. s \in Seq(Frames \cup {Terminal}) /\ s # <<>> /\ Queued(v)
  BY DEF LInv, TypeOK, Page
<1>2. /\ ToSet(s) \subseteq emitted \cup {Terminal}
      /\ \A m \in 1 .. Len(s) :
           s[m] = Terminal => m = Len(s) /\ job \in {"close", "done"}
      /\ ~unwritten => \A m, n \in 1 .. Len(s) :
           m < n /\ s[n] # Terminal => s[m][2] < s[n][2]
  BY <1>1 DEF Queued
<1> HIDE DEF s
<1>3. /\ q \in Seq(Frames \cup {Terminal}) /\ Len(q) = Len(s) - 1 /\ Len(s) \in Nat \ {0}
      /\ \A i \in 1 .. Len(s) - 1 : q[i] = s[i + 1]
      /\ h = s[1] /\ h \in ToSet(s)
      /\ ToSet(s) = {h} \cup ToSet(q)
  BY <1>1, TailSet
<1> HIDE DEF h, q
<1>4. \A i \in 1 .. Len(q) : i + 1 \in 1 .. Len(s) /\ q[i] = s[i + 1]
  BY <1>3
<1>5. ASSUME NEW m \in 1 .. Len(q), q[m] = Terminal
      PROVE  m = Len(q) /\ job \in {"close", "done"}
  <2>1. m + 1 \in 1 .. Len(s) /\ s[m + 1] = Terminal
    BY <1>4, <1>5
  <2>2. m + 1 = Len(s) /\ job \in {"close", "done"}
    BY <1>2, <2>1
  <2> QED BY <1>3, <2>2
<1>6. ASSUME ~unwritten, NEW m \in 1 .. Len(q), NEW n \in 1 .. Len(q), m < n, q[n] # Terminal
      PROVE  q[m][2] < q[n][2]
  <2>1. m + 1 \in 1 .. Len(s) /\ n + 1 \in 1 .. Len(s) /\ m + 1 < n + 1
    BY <1>4, <1>6
  <2> QED BY <1>2, <1>4, <1>6, <2>1
<1>7. 1 \in 1 .. Len(s)
  BY <1>3
<1>8. ASSUME h = Terminal
      PROVE  job \in {"close", "done"} /\ ToSet(s) = {Terminal}
  <2>1. job \in {"close", "done"} /\ Len(s) = 1
    BY <1>2, <1>3, <1>7, <1>8
  <2>2. \A f \in ToSet(q) : FALSE
    <3>1. Len(q) = 0
      BY <1>3, <2>1
    <3>2. \A f \in ToSet(q) : \E i \in 1 .. Len(q) : f = q[i]
      BY <1>3, SeqSet
    <3> QED BY <3>1, <3>2
  <2> QED BY <1>3, <1>8, <2>1, <2>2
<1>9. ASSUME ~unwritten, NEW f \in ToSet(q), f # Terminal
      PROVE  h[2] < f[2]
  <2>1. PICK i \in 1 .. Len(q) : f = q[i]
    BY <1>3, SeqSet
  <2>2. i + 1 \in 1 .. Len(s) /\ f = s[i + 1] /\ 1 < i + 1
    BY <1>4, <2>1
  <2> QED BY <1>2, <1>3, <1>7, <1>9, <2>2
<1> QED BY <1>2, <1>3, <1>5, <1>6, <1>8, <1>9 DEF s, h, q

LEMMA SendTerminalKeeps ==
  ASSUME LInv, NEW v \in Viewers, SendLive(v), Head(queue[v]) = Terminal
  PROVE  LInv'
<1>1. /\ told' = [told EXCEPT ![v] = "terminal"] /\ conn' = [conn EXCEPT ![v] = "closed"]
      /\ attached' = attached \ {v} /\ queue' = [queue EXCEPT ![v] = <<>>]
      /\ conn[v] = "live" /\ queue[v] # <<>>
      /\ UNCHANGED <<sink, channel, missed, seen, cut, breaks, lost, faults>> /\ unwritten' = unwritten
  BY DEF SendLive, unwritten
<1>2. job \in {"close", "done"} /\ ToSet(queue[v]) = {Terminal}
  BY <1>1, TailQueued
<1>3. told'[v] = "terminal" /\ conn'[v] = "closed" /\ queue'[v] = <<>>
  BY <1>1 DEF LInv, TypeOK
<1>4. row # "open"
  BY <1>2 DEF LInv, JobKnown
<1>5. TypeOK'
  BY <1>1 DEF LInv, TypeOK, sink, ConnPcs, Ends
<1>6. OnePage(v)
  BY <1>1 DEF LInv, TypeOK, sink, OnePage
<1>7. Page(v)'
  <2>1. Lines(v)' /\ Connected(v)' /\ NotCut(v)'
    BY <1>1, <1>3, <1>4 DEF LInv, Page, Lines, Connected, NotCut, sink
  <2>2. Queued(v)'
    BY <1>3, EmptySet DEF Queued
  <2>3. ~unwritten => emitted \subseteq ToSet(seen[v]) \cup lost[v]
    BY <1>1, <1>2, SinkFacts DEF LInv, Page, NoGap
  <2>4. NoGap(v)' /\ Complete(v)'
    BY <1>1, <1>3, <2>3 DEF NoGap, Complete, sink
  <2> QED BY <2>1, <2>2, <2>4 DEF Page
<1>8. ChannelReclaimed'
  BY <1>1, StaysReclaimed DEF LInv, TypeOK, sink
<1> QED BY <1>5, <1>6, <1>7, <1>8, OnePageKeeps

LEMMA SendFrameKeeps ==
  ASSUME LInv, NEW v \in Viewers, SendLive(v), Head(queue[v]) # Terminal
  PROVE  LInv'
<1> DEFINE h == Head(queue[v])
           q == Tail(queue[v])
           t == Shown(v, seen[v], <<h>>)
<1>1. /\ seen' = [seen EXCEPT ![v] = t] /\ queue' = [queue EXCEPT ![v] = q]
      /\ conn[v] = "live" /\ queue[v] # <<>> /\ h # Terminal
      /\ UNCHANGED <<sink, channel, attached, missed, conn, told, cut, breaks, lost, faults>>
      /\ unwritten' = unwritten
  BY DEF SendLive, LInv, TypeOK, unwritten
<1>2. /\ h \in emitted /\ q \in Seq(Frames \cup {Terminal})
      /\ ToSet(queue[v]) = {h} \cup ToSet(q)
      /\ \A m \in 1 .. Len(q) : q[m] = Terminal => m = Len(q) /\ job \in {"close", "done"}
      /\ ~unwritten => \A m, n \in 1 .. Len(q) :
           m < n /\ q[n] # Terminal => q[m][2] < q[n][2]
      /\ ~unwritten => \A f \in ToSet(q) : f # Terminal => h[2] < f[2]
  BY <1>1, TailQueued
<1> HIDE DEF h, q
<1>3. h \in Frames /\ h[2] \in Nat
  BY <1>2, SinkFacts
<1>4. /\ <<h>> \in Seq(Frames) /\ ToSet(<<h>>) = {h} /\ Ascending(<<h>>)
  <2>1. <<h>> \in Seq(Frames) /\ Len(<<h>>) = 1 /\ <<h>>[1] = h
    BY <1>3
  <2>2. ToSet(<<h>>) = {h}
    BY DEF ToSet
  <2>3. Ascending(<<h>>)
    BY <2>1 DEF Ascending
  <2> QED BY <2>1, <2>2, <2>3
<1>5. /\ seen[v] \in Seq(Frames) /\ cut[v] \in Int /\ cut[v] <= LastSeq(seen[v])
      /\ Ascending(seen[v]) /\ ToSet(seen[v]) \subseteq emitted
  BY DEF LInv, TypeOK, Page, Lines
<1>6. /\ t \in Seq(Frames) /\ Ascending(t)
      /\ LastSeq(seen[v]) <= LastSeq(t)
      /\ ToSet(seen[v]) \subseteq ToSet(t)
      /\ ToSet(t) \subseteq ToSet(seen[v]) \cup {h}
      /\ LastSeq(t) = LastSeq(seen[v]) \/ LastSeq(t) = h[2]
      /\ h[2] > LastSeq(seen[v]) => h \in ToSet(t)
  <2>1. /\ t \in Seq(Frames) /\ Ascending(t)
        /\ LastSeq(seen[v]) <= LastSeq(t)
        /\ ToSet(seen[v]) \subseteq ToSet(t)
        /\ ToSet(t) \subseteq ToSet(seen[v]) \cup ToSet(<<h>>)
        /\ LastSeq(t) = LastSeq(seen[v]) \/ \E f \in ToSet(<<h>>) : LastSeq(t) = f[2]
        /\ \A f \in ToSet(<<h>>) : f[2] > LastSeq(seen[v]) => f \in ToSet(t)
    BY <1>4, <1>5, ShownFacts
  <2> HIDE DEF t
  <2> QED BY <1>4, <2>1
<1> HIDE DEF t
<1>7. LastSeq(seen[v]) \in Int /\ LastSeq(t) \in Int
  BY <1>5, <1>6, LastSeqTyped
<1>8. seen'[v] = t /\ queue'[v] = q
  BY <1>1 DEF LInv, TypeOK
<1>9. TypeOK'
  BY <1>1, <1>2, <1>6 DEF LInv, TypeOK, sink
<1>10. OnePage(v)
  BY <1>1 DEF LInv, TypeOK, sink, OnePage
<1>11. Page(v)'
  <2>1. Lines(v)'
    BY <1>1, <1>2, <1>5, <1>6, <1>7, <1>8 DEF Lines, sink
  <2>2. Queued(v)'
    <3>1. ToSet(q) \subseteq emitted \cup {Terminal}
      BY <1>2 DEF LInv, Page, Queued
    <3> QED BY <1>1, <1>2, <1>8, <3>1 DEF Queued, sink
  <2>3. Connected(v)' /\ NotCut(v)' /\ told'[v] # "terminal"
    BY <1>1 DEF LInv, Page, Connected, NotCut, sink
  <2>4. ASSUME ~unwritten
        PROVE  h \in ToSet(t) \cup lost[v]
    <3>1. CASE h[2] > LastSeq(seen[v])
      BY <1>6, <3>1
    <3>2. CASE h[2] <= LastSeq(seen[v])
      BY <1>2, <1>6, <2>4, <3>2 DEF LInv, Page, NoGap
    <3> QED BY <1>3, <1>7, <3>1, <3>2
  <2>5. ASSUME ~unwritten
        PROVE  emitted \subseteq ToSet(t) \cup lost[v] \cup ToSet(q)
    BY <1>1, <1>2, <1>6, <2>4, <2>5 DEF LInv, Page, NoGap
  <2>6. ASSUME ~unwritten, NEW f \in emitted, f[2] <= LastSeq(t)
        PROVE  f \in ToSet(t) \cup lost[v]
    <3>1. CASE LastSeq(t) = LastSeq(seen[v])
      BY <1>6, <2>6, <3>1 DEF LInv, Page, NoGap
    <3>2. CASE LastSeq(t) = h[2]
      <4>1. f \notin ToSet(q)
        <5>1. f[2] \in Nat /\ f # Terminal
          BY SinkFacts
        <5> QED BY <1>2, <1>3, <2>6, <3>2, <5>1
      <4> QED BY <2>5, <2>6, <4>1
    <3> QED BY <1>6, <3>1, <3>2
  <2>7. NoGap(v)' /\ Complete(v)'
    BY <1>1, <1>8, <2>3, <2>5, <2>6 DEF NoGap, Complete, sink
  <2> QED BY <2>1, <2>2, <2>3, <2>7 DEF Page
<1>12. ChannelReclaimed'
  BY <1>1, StaysReclaimed DEF LInv, TypeOK, sink
<1> QED BY <1>9, <1>10, <1>11, <1>12, OnePageKeeps

-----------------------------------------------------------------------------
(* The steps of the job.                                                   *)

(* A step of the job that publishes nothing.                               *)
Quiet ==
  /\ UNCHANGED <<emitted, queue, pages>>
  /\ \A v \in Viewers : lost[v] \subseteq lost'[v]
  /\ faults \subseteq faults'
  /\ row # "open" => row' # "open"
  /\ row = "gone" <=> row' = "gone"
  /\ attached' = attached \/ row' # "open"
  /\ job \in {"close", "done"} => job' \in {"close", "done"}

LEMMA QuietKeepsPages ==
  ASSUME LInv, Quiet
  PROVE  \A v \in Viewers : Page(v)'
<1> SUFFICES ASSUME NEW v \in Viewers PROVE Page(v)'
  OBVIOUS
<1>1. Page(v)
  BY DEF LInv
<1> QED BY <1>1, SamePage DEF Quiet, pages

LEMMA StartBuildKeeps ==
  ASSUME LInv, StartBuild
  PROVE  LInv'
<1>1. TypeOK'
  BY DEF LInv, TypeOK, StartBuild, broker, pages, JobPcs
<1>2. Quiet
  BY DEF StartBuild, broker, pages, Quiet
<1>3. emitted = {} /\ ToSet(stored) = {} /\ ToSet(batch) = {}
  BY SinkFacts DEF LInv, JobKnown, StartBuild
<1>4. JobKnown' /\ SinkInOrder' /\ AllWritten' /\ ChannelReclaimed' /\ SeqsAreUnique'
  BY <1>3 DEF LInv, StartBuild, JobKnown, SinkInOrder, AllWritten, ChannelReclaimed, Ascending,
              SeqsAreUnique, unwritten
<1> QED BY <1>1, <1>2, <1>4, QuietKeepsPages DEF LInv

LEMMA StartRunKeeps ==
  ASSUME LInv, StartRun
  PROVE  LInv'
<1>1. batch = <<>> /\ ToSet(batch) = {} /\ stored \in Seq(Frames) /\ Ascending(stored)
  BY EmptySet DEF LInv, TypeOK, JobKnown, SinkInOrder, StartRun
<1>2. /\ nextSeq' = LastSeq(stored) + 1
      /\ nextSeq' \in Nat
  BY <1>1, LastSeqTyped DEF StartRun, LastSeq
<1>3. \A f \in ToSet(stored) : f[2] < nextSeq'
  BY <1>1, <1>2, LastIsLargest, LastSeqTyped, SinkFacts
<1>4. TypeOK'
  BY <1>2 DEF LInv, TypeOK, StartRun, broker, pages, JobPcs
<1>5. Quiet
  BY DEF StartRun, broker, pages, Quiet
<1>6. JobKnown' /\ AllWritten' /\ ChannelReclaimed' /\ SeqsAreUnique'
  BY <1>1 DEF LInv, TypeOK, StartRun, JobKnown, AllWritten, ChannelReclaimed, SeqsAreUnique,
              unwritten
<1>7. SinkInOrder'
  BY <1>1, <1>3 DEF LInv, StartRun, SinkInOrder, Ascending
<1> QED BY <1>4, <1>5, <1>6, <1>7, QuietKeepsPages DEF LInv

(* The end of the build and the three ways a job ends, the broker apart.   *)
LEMMA MovesOnKeeps ==
  ASSUME LInv, BuildAdvances \/ FinalizeRow \/ CancelWaiting \/ FinalizeBroker
  PROVE  LInv'
<1>1. TypeOK'
  BY DEF LInv, TypeOK, BuildAdvances, FinalizeRow, CancelWaiting, FinalizeBroker, CloseChannel,
         broker, pages, JobPcs
<1>2. Quiet
  BY DEF LInv, TypeOK, JobKnown, BuildAdvances, FinalizeRow, CancelWaiting, FinalizeBroker,
         CloseChannel, broker, pages, Quiet
<1>3. UNCHANGED <<emitted, nextSeq, batch, stored, faults>> /\ unwritten' = unwritten
  BY DEF BuildAdvances, FinalizeRow, CancelWaiting, FinalizeBroker, unwritten
<1>4. JobKnown'
  BY DEF LInv, JobKnown, BuildAdvances, FinalizeRow, CancelWaiting, FinalizeBroker
<1>5. job' \notin {"building", "running"} /\ (job' = "done" => ~channel')
  BY DEF BuildAdvances, FinalizeRow, CancelWaiting, FinalizeBroker, CloseChannel
<1>6. SinkInOrder' /\ AllWritten' /\ ChannelReclaimed' /\ SeqsAreUnique'
  BY <1>2, <1>3, <1>5
  DEF LInv, SinkInOrder, AllWritten, ChannelReclaimed, SeqsAreUnique, Ascending, Quiet
<1> QED BY <1>1, <1>2, <1>4, <1>6, QuietKeepsPages DEF LInv

(* A purge takes what is stored: no page is promised more of it than it    *)
(* shows or its receiver holds.                                            *)
LEMMA PurgeKeeps ==
  ASSUME LInv, Purge
  PROVE  LInv'
<1>1. /\ job \notin {"building", "awaiting_board", "running"} /\ row' = "gone" /\ stored' = <<>>
      /\ lost' = [v \in Viewers |->
                    lost[v] \cup (ToSet(stored) \ (ToSet(seen[v]) \cup Held(v)))]
      /\ row \in {"open", "over"} /\ unwritten' = unwritten
      /\ UNCHANGED <<job, emitted, nextSeq, batch, broker, pages, faults>>
  BY DEF LInv, TypeOK, Purge, unwritten
<1>2. batch = <<>> /\ batch' = <<>> /\ ToSet(batch) = {} /\ ToSet(stored') = {}
  BY <1>1, EmptySet DEF LInv, JobKnown
<1>3. TypeOK'
  <2>1. stored' \in Seq(Frames)
    BY <1>1
  <2>2. lost' \in [Viewers -> SUBSET (Frames \cup {Terminal})]
    BY <1>1, SinkFacts DEF LInv, TypeOK
  <2> QED BY <1>1, <2>1, <2>2 DEF LInv, TypeOK, broker, pages
<1>4. JobKnown' /\ SinkInOrder' /\ AllWritten' /\ ChannelReclaimed' /\ SeqsAreUnique'
  <2>1. JobKnown'
    BY <1>1, <1>2 DEF LInv, TypeOK, JobPcs, JobKnown
  <2>2. SinkInOrder'
    BY <1>1, <1>2, EmptySet DEF SinkInOrder
  <2> QED
    BY <1>1, <2>1, <2>2
    DEF LInv, AllWritten, ChannelReclaimed, SeqsAreUnique, broker, pages
<1>5. ASSUME NEW v \in Viewers
      PROVE  Page(v)'
  <2>1. lost[v] \subseteq lost'[v]
    BY <1>1
  <2>2. Lines(v)' /\ Queued(v)' /\ Connected(v)' /\ NotCut(v)'
    BY <1>1 DEF LInv, Page, Lines, Queued, Connected, NotCut, broker, pages
  <2>3. ASSUME ~unwritten, conn[v] \in {"drop", "replay"}
        PROVE  emitted \subseteq ToSet(seen[v]) \cup lost'[v]
    <3>1. emitted \subseteq ToSet(stored)
      BY <1>1, <1>2, <2>3 DEF LInv, AllWritten
    <3>2. lost'[v] = lost[v] \cup (ToSet(stored) \ ToSet(seen[v]))
      BY <1>1, <2>3 DEF Held
    <3> QED BY <3>1, <3>2
  <2>4. NoGap(v)' /\ Complete(v)'
    BY <1>1, <2>1, <2>3 DEF LInv, Page, NoGap, Complete, broker, pages
  <2> QED BY <2>2, <2>4 DEF Page
<1> QED BY <1>3, <1>4, <1>5 DEF LInv

LEMMA ConcatAscends ==
  ASSUME NEW s \in Seq(Frames), NEW t \in Seq(Frames), Ascending(s), Ascending(t),
         \A f \in ToSet(s), g \in ToSet(t) : f[2] < g[2]
  PROVE  Ascending(s \o t)
<1> DEFINE u == s \o t
<1>1. /\ Len(s) \in Nat /\ Len(t) \in Nat /\ Len(u) = Len(s) + Len(t)
      /\ \A i \in 1 .. Len(s) + Len(t) : u[i] = IF i <= Len(s) THEN s[i] ELSE t[i - Len(s)]
  BY ConcatSet
<1> HIDE DEF u
<1>2. ASSUME NEW m \in 1 .. Len(s) + Len(t), NEW n \in 1 .. Len(s) + Len(t), m < n
      PROVE  u[m][2] < u[n][2]
  <2>1. CASE n <= Len(s)
    <3>1. m \in 1 .. Len(s) /\ n \in 1 .. Len(s) /\ u[m] = s[m] /\ u[n] = s[n]
      BY <1>1, <1>2, <2>1
    <3> QED BY <1>2, <3>1 DEF Ascending
  <2>2. CASE m <= Len(s) /\ n > Len(s)
    <3>1. /\ m \in 1 .. Len(s) /\ n - Len(s) \in 1 .. Len(t)
          /\ u[m] = s[m] /\ u[n] = t[n - Len(s)]
      BY <1>1, <1>2, <2>2
    <3>2. u[m] \in ToSet(s) /\ u[n] \in ToSet(t)
      BY <3>1, SeqSet
    <3> QED BY <3>2
  <2>3. CASE m > Len(s)
    <3>1. /\ m - Len(s) \in 1 .. Len(t) /\ n - Len(s) \in 1 .. Len(t)
          /\ m - Len(s) < n - Len(s) /\ u[m] = t[m - Len(s)] /\ u[n] = t[n - Len(s)]
      BY <1>1, <1>2, <2>3
    <3> QED BY <3>1 DEF Ascending
  <2> QED BY <1>1, <1>2, <2>1, <2>2, <2>3
<1>3. Ascending(u)
  BY <1>1, <1>2 DEF Ascending
<1> QED BY <1>3 DEF u

LEMMA FlushKeeps ==
  ASSUME LInv, Flush
  PROVE  LInv'
<1>0. /\ job \in {"building", "running"} /\ batch' = <<>> /\ ToSet(batch') = {}
      /\ Ascending(batch') /\ <<>> \in Seq(Frames) /\ Len(<<>>) = 0
      /\ UNCHANGED <<job, row, emitted, nextSeq, broker, pages>>
      /\ row = "open"
  BY EmptySet DEF LInv, TypeOK, JobKnown, Flush
<1>1. JobKnown' /\ ChannelReclaimed'
  BY <1>0 DEF LInv, JobKnown, ChannelReclaimed
<1>2. CASE stored' = stored \o batch /\ UNCHANGED <<lost, faults>>
  <2>0. unwritten' = unwritten
    BY <1>2 DEF unwritten
  <2>1. stored \in Seq(Frames) /\ batch \in Seq(Frames)
    BY DEF LInv, TypeOK
  <2>2. stored' \in Seq(Frames) /\ ToSet(stored') = ToSet(stored) \cup ToSet(batch)
    BY <1>2, <2>1, ConcatSet
  <2>3. Ascending(stored')
    BY <1>2, <2>1, ConcatAscends DEF LInv, SinkInOrder
  <2>4. TypeOK'
    BY <1>0, <1>2, <2>2, LogStreamAssumption DEF LInv, TypeOK, broker, pages
  <2>5. Quiet
    BY <1>0, <1>2 DEF Quiet, broker, pages
  <2>6. SinkInOrder' /\ AllWritten' /\ SeqsAreUnique'
    BY <1>0, <2>0, <2>2, <2>3 DEF LInv, SinkInOrder, AllWritten, SeqsAreUnique
  <2> QED BY <1>1, <2>4, <2>5, <2>6, QuietKeepsPages DEF LInv
<1>3. CASE /\ UNCHANGED stored
           /\ Fails("write")
           /\ lost' = [v \in Viewers |-> lost[v] \cup
                         IF v \in attached THEN {} ELSE ToSet(batch)]
  <2>0. faults \subseteq faults' /\ faults' \subseteq Accesses /\ unwritten'
    BY <1>3, FailsFacts DEF Accesses, unwritten
  <2>1. TypeOK'
    <3>1. lost' \in [Viewers -> SUBSET (Frames \cup {Terminal})]
      BY <1>3, SinkFacts DEF LInv, TypeOK
    <3> QED BY <1>0, <1>3, <2>0, <3>1, LogStreamAssumption DEF LInv, TypeOK, broker, pages
  <2>2. Quiet
    BY <1>0, <1>3, <2>0 DEF Quiet, broker, pages
  <2>3. SinkInOrder' /\ AllWritten' /\ SeqsAreUnique'
    BY <1>0, <1>3, <2>0 DEF LInv, SinkInOrder, AllWritten, SeqsAreUnique, Ascending
  <2> QED BY <1>1, <2>1, <2>2, <2>3, QuietKeepsPages DEF LInv
<1> QED BY <1>2, <1>3 DEF Flush

(* What publishing e does to the queue of v.                               *)
LEMMA Published ==
  ASSUME LInv, NEW e \in Frames \cup {Terminal}, Publish(e), NEW v \in Viewers
  PROVE  \/ /\ v \notin attached /\ queue'[v] = queue[v]
            /\ lost'[v] = lost[v] \cup IF conn[v] = "live" THEN {e} ELSE {}
         \/ /\ v \in attached
            /\ \E s \in Seq(Frames \cup {Terminal}) :
                 /\ queue'[v] = Append(s, e)
                 /\ \/ s = queue[v] /\ lost'[v] = lost[v]
                    \/ /\ queue[v] # <<>> /\ s = Tail(queue[v])
                       /\ lost'[v] = lost[v] \cup {Head(queue[v])}
<1>1. queue[v] \in Seq(Frames \cup {Terminal}) /\ Capacity \in Nat \ {0}
  BY LogStreamAssumption DEF LInv, TypeOK
<1>2. CASE v \notin attached
  BY <1>2 DEF Publish
<1>3. CASE v \in attached /\ Len(queue[v]) = Capacity
  <2>1. queue[v] # <<>>
    BY <1>1, <1>3
  <2>2. Tail(queue[v]) \in Seq(Frames \cup {Terminal})
    BY <1>1, <2>1
  <2>3. /\ queue'[v] = Append(Tail(queue[v]), e)
        /\ lost'[v] = lost[v] \cup {Head(queue[v])}
    BY <1>3 DEF Publish
  <2> QED BY <1>3, <2>1, <2>2, <2>3
<1>4. CASE v \in attached /\ Len(queue[v]) # Capacity
  BY <1>1, <1>4 DEF Publish
<1> QED BY <1>2, <1>3, <1>4

LEMMA PublishTyped ==
  ASSUME LInv, NEW e \in Frames \cup {Terminal}, Publish(e)
  PROVE  /\ queue' \in [Viewers -> Seq(Frames \cup {Terminal})]
         /\ missed' \in [Viewers -> Nat]
         /\ lost' \in [Viewers -> SUBSET (Frames \cup {Terminal})]
         /\ UNCHANGED <<channel, attached>>
<1>1. ASSUME NEW v \in Viewers
      PROVE  /\ queue'[v] \in Seq(Frames \cup {Terminal})
             /\ lost'[v] \in SUBSET (Frames \cup {Terminal})
  <2>1. queue[v] \in Seq(Frames \cup {Terminal}) /\ lost[v] \in SUBSET (Frames \cup {Terminal})
    BY DEF LInv, TypeOK
  <2>2. queue[v] # <<>> => Head(queue[v]) \in Frames \cup {Terminal}
    BY <2>1
  <2>3. \A s \in Seq(Frames \cup {Terminal}) : Append(s, e) \in Seq(Frames \cup {Terminal})
    OBVIOUS
  <2>4. queue'[v] \in Seq(Frames \cup {Terminal})
    <3>1. \/ queue'[v] = queue[v]
          \/ \E s \in Seq(Frames \cup {Terminal}) : queue'[v] = Append(s, e)
      BY Published
    <3> QED BY <2>1, <2>3, <3>1
  <2>5. lost'[v] \in SUBSET (Frames \cup {Terminal})
    BY <2>1, <2>2, Published
  <2> QED BY <2>4, <2>5
<1>2. \A v \in Viewers : missed[v] + 1 \in Nat /\ missed[v] + 0 \in Nat
  BY DEF LInv, TypeOK
<1>3. missed' \in [Viewers -> Nat]
  BY <1>2 DEF Publish
<1> QED BY <1>1, <1>3 DEF Publish

(* An event published after everything queued: the queue stays in order,   *)
(* and what is neither in it nor lost was not before.                      *)
LEMMA PublishQueued ==
  ASSUME LInv, NEW e \in Frames \cup {Terminal}, Publish(e), NEW v \in Viewers,
         emitted' = emitted \cup ({e} \ {Terminal}), unwritten' = unwritten,
         job \notin {"close", "done"}, e = Terminal => job' = "close",
         e # Terminal /\ ~unwritten => \A f \in emitted : f[2] < e[2]
  PROVE  /\ Queued(v)'
         /\ lost[v] \subseteq lost'[v]
         /\ ToSet(queue[v]) \subseteq ToSet(queue'[v]) \cup lost'[v]
         /\ conn[v] = "live" => e \in ToSet(queue'[v]) \cup lost'[v]
<1>1. /\ queue[v] \in Seq(Frames \cup {Terminal}) /\ Terminal \notin ToSet(queue[v])
      /\ ToSet(queue[v]) \subseteq emitted
  <2>1. queue[v] \in Seq(Frames \cup {Terminal})
    BY DEF LInv, TypeOK
  <2>2. /\ ToSet(queue[v]) \subseteq emitted \cup {Terminal}
        /\ \A m \in 1 .. Len(queue[v]) : queue[v][m] # Terminal
    BY DEF LInv, Page, Queued
  <2>3. Terminal \notin ToSet(queue[v])
    BY <2>1, <2>2, SeqSet
  <2> QED BY <2>1, <2>2, <2>3
<1>2. CASE v \notin attached
  <2>1. /\ queue'[v] = queue[v] /\ lost[v] \subseteq lost'[v]
        /\ conn[v] = "live" => e \in lost'[v]
    BY <1>2, Published
  <2>2. Queued(v)'
    BY <1>1, <2>1, SeqSet DEF LInv, Page, Queued
  <2> QED BY <1>2, <2>1, <2>2
<1>3. CASE v \in attached
  <2>1. PICK s \in Seq(Frames \cup {Terminal}) :
          /\ queue'[v] = Append(s, e)
          /\ \/ s = queue[v] /\ lost'[v] = lost[v]
             \/ /\ queue[v] # <<>> /\ s = Tail(queue[v])
                /\ lost'[v] = lost[v] \cup {Head(queue[v])}
    BY <1>3, Published
  <2>2. /\ ToSet(s) \subseteq ToSet(queue[v]) /\ ToSet(queue[v]) \subseteq ToSet(s) \cup lost'[v]
        /\ ~unwritten => \A m, n \in 1 .. Len(s) : m < n => s[m][2] < s[n][2]
    <3>1. CASE s = queue[v]
      BY <1>1, <3>1, SeqSet DEF LInv, Page, Queued
    <3>2. CASE /\ queue[v] # <<>> /\ s = Tail(queue[v])
               /\ lost'[v] = lost[v] \cup {Head(queue[v])}
      <4>1. /\ ToSet(queue[v]) = {Head(queue[v])} \cup ToSet(s)
            /\ ~unwritten => \A m, n \in 1 .. Len(s) :
                 m < n /\ s[n] # Terminal => s[m][2] < s[n][2]
        BY <3>2, TailQueued
      <4>2. \A n \in 1 .. Len(s) : s[n] # Terminal
        BY <1>1, <4>1, SeqSet
      <4> QED BY <3>2, <4>1, <4>2
    <3> QED BY <2>1, <3>1, <3>2
  <2>3. /\ Len(s) \in Nat /\ Len(Append(s, e)) = Len(s) + 1
        /\ \A i \in 1 .. Len(s) : Append(s, e)[i] = s[i] /\ s[i] \in ToSet(s)
        /\ Append(s, e)[Len(s) + 1] = e
        /\ ToSet(Append(s, e)) = ToSet(s) \cup {e}
    BY AppendSet, SeqSet
  <2> DEFINE q == Append(s, e)
  <2> HIDE DEF q
  <2>4. /\ Len(q) = Len(s) + 1 /\ ToSet(q) = ToSet(s) \cup {e} /\ queue'[v] = q
        /\ \A i \in 1 .. Len(q) : (i \in 1 .. Len(s) /\ q[i] = s[i] /\ s[i] \in ToSet(s))
                                  \/ (i = Len(q) /\ q[i] = e)
    BY <2>1, <2>3 DEF q
  <2>5. ToSet(q) \subseteq emitted' \cup {Terminal}
    BY <1>1, <2>2, <2>4
  <2>6. ASSUME NEW m \in 1 .. Len(q), q[m] = Terminal
        PROVE  m = Len(q) /\ job' \in {"close", "done"}
    BY <1>1, <2>2, <2>4, <2>6
  <2>7. ASSUME ~unwritten, NEW m \in 1 .. Len(q), NEW n \in 1 .. Len(q), m < n, q[n] # Terminal
        PROVE  q[m][2] < q[n][2]
    <3>1. m \in 1 .. Len(s) /\ q[m] = s[m] /\ s[m] \in emitted
      BY <1>1, <2>2, <2>3, <2>4, <2>7
    <3>2. CASE n \in 1 .. Len(s) /\ q[n] = s[n]
      BY <2>2, <2>7, <3>1, <3>2
    <3>3. CASE q[n] = e
      BY <2>7, <3>1, <3>3
    <3> QED BY <2>4, <3>2, <3>3
  <2>8. Queued(v)'
    BY <2>4, <2>5, <2>6, <2>7 DEF Queued
  <2>9. lost[v] \subseteq lost'[v]
    BY <2>1
  <2> QED BY <2>2, <2>4, <2>8, <2>9
<1> QED BY <1>2, <1>3

LEMMA PublishTerminalKeeps ==
  ASSUME LInv, PublishTerminal
  PROVE  LInv'
<1>1. /\ job = "publish" /\ job' = "close" /\ Publish(Terminal)
      /\ UNCHANGED <<row, emitted, nextSeq, batch, stored, pages, faults>>
      /\ unwritten' = unwritten
      /\ Terminal \in Frames \cup {Terminal}
  BY DEF PublishTerminal, unwritten
<1>2. TypeOK'
  BY <1>1, PublishTyped DEF LInv, TypeOK, pages, JobPcs
<1>3. JobKnown' /\ SinkInOrder' /\ AllWritten' /\ ChannelReclaimed' /\ SeqsAreUnique'
  BY <1>1
  DEF LInv, JobKnown, SinkInOrder, AllWritten, ChannelReclaimed, SeqsAreUnique, Ascending
<1>4. ASSUME NEW v \in Viewers
      PROVE  Page(v)'
  <2>1. emitted' = emitted \cup ({Terminal} \ {Terminal})
    BY <1>1
  <2>2. /\ Queued(v)' /\ lost[v] \subseteq lost'[v]
        /\ ToSet(queue[v]) \subseteq ToSet(queue'[v]) \cup lost'[v]
    BY <1>1, <2>1, PublishQueued
  <2>3. Lines(v)' /\ Connected(v)' /\ NotCut(v)'
    BY <1>1, PublishTyped DEF LInv, Page, Lines, Connected, NotCut, pages
  <2>4. NoGap(v)' /\ Complete(v)'
    BY <1>1, <2>2 DEF LInv, Page, NoGap, Complete, pages
  <2> QED BY <2>2, <2>3, <2>4 DEF Page
<1> QED BY <1>2, <1>3, <1>4 DEF LInv

LEMMA PushKeeps ==
  ASSUME LInv, Push
  PROVE  LInv'
<1> DEFINE f == <<Phase, nextSeq>>
<1>1. /\ job \in {"building", "running"} /\ Len(batch) < BatchMax
      /\ emitted' = emitted \cup {f} /\ batch' = Append(batch, f) /\ Publish(f)
      /\ nextSeq' = nextSeq + 1
      /\ UNCHANGED <<job, row, stored, pages, faults>> /\ unwritten' = unwritten
  BY DEF Push, unwritten
<1>2. /\ f \in Frames /\ f # Terminal /\ f[1] = Phase /\ f[2] = nextSeq /\ nextSeq \in Nat
      /\ batch \in Seq(Frames) /\ stored \in Seq(Frames)
      /\ f[1] = IF job = "building" THEN "build" ELSE "run"
  BY DEF LInv, TypeOK, Phase, Frames, Terminal
<1> HIDE DEF f
<1>3. row = "open" /\ \A g \in ToSet(stored) \cup ToSet(batch) : g[2] < nextSeq
  BY <1>1 DEF LInv, TypeOK, JobKnown, SinkInOrder
<1>4. ~unwritten => \A g \in emitted : g[2] < f[2]
  BY <1>2, <1>3 DEF LInv, AllWritten
<1>5. batch' \in Seq(Frames) /\ Len(batch') <= BatchMax /\ ToSet(batch') = ToSet(batch) \cup {f}
  <2>1. Len(batch) \in Nat /\ Len(batch') = Len(batch) + 1
    BY <1>1, <1>2
  <2> QED BY <1>1, <1>2, <2>1, AppendSet, LogStreamAssumption
<1>6. Ascending(batch')
  <2>1. f[2] > LastSeq(batch)
    <3>1. CASE batch = <<>>
      BY <1>2, <3>1, EmptySet
    <3>2. CASE batch # <<>>
      BY <1>2, <1>3, <3>2, LastSeqTyped
    <3> QED BY <3>1, <3>2
  <2>2. Ascending(batch)
    BY DEF LInv, SinkInOrder
  <2>3. Ascending(Append(batch, f))
    BY <1>2, <2>1, <2>2, AppendAscends
  <2> QED BY <1>1, <2>3
<1>7. TypeOK'
  <2>1. /\ queue' \in [Viewers -> Seq(Frames \cup {Terminal})]
        /\ missed' \in [Viewers -> Nat]
        /\ lost' \in [Viewers -> SUBSET (Frames \cup {Terminal})]
        /\ UNCHANGED <<channel, attached>>
    BY <1>1, <1>2, PublishTyped
  <2>2. emitted' \subseteq Frames /\ nextSeq' \in Nat
    BY <1>1, <1>2 DEF LInv, TypeOK
  <2> QED BY <1>1, <1>5, <2>1, <2>2 DEF LInv, TypeOK, pages
<1>8. JobKnown' /\ ChannelReclaimed'
  BY <1>1, <1>2 DEF LInv, JobKnown, ChannelReclaimed
<1>9. SinkInOrder'
  <2>1. \A g \in ToSet(stored) \cup ToSet(batch') : g[2] < nextSeq' /\ g \in emitted'
    <3>1. \A g \in ToSet(stored) \cup ToSet(batch) : g[2] \in Nat /\ g \in emitted
      BY SinkFacts
    <3> QED BY <1>1, <1>2, <1>3, <1>5, <3>1
  <2>2. \A g \in ToSet(stored), h \in ToSet(batch') : g[2] < h[2]
    BY <1>2, <1>3, <1>5 DEF LInv, SinkInOrder
  <2>3. Ascending(stored)
    BY DEF LInv, SinkInOrder
  <2>4. stored' = stored /\ ToSet(stored') = ToSet(stored)
    BY <1>1
  <2> QED BY <1>1, <1>6, <2>1, <2>2, <2>3, <2>4 DEF SinkInOrder
<1>10. AllWritten'
  <2>1. ASSUME ~unwritten, NEW g \in emitted', NEW h \in emitted', g[1] = "build", h[1] = "run"
        PROVE  g[2] < h[2]
    <3>1. CASE job = "building"
      <4>1. \A x \in emitted' : x[1] = "build"
        BY <1>1, <1>2, <3>1 DEF LInv, JobKnown
      <4> QED BY <2>1, <4>1
    <3>2. CASE job = "running"
      <4>1. g \in emitted
        BY <1>1, <1>2, <2>1, <3>2
      <4>2. CASE h = f
        BY <1>4, <2>1, <4>1, <4>2
      <4>3. CASE h \in emitted
        BY <2>1, <4>1, <4>3 DEF LInv, AllWritten
      <4> QED BY <1>1, <4>2, <4>3
    <3> QED BY <1>1, <3>1, <3>2
  <2>2. ~unwritten => emitted' \subseteq ToSet(stored) \cup ToSet(batch')
    BY <1>1, <1>3, <1>5 DEF LInv, AllWritten
  <2>3. unwritten' = unwritten /\ ToSet(stored') = ToSet(stored)
    BY <1>1
  <2> QED BY <2>1, <2>2, <2>3 DEF AllWritten
<1>11. SeqsAreUnique'
  BY <1>1, <1>2, <1>4, SinkFacts DEF LInv, SeqsAreUnique
<1>12. ASSUME NEW v \in Viewers
       PROVE  Page(v)'
  <2>1. emitted' = emitted \cup ({f} \ {Terminal}) /\ f \in Frames \cup {Terminal}
    BY <1>1, <1>2
  <2>2. /\ Queued(v)' /\ lost[v] \subseteq lost'[v]
        /\ ToSet(queue[v]) \subseteq ToSet(queue'[v]) \cup lost'[v]
        /\ conn[v] = "live" => f \in ToSet(queue'[v]) \cup lost'[v]
    BY <1>1, <1>2, <1>4, <2>1, PublishQueued
  <2>3. Lines(v)' /\ Connected(v)' /\ NotCut(v)' /\ told[v] # "terminal"
    BY <1>1, <1>2, <1>3, PublishTyped DEF LInv, Page, Lines, Connected, NotCut, pages
  <2>4. ASSUME ~unwritten
        PROVE  f[2] > LastSeq(seen[v])
    <3>1. seen[v] \in Seq(Frames) /\ ToSet(seen[v]) \subseteq emitted
      BY DEF LInv, TypeOK, Page, Lines
    <3> QED BY <1>2, <1>4, <2>4, <3>1, LastSeqTyped DEF LastSeq
  <2>5. ASSUME ~unwritten, NEW g \in emitted', g[2] <= LastSeq(seen[v])
        PROVE  g \in ToSet(seen[v]) \cup lost'[v]
    <3>1. g # f
      BY <1>2, <2>4, <2>5, SinkFacts
    <3> QED BY <1>1, <2>2, <2>5, <3>1 DEF LInv, Page, NoGap
  <2>6. ASSUME ~unwritten, conn[v] = "live"
        PROVE  emitted' \subseteq ToSet(seen[v]) \cup lost'[v] \cup ToSet(queue'[v])
    BY <1>1, <2>2, <2>6 DEF LInv, Page, NoGap
  <2>7. NoGap(v)' /\ Complete(v)'
    BY <1>1, <1>3, <2>3, <2>5, <2>6 DEF NoGap, Complete, pages
  <2> QED BY <2>2, <2>3, <2>7 DEF Page
<1> QED BY <1>7, <1>8, <1>9, <1>10, <1>11, <1>12 DEF LInv

-----------------------------------------------------------------------------
(* The theorems.                                                           *)

LEMMA LogInit ==
  ASSUME Init
  PROVE  LInv
<1>1. TypeOK
  <2>1. BatchMax \in Nat
    BY LogStreamAssumption
  <2>2. batch \in Seq(Frames) /\ Len(batch) <= BatchMax /\ stored \in Seq(Frames)
    BY <2>1 DEF Init
  <2>3. /\ queue \in [Viewers -> Seq(Frames \cup {Terminal})]
        /\ missed \in [Viewers -> Nat]
        /\ seen \in [Viewers -> Seq(Frames)]
        /\ cut \in [Viewers -> Nat \cup {-1}]
    BY DEF Init
  <2>4. /\ conn \in [Viewers -> ConnPcs]
        /\ told \in [Viewers -> {"open"} \cup Ends]
        /\ lost \in [Viewers -> SUBSET (Frames \cup {Terminal})]
    BY DEF Init, ConnPcs
  <2>5. /\ job \in JobPcs /\ row \in {"open", "over", "gone"}
        /\ emitted \subseteq Frames /\ nextSeq \in Nat
        /\ channel \in BOOLEAN /\ attached \subseteq Viewers
        /\ breaks \in Nat /\ faults \subseteq Accesses
    BY DEF Init, JobPcs
  <2> QED BY <2>2, <2>3, <2>4, <2>5 DEF TypeOK
<1>2. JobKnown /\ SinkInOrder /\ AllWritten /\ ChannelReclaimed /\ SeqsAreUnique
  BY EmptySet DEF Init, JobKnown, SinkInOrder, AllWritten, ChannelReclaimed, SeqsAreUnique
<1>3. ASSUME NEW v \in Viewers
      PROVE  Page(v)
  <2>1. seen[v] = <<>> /\ queue[v] = <<>> /\ cut[v] = -1 /\ conn[v] = "seed" /\ told[v] = "open"
    BY DEF Init
  <2>2. emitted = {}
    BY DEF Init
  <2> QED
    BY <2>1, <2>2, EmptySet DEF Page, Lines, Queued, Connected, NoGap, Complete, NotCut
<1> QED BY <1>1, <1>2, <1>3 DEF LInv

LEMMA LogStep ==
  ASSUME LInv, [Next]_vars
  PROVE  LInv'
<1>1. ASSUME JobStep \/ CancelWaiting \/ Purge
      PROVE  LInv'
  BY <1>1, PurgeKeeps, StartBuildKeeps, StartRunKeeps, PushKeeps, FlushKeeps, MovesOnKeeps,
     PublishTerminalKeeps DEF JobStep
<1>2. ASSUME NEW v \in Viewers, PageStep(v) \/ Break(v)
      PROVE  LInv'
  <2>1. CASE SendLive(v)
    BY <2>1, SendTerminalKeeps, SendFrameKeeps
  <2> QED
    BY <1>2, <2>1, SeedKeeps, ReadRowKeeps, SubscribeKeeps, RecheckKeeps, DropChannelKeeps,
       ReplayKeeps, SendHistoryKeeps, HistoryFailsKeeps, SendLaggedKeeps, SendEndKeeps, BreakKeeps
    DEF PageStep
<1>3. ASSUME UNCHANGED vars
      PROVE  LInv'
  <2>1. UNCHANGED <<sink, broker, pages, lost, faults>>
    BY <1>3 DEF vars
  <2>2. TypeOK'
    BY <2>1 DEF LInv, sink, broker, pages, TypeOK
  <2>3. JobKnown' /\ SinkInOrder' /\ AllWritten' /\ SeqsAreUnique' /\ ChannelReclaimed'
    BY <2>1 DEF LInv, sink, broker, pages, JobKnown, SinkInOrder, AllWritten, SeqsAreUnique,
                ChannelReclaimed, Ascending, unwritten
  <2>4. Quiet
    BY <2>1 DEF Quiet, sink, broker, pages
  <2> QED BY <2>2, <2>3, <2>4, QuietKeepsPages DEF LInv
<1> QED BY <1>1, <1>2, <1>3 DEF Next

(* The log keeps its invariant, whatever the number of viewers, frames,    *)
(* broken connections and failing writes and reads, the sizes of the       *)
(* batch, the channel and the seed, and whenever the job is purged.        *)
THEOREM LogInvariance == Spec => []LInv
<1>1. Init => LInv
  BY LogInit
<1>2. LInv /\ [Next]_vars => LInv'
  BY LogStep
<1> QED BY <1>1, <1>2, PTL DEF Spec

(* Every variable of the log keeps its type, and no batch outgrows         *)
(* BATCH_MAX.                                                              *)
THEOREM LogTypes == Spec => []TypeOK
<1>1. LInv => TypeOK
  BY DEF LInv
<1> QED BY <1>1, LogInvariance, PTL

(* While every batch is written, a page that was told the outcome shows    *)
(* every frame of the job but those that were dropped by a full channel,   *)
(* published and unwritten when its history was read, purged before it, or *)
(* published after another viewer closed the channel.                      *)
THEOREM NothingElseIsEverLost == Spec => []NothingElseIsLost
<1>1. LInv => NothingElseIsLost
  BY DEF LInv, Page, Complete, NothingElseIsLost
<1> QED BY <1>1, LogInvariance, PTL

(* A page shows its lines once each, by seq, and in the order they were    *)
(* emitted while every batch is written.                                   *)
THEOREM PagesStayInOrder == Spec => []PageInOrder
<1>1. ASSUME LInv, NEW v \in Viewers, NEW m \in DOMAIN seen[v], NEW n \in DOMAIN seen[v], m < n
      PROVE  /\ seen[v][m][2] < seen[v][n][2]
             /\ seen[v][m][1] = "run" /\ seen[v][n][1] = "build" => unwritten
  <2>1. /\ seen[v] \in Seq(Frames) /\ Ascending(seen[v]) /\ ToSet(seen[v]) \subseteq emitted
        /\ DOMAIN seen[v] = 1 .. Len(seen[v])
    BY <1>1 DEF LInv, TypeOK, Page, Lines
  <2>2. seen[v][m][2] < seen[v][n][2]
    BY <1>1, <2>1 DEF Ascending
  <2>3. seen[v][m] \in emitted /\ seen[v][n] \in emitted
    BY <2>1, SeqSet
  <2>4. seen[v][m][2] \in Nat /\ seen[v][n][2] \in Nat
    BY <1>1, <2>3, SinkFacts
  <2>5. ASSUME ~unwritten, seen[v][m][1] = "run", seen[v][n][1] = "build"
        PROVE  FALSE
    <3>1. seen[v][n][2] < seen[v][m][2]
      BY <1>1, <2>3, <2>5 DEF LInv, AllWritten
    <3> QED BY <2>2, <2>4, <3>1
  <2> QED BY <2>2, <2>5
<1>2. LInv => PageInOrder
  BY <1>1 DEF PageInOrder
<1> QED BY <1>2, LogInvariance, PTL

(* Two frames of a job never share a seq while every batch is written,     *)
(* though the build and the run count apart.                               *)
THEOREM SeqsStayUnique == Spec => []SeqsAreUnique
<1>1. LInv => SeqsAreUnique
  BY DEF LInv
<1> QED BY <1>1, LogInvariance, PTL

(* The channel of a finalized job that nobody is about to look at again    *)
(* has been dropped: a late subscriber that made it anew removes it.       *)
THEOREM ChannelsAreReclaimed == Spec => []ChannelReclaimed
<1>1. LInv => ChannelReclaimed
  BY DEF LInv
<1> QED BY <1>1, LogInvariance, PTL

(* No page is told that its live stream ended before the job did, unless   *)
(* the job was purged, the second look at its row failed for some viewer,  *)
(* whose failure closes the channel of all, or its outcome could not be    *)
(* read: neither late viewers nor breaking connections, failing writes and *)
(* failing reads of the history cut a stream that another page follows.    *)
THEOREM StreamsAreNeverCut == Spec => []NeverCutShort
<1>1. LInv => NeverCutShort
  BY DEF LInv, Page, NotCut, NeverCutShort
<1> QED BY <1>1, LogInvariance, PTL
================================================================================
