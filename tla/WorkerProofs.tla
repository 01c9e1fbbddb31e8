----------------------------- MODULE WorkerProofs -----------------------------
(***************************************************************************)
(* What the outcome of a run tells of its firmware and of its watchdog,    *)
(* and how late it can come, for any firmware, timeouts, ring and commands.*)
(***************************************************************************)
EXTENDS Worker, TLAPS

HasOk(s) == \E i \in 1 .. Len(s) : s[i] = "ok"

(* What was seen was sent.                                                 *)
SeenWasSent ==
  (seenOk \/ HasOk(decoder) \/ HasOk(rtt)) => sentOk

(* What was sent and not seen is still to be read, or was trimmed.         *)
SentIsKept ==
  /\ sentOk => trimmed \/ seenOk \/ HasOk(decoder) \/ HasOk(rtt)
  /\ torn => trimmed
  /\ mode = "trim" => pc \notin Looping

(* The outcome comes last, and is a test error only if nothing was seen.   *)
OutcomeIsLast ==
  /\ pc \in Connecting \cup Looping => outcome = None
  /\ outcome = "test_err" => ~seenOk

(* The watchdog stops the run once, for what it took from the channel or   *)
(* found exceeded.                                                         *)
StopIsTrue ==
  /\ wdPc # "gone" => stop = None /\ commands = accepted
  /\ verdict = "hard_max" => now > HardMax
  /\ stop = "hard_max" => now > HardMax
  /\ stop \in Commands => accepted # <<>> /\ stop = Head(accepted)

WInv ==
  /\ TypeOK
  /\ SeenWasSent
  /\ SentIsKept
  /\ OutcomeIsLast
  /\ StopIsTrue
  /\ PassIsEarned
  /\ EndsForAReason

(* The watchdog looks again before either timeout is exceeded by a period. *)
WatchdogIsSoon ==
  /\ lastActivity <= now
  /\ wdPc # "gone" => /\ now <= wdWake
                      /\ wdWake <= HardMax + WatchdogTick
                      /\ wdWake <= lastActivity + Inactivity + WatchdogTick

(* It leaves a worker that still runs with a reason to stop.               *)
StopIsSet ==
  /\ workerDone => pc \in {"join", "done"}
  /\ wdPc = "fire" => verdict # None
  /\ wdPc = "gone" => stop # None \/ pc \in {"join", "done"}

(* The session looks for that reason after at most a slice of sleep.       *)
SessionIsInTime ==
  /\ pc \in {"drain", "read", "status"} =>
       now <= HardMax + WatchdogTick /\ now <= lastActivity + Inactivity + WatchdogTick
  /\ pc = "sleep" => /\ now <= wake /\ wake <= HardMax + WatchdogTick + 1
                     /\ wake <= lastActivity + Inactivity + WatchdogTick + 1
  /\ pc = "check" => /\ now <= HardMax + WatchdogTick + 1 \/ now = liveAt
                     /\ now <= lastActivity + Inactivity + WatchdogTick + 1
  /\ pc \in Looping => liveAt \in Nat

TimeInv == WatchdogIsSoon /\ StopIsSet /\ SessionIsInTime

-----------------------------------------------------------------------------
(* Sequences of messages.                                                  *)

LEMMA RangeHas ==
  ASSUME NEW s \in Seq(Message)
  PROVE  HasOk(s) <=> "ok" \in Range(s)
BY DEF HasOk, Range

LEMMA AppendHas ==
  ASSUME NEW s \in Seq(Message), NEW m \in Message
  PROVE  /\ Append(s, m) \in Seq(Message)
         /\ HasOk(Append(s, m)) <=> HasOk(s) \/ m = "ok"
<1> DEFINE r == Append(s, m)
<1>1. r \in Seq(Message) /\ Len(r) = Len(s) + 1 /\ r[Len(s) + 1] = m /\ Len(s) \in Nat
  OBVIOUS
<1>2. \A i \in 1 .. Len(s) : r[i] = s[i]
  OBVIOUS
<1>3. HasOk(r) => HasOk(s) \/ m = "ok"
  <2> SUFFICES ASSUME NEW i \in 1 .. Len(r), r[i] = "ok" PROVE HasOk(s) \/ m = "ok"
    BY DEF HasOk
  <2>1. i \in 1 .. Len(s) \/ i = Len(s) + 1
    BY <1>1
  <2> HIDE DEF r
  <2> QED
    BY <2>1, <1>1, <1>2 DEF HasOk
<1>4. HasOk(s) => HasOk(r)
  <2> SUFFICES ASSUME NEW i \in 1 .. Len(s), s[i] = "ok" PROVE HasOk(r)
    BY DEF HasOk
  <2>1. i \in 1 .. Len(r)
    BY <1>1
  <2> HIDE DEF r
  <2> QED
    BY <2>1, <1>2 DEF HasOk
<1>5. m = "ok" => HasOk(r)
  <2>1. Len(s) + 1 \in 1 .. Len(r)
    BY <1>1
  <2> HIDE DEF r
  <2> QED
    BY <2>1, <1>1 DEF HasOk
<1> QED
  BY <1>1, <1>3, <1>4, <1>5

LEMMA ConcatHas ==
  ASSUME NEW s \in Seq(Message), NEW t \in Seq(Message)
  PROVE  /\ s \o t \in Seq(Message)
         /\ HasOk(s \o t) <=> HasOk(s) \/ HasOk(t)
<1> DEFINE r == s \o t
<1>1. /\ r \in Seq(Message) /\ Len(r) = Len(s) + Len(t)
      /\ Len(s) \in Nat /\ Len(t) \in Nat
  OBVIOUS
<1>2. /\ \A i \in 1 .. Len(s) : r[i] = s[i]
      /\ \A i \in 1 .. Len(t) : r[Len(s) + i] = t[i]
  OBVIOUS
<1>3. HasOk(r) => HasOk(s) \/ HasOk(t)
  <2> SUFFICES ASSUME NEW i \in 1 .. Len(r), r[i] = "ok" PROVE HasOk(s) \/ HasOk(t)
    BY DEF HasOk
  <2> HIDE DEF r
  <2>1. CASE i \in 1 .. Len(s)
    BY <2>1, <1>2 DEF HasOk
  <2>2. CASE i \notin 1 .. Len(s)
    <3>1. i - Len(s) \in 1 .. Len(t) /\ Len(s) + (i - Len(s)) = i
      BY <2>2, <1>1
    <3> QED
      BY <3>1, <1>2 DEF HasOk
  <2> QED
    BY <2>1, <2>2
<1>4. HasOk(s) => HasOk(r)
  <2> SUFFICES ASSUME NEW i \in 1 .. Len(s), s[i] = "ok" PROVE HasOk(r)
    BY DEF HasOk
  <2> HIDE DEF r
  <2>1. i \in 1 .. Len(r)
    BY <1>1
  <2> QED
    BY <2>1, <1>2 DEF HasOk
<1>5. HasOk(t) => HasOk(r)
  <2> SUFFICES ASSUME NEW i \in 1 .. Len(t), t[i] = "ok" PROVE HasOk(r)
    BY DEF HasOk
  <2> HIDE DEF r
  <2>1. Len(s) + i \in 1 .. Len(r)
    BY <1>1
  <2> QED
    BY <2>1, <1>2 DEF HasOk
<1> QED
  BY <1>1, <1>3, <1>4, <1>5

(* The rest of a sequence has no "ok" that the whole has not, and keeps    *)
(* every one that does not lie in the part cut off.                        *)
LEMMA RestHas ==
  ASSUME NEW s \in Seq(Message), NEW k \in Nat, k <= Len(s)
  PROVE  /\ SubSeq(s, k + 1, Len(s)) \in Seq(Message)
         /\ HasOk(SubSeq(s, k + 1, Len(s))) => HasOk(s)
         /\ HasOk(s) /\ (\A i \in 1 .. k : s[i] # "ok") => HasOk(SubSeq(s, k + 1, Len(s)))
<1> DEFINE r == SubSeq(s, k + 1, Len(s))
<1>1. r \in Seq(Message) /\ Len(r) = Len(s) - k /\ Len(s) \in Nat
  OBVIOUS
<1>2. \A i \in 1 .. Len(s) - k : r[i] = s[k + i]
  OBVIOUS
<1>3. HasOk(r) => HasOk(s)
  <2> SUFFICES ASSUME NEW i \in 1 .. Len(r), r[i] = "ok" PROVE HasOk(s)
    BY DEF HasOk
  <2> HIDE DEF r
  <2>1. k + i \in 1 .. Len(s)
    BY <1>1
  <2> QED
    BY <2>1, <1>1, <1>2 DEF HasOk
<1>4. HasOk(s) /\ (\A i \in 1 .. k : s[i] # "ok") => HasOk(r)
  <2> SUFFICES ASSUME NEW i \in 1 .. Len(s), s[i] = "ok", \A j \in 1 .. k : s[j] # "ok"
               PROVE  HasOk(r)
    BY DEF HasOk
  <2> HIDE DEF r
  <2>1. i - k \in 1 .. Len(s) - k /\ k + (i - k) = i
    BY <1>1
  <2> QED
    BY <2>1, <1>1, <1>2 DEF HasOk
<1> QED
  BY <1>1, <1>3, <1>4

LEMMA Bounds ==
  /\ Inactivity \in Nat /\ HardMax \in Nat /\ WatchdogTick \in Nat /\ Settle \in Nat
  /\ MaxSkips \in Nat /\ MaxTime \in Nat
BY WorkerAssumption

USE DEF target, worker, watchdog, channel, shared

(* One lemma for every action, one step for every part.                    *)

LEMMA PassKeeps == WInv /\ Pass => WInv'
<1> SUFFICES ASSUME WInv, Pass PROVE WInv'
  OBVIOUS
<1>1. TypeOK'
  BY WorkerAssumption DEF WInv, Pass, TypeOK, Connecting, Looping
<1>2. SeenWasSent'
  BY DEF WInv, Pass, SeenWasSent
<1>3. SentIsKept'
  BY DEF WInv, Pass, SentIsKept
<1>4. OutcomeIsLast'
  BY DEF WInv, Pass, OutcomeIsLast
<1>5. StopIsTrue'
  BY Bounds DEF WInv, Pass, StopIsTrue, TypeOK, Connecting, Looping
<1>6. PassIsEarned'
  BY DEF WInv, Pass, PassIsEarned
<1>7. EndsForAReason'
  BY WorkerAssumption
     DEF WInv, Pass, EndsForAReason, OutcomeIsLast, StopIsTrue, TypeOK, Connecting, Looping
<1> QED
  BY <1>1, <1>2, <1>3, <1>4, <1>5, <1>6, <1>7 DEF WInv

LEMMA TargetStopsKeeps == WInv /\ TargetStops => WInv'
<1> SUFFICES ASSUME WInv, TargetStops PROVE WInv'
  OBVIOUS
<1>1. TypeOK'
  BY DEF WInv, TargetStops, TypeOK
<1>2. SeenWasSent'
  BY DEF WInv, TargetStops, SeenWasSent
<1>3. SentIsKept'
  BY DEF WInv, TargetStops, SentIsKept
<1>4. OutcomeIsLast'
  BY DEF WInv, TargetStops, OutcomeIsLast
<1>5. StopIsTrue'
  BY DEF WInv, TargetStops, StopIsTrue
<1>6. PassIsEarned'
  BY DEF WInv, TargetStops, PassIsEarned
<1>7. EndsForAReason'
  BY DEF WInv, TargetStops, EndsForAReason
<1> QED
  BY <1>1, <1>2, <1>3, <1>4, <1>5, <1>6, <1>7 DEF WInv

LEMMA OpenKeeps == WInv /\ Open => WInv'
<1> SUFFICES ASSUME WInv, Open PROVE WInv'
  OBVIOUS
<1>1. TypeOK'
  BY DEF WInv, Open, ConnectStep, TypeOK, Connecting, Looping
<1>2. SeenWasSent'
  BY DEF WInv, Open, ConnectStep, SeenWasSent
<1>3. SentIsKept'
  BY DEF WInv, Open, ConnectStep, SentIsKept, Connecting, Looping
<1>4. OutcomeIsLast'
  BY DEF WInv, Open, ConnectStep, OutcomeIsLast, Connecting, Looping
<1>5. StopIsTrue'
  BY DEF WInv, Open, ConnectStep, StopIsTrue
<1>6. PassIsEarned'
  BY DEF WInv, Open, ConnectStep, PassIsEarned
<1>7. EndsForAReason'
  BY DEF WInv, Open, ConnectStep, EndsForAReason
<1> QED
  BY <1>1, <1>2, <1>3, <1>4, <1>5, <1>6, <1>7 DEF WInv

LEMMA LoadKeeps == WInv /\ Load => WInv'
<1> SUFFICES ASSUME WInv, Load PROVE WInv'
  OBVIOUS
<1>1. TypeOK'
  BY DEF WInv, Load, ConnectStep, TypeOK, Connecting, Looping
<1>2. SeenWasSent'
  BY DEF WInv, Load, ConnectStep, SeenWasSent
<1>3. SentIsKept'
  BY DEF WInv, Load, ConnectStep, SentIsKept, Connecting, Looping
<1>4. OutcomeIsLast'
  BY DEF WInv, Load, ConnectStep, OutcomeIsLast, Connecting, Looping
<1>5. StopIsTrue'
  BY DEF WInv, Load, ConnectStep, StopIsTrue
<1>6. PassIsEarned'
  BY DEF WInv, Load, ConnectStep, PassIsEarned
<1>7. EndsForAReason'
  BY DEF WInv, Load, ConnectStep, EndsForAReason
<1> QED
  BY <1>1, <1>2, <1>3, <1>4, <1>5, <1>6, <1>7 DEF WInv

LEMMA BootKeeps == WInv /\ Boot => WInv'
<1> SUFFICES ASSUME WInv, Boot PROVE WInv'
  OBVIOUS
<1>1. TypeOK'
  BY DEF WInv, Boot, ConnectStep, TypeOK, Connecting, Looping
<1>2. SeenWasSent'
  BY DEF WInv, Boot, ConnectStep, SeenWasSent
<1>3. SentIsKept'
  BY DEF WInv, Boot, ConnectStep, SentIsKept, Connecting, Looping
<1>4. OutcomeIsLast'
  BY DEF WInv, Boot, ConnectStep, OutcomeIsLast, Connecting, Looping
<1>5. StopIsTrue'
  BY DEF WInv, Boot, ConnectStep, StopIsTrue
<1>6. PassIsEarned'
  BY DEF WInv, Boot, ConnectStep, PassIsEarned
<1>7. EndsForAReason'
  BY DEF WInv, Boot, ConnectStep, EndsForAReason
<1> QED
  BY <1>1, <1>2, <1>3, <1>4, <1>5, <1>6, <1>7 DEF WInv

LEMMA ParseKeeps == WInv /\ Parse => WInv'
<1> SUFFICES ASSUME WInv, Parse PROVE WInv'
  OBVIOUS
<1>1. TypeOK'
  BY Bounds DEF WInv, Parse, ConnectStep, TypeOK, Connecting, Looping
<1>2. SeenWasSent'
  BY DEF WInv, Parse, ConnectStep, SeenWasSent
<1>3. SentIsKept'
  BY DEF WInv, Parse, ConnectStep, SentIsKept, Connecting, Looping
<1>4. OutcomeIsLast'
  BY DEF WInv, Parse, ConnectStep, OutcomeIsLast, Connecting, Looping
<1>5. StopIsTrue'
  BY DEF WInv, Parse, ConnectStep, StopIsTrue
<1>6. PassIsEarned'
  BY DEF WInv, Parse, ConnectStep, PassIsEarned
<1>7. EndsForAReason'
  BY DEF WInv, Parse, ConnectStep, EndsForAReason
<1> QED
  BY <1>1, <1>2, <1>3, <1>4, <1>5, <1>6, <1>7 DEF WInv

LEMMA SettledKeeps == WInv /\ Settled => WInv'
<1> SUFFICES ASSUME WInv, Settled PROVE WInv'
  OBVIOUS
<1>1. TypeOK'
  BY DEF WInv, Settled, ConnectStep, TypeOK, Connecting, Looping
<1>2. SeenWasSent'
  BY DEF WInv, Settled, ConnectStep, SeenWasSent
<1>3. SentIsKept'
  BY DEF WInv, Settled, ConnectStep, SentIsKept, Connecting, Looping
<1>4. OutcomeIsLast'
  BY DEF WInv, Settled, ConnectStep, OutcomeIsLast, Connecting, Looping
<1>5. StopIsTrue'
  BY DEF WInv, Settled, ConnectStep, StopIsTrue
<1>6. PassIsEarned'
  BY DEF WInv, Settled, ConnectStep, PassIsEarned
<1>7. EndsForAReason'
  BY DEF WInv, Settled, ConnectStep, EndsForAReason
<1> QED
  BY <1>1, <1>2, <1>3, <1>4, <1>5, <1>6, <1>7 DEF WInv

LEMMA AttachRttKeeps == WInv /\ AttachRtt => WInv'
<1> SUFFICES ASSUME WInv, AttachRtt PROVE WInv'
  OBVIOUS
<1>1. TypeOK'
  BY DEF WInv, AttachRtt, ConnectStep, TypeOK, Connecting, Looping
<1>2. SeenWasSent'
  BY DEF WInv, AttachRtt, ConnectStep, SeenWasSent
<1>3. SentIsKept'
  BY DEF WInv, AttachRtt, ConnectStep, SentIsKept, Connecting, Looping
<1>4. OutcomeIsLast'
  BY DEF WInv, AttachRtt, ConnectStep, OutcomeIsLast, Connecting, Looping
<1>5. StopIsTrue'
  BY DEF WInv, AttachRtt, ConnectStep, StopIsTrue
<1>6. PassIsEarned'
  BY DEF WInv, AttachRtt, ConnectStep, PassIsEarned
<1>7. EndsForAReason'
  BY DEF WInv, AttachRtt, ConnectStep, EndsForAReason
<1> QED
  BY <1>1, <1>2, <1>3, <1>4, <1>5, <1>6, <1>7 DEF WInv

LEMMA SetModeKeeps == WInv /\ SetMode => WInv'
<1> SUFFICES ASSUME WInv, SetMode PROVE WInv'
  OBVIOUS
<1>1. TypeOK'
  BY DEF WInv, SetMode, ConnectStep, Live, TypeOK, Connecting, Looping
<1>2. SeenWasSent'
  BY DEF WInv, SetMode, ConnectStep, Live, SeenWasSent
<1>3. SentIsKept'
  BY DEF WInv, SetMode, ConnectStep, Live, SentIsKept
<1>4. OutcomeIsLast'
  BY DEF WInv, SetMode, ConnectStep, Live, OutcomeIsLast, Connecting, Looping
<1>5. StopIsTrue'
  BY DEF WInv, SetMode, ConnectStep, Live, StopIsTrue
<1>6. PassIsEarned'
  BY DEF WInv, SetMode, ConnectStep, Live, PassIsEarned
<1>7. EndsForAReason'
  BY DEF WInv, SetMode, ConnectStep, Live, EndsForAReason
<1> QED
  BY <1>1, <1>2, <1>3, <1>4, <1>5, <1>6, <1>7 DEF WInv

LEMMA ConnectFailsKeeps == WInv /\ ConnectFails => WInv'
<1> SUFFICES ASSUME WInv, ConnectFails PROVE WInv'
  OBVIOUS
<1>1. TypeOK'
  BY DEF WInv, ConnectFails, Ends, TypeOK, Reasons, Commands, Outcomes
<1>2. SeenWasSent'
  BY DEF WInv, ConnectFails, Ends, SeenWasSent
<1>3. SentIsKept'
  BY DEF WInv, ConnectFails, Ends, SentIsKept, Connecting, Looping
<1>4. OutcomeIsLast'
  BY DEF WInv, ConnectFails, Ends, OutcomeIsLast, Connecting, Looping
<1>5. StopIsTrue'
  BY DEF WInv, ConnectFails, Ends, StopIsTrue
<1>6. PassIsEarned'
  BY DEF WInv, ConnectFails, Ends, PassIsEarned
<1>7. EndsForAReason'
  BY DEF WInv, ConnectFails, Ends, EndsForAReason, Reasons, Commands
<1> QED
  BY <1>1, <1>2, <1>3, <1>4, <1>5, <1>6, <1>7 DEF WInv

LEMMA ProbeFailsKeeps == WInv /\ ProbeFails => WInv'
<1> SUFFICES ASSUME WInv, ProbeFails PROVE WInv'
  OBVIOUS
<1>1. TypeOK'
  BY DEF WInv, ProbeFails, Ends, TypeOK, Reasons, Commands, Outcomes
<1>2. SeenWasSent'
  BY DEF WInv, ProbeFails, Ends, SeenWasSent
<1>3. SentIsKept'
  BY DEF WInv, ProbeFails, Ends, SentIsKept, Connecting, Looping
<1>4. OutcomeIsLast'
  BY DEF WInv, ProbeFails, Ends, OutcomeIsLast, Connecting, Looping
<1>5. StopIsTrue'
  BY DEF WInv, ProbeFails, Ends, StopIsTrue
<1>6. PassIsEarned'
  BY DEF WInv, ProbeFails, Ends, PassIsEarned
<1>7. EndsForAReason'
  BY DEF WInv, ProbeFails, Ends, EndsForAReason, Reasons, Commands
<1> QED
  BY <1>1, <1>2, <1>3, <1>4, <1>5, <1>6, <1>7 DEF WInv

LEMMA CheckStopKeeps == WInv /\ CheckStop => WInv'
<1> SUFFICES ASSUME WInv, CheckStop PROVE WInv'
  OBVIOUS
<1>1. TypeOK'
  BY DEF WInv, CheckStop, Ends, TypeOK, Message, Outcomes, Reasons, Commands, Connecting,
         Looping
<1>2. SeenWasSent'
  BY DEF WInv, CheckStop, Ends, SeenWasSent
<1>3. SentIsKept'
  BY DEF WInv, CheckStop, Ends, SentIsKept, Connecting, Looping
<1>4. OutcomeIsLast'
  BY DEF WInv, CheckStop, Ends, OutcomeIsLast, TypeOK, Connecting, Looping, Outcomes, Reasons
<1>5. StopIsTrue'
  BY DEF WInv, CheckStop, Ends, StopIsTrue
<1>6. PassIsEarned'
  BY DEF WInv, CheckStop, Ends, PassIsEarned, OutcomeIsLast, SeenWasSent, TypeOK,
         Connecting, Looping, Reasons, Commands
<1>7. EndsForAReason'
  BY DEF WInv, CheckStop, Ends, EndsForAReason, StopIsTrue
<1> QED
  BY <1>1, <1>2, <1>3, <1>4, <1>5, <1>6, <1>7 DEF WInv

LEMMA ReadStatusKeeps == WInv /\ ReadStatus => WInv'
<1> SUFFICES ASSUME WInv, ReadStatus PROVE WInv'
  OBVIOUS
<1>1. TypeOK'
  BY DEF WInv, ReadStatus, Ends, TypeOK, Message, Outcomes, Reasons, Commands, Connecting,
         Looping
<1>2. SeenWasSent'
  BY DEF WInv, ReadStatus, Ends, SeenWasSent
<1>3. SentIsKept'
  BY DEF WInv, ReadStatus, Ends, SentIsKept, Connecting, Looping
<1>4. OutcomeIsLast'
  BY DEF WInv, ReadStatus, Ends, OutcomeIsLast, Connecting, Looping
<1>5. StopIsTrue'
  BY DEF WInv, ReadStatus, Ends, StopIsTrue
<1>6. PassIsEarned'
  BY DEF WInv, ReadStatus, Ends, PassIsEarned, SeenWasSent
<1>7. EndsForAReason'
  BY DEF WInv, ReadStatus, Ends, EndsForAReason, Reasons, Commands
<1> QED
  BY <1>1, <1>2, <1>3, <1>4, <1>5, <1>6, <1>7 DEF WInv

LEMMA WakeUpKeeps == WInv /\ WakeUp => WInv'
<1> SUFFICES ASSUME WInv, WakeUp PROVE WInv'
  OBVIOUS
<1>1. TypeOK'
  BY DEF WInv, WakeUp, TypeOK, Connecting, Looping
<1>2. SeenWasSent'
  BY DEF WInv, WakeUp, SeenWasSent
<1>3. SentIsKept'
  BY DEF WInv, WakeUp, SentIsKept, Connecting, Looping
<1>4. OutcomeIsLast'
  BY DEF WInv, WakeUp, OutcomeIsLast, Connecting, Looping
<1>5. StopIsTrue'
  BY DEF WInv, WakeUp, StopIsTrue
<1>6. PassIsEarned'
  BY DEF WInv, WakeUp, PassIsEarned
<1>7. EndsForAReason'
  BY DEF WInv, WakeUp, EndsForAReason
<1> QED
  BY <1>1, <1>2, <1>3, <1>4, <1>5, <1>6, <1>7 DEF WInv

LEMMA FinishKeeps == WInv /\ Finish => WInv'
<1> SUFFICES ASSUME WInv, Finish PROVE WInv'
  OBVIOUS
<1>1. TypeOK'
  BY DEF WInv, Finish, TypeOK
<1>2. SeenWasSent'
  BY DEF WInv, Finish, SeenWasSent
<1>3. SentIsKept'
  BY DEF WInv, Finish, SentIsKept, Connecting, Looping
<1>4. OutcomeIsLast'
  BY DEF WInv, Finish, OutcomeIsLast, Connecting, Looping
<1>5. StopIsTrue'
  BY DEF WInv, Finish, StopIsTrue
<1>6. PassIsEarned'
  BY DEF WInv, Finish, PassIsEarned
<1>7. EndsForAReason'
  BY DEF WInv, Finish, EndsForAReason
<1> QED
  BY <1>1, <1>2, <1>3, <1>4, <1>5, <1>6, <1>7 DEF WInv

LEMMA JoinKeeps == WInv /\ Join => WInv'
<1> SUFFICES ASSUME WInv, Join PROVE WInv'
  OBVIOUS
<1>1. TypeOK'
  BY DEF WInv, Join, TypeOK
<1>2. SeenWasSent'
  BY DEF WInv, Join, SeenWasSent
<1>3. SentIsKept'
  BY DEF WInv, Join, SentIsKept, Connecting, Looping
<1>4. OutcomeIsLast'
  BY DEF WInv, Join, OutcomeIsLast, Connecting, Looping
<1>5. StopIsTrue'
  BY DEF WInv, Join, StopIsTrue
<1>6. PassIsEarned'
  BY DEF WInv, Join, PassIsEarned
<1>7. EndsForAReason'
  BY DEF WInv, Join, EndsForAReason
<1> QED
  BY <1>1, <1>2, <1>3, <1>4, <1>5, <1>6, <1>7 DEF WInv

LEMMA TickKeeps == WInv /\ Tick => WInv'
<1> SUFFICES ASSUME WInv, Tick PROVE WInv'
  OBVIOUS
<1>0. commands # <<>> => Head(commands) \in Commands /\ Tail(commands) \in Seq(Commands)
  BY DEF WInv, TypeOK
<1>1. TypeOK'
  <2>1. CASE workerDone \/ commands = <<>>
    BY <2>1, Bounds, WorkerAssumption
       DEF WInv, Tick, TypeOK, Message, Outcomes, Reasons, Connecting, Looping
  <2>2. CASE ~workerDone /\ commands # <<>>
    <3>1. stop' \in Reasons \cup {None} /\ commands' \in Seq(Commands)
      BY <1>0, <2>2 DEF Tick, Reasons, Commands
    <3> QED
      BY <3>1, <2>2, Bounds, WorkerAssumption
         DEF WInv, Tick, TypeOK, Message, Outcomes, Connecting, Looping
  <2> QED
    BY <2>1, <2>2
<1>2. SeenWasSent'
  BY DEF WInv, Tick, SeenWasSent
<1>3. SentIsKept'
  BY DEF WInv, Tick, SentIsKept
<1>4. OutcomeIsLast'
  BY DEF WInv, Tick, OutcomeIsLast
<1>5. StopIsTrue'
  <2>1. CASE workerDone \/ commands = <<>>
    BY <2>1, Bounds, WorkerAssumption DEF WInv, Tick, StopIsTrue, TypeOK, Commands, Reasons
  <2>2. CASE ~workerDone /\ commands # <<>>
    <3>1. stop' = Head(accepted) /\ accepted # <<>> /\ accepted' = accepted
      BY <2>2 DEF WInv, Tick, StopIsTrue
    <3>2. stop' \in Commands /\ wdPc' = "gone" /\ verdict' = verdict /\ now' = now
      BY <1>0, <2>2 DEF Tick
    <3>3. stop' # "hard_max"
      BY <3>2 DEF Commands
    <3> QED
      BY <3>1, <3>2, <3>3 DEF WInv, StopIsTrue
  <2> QED
    BY <2>1, <2>2
<1>6. PassIsEarned'
  BY DEF WInv, Tick, PassIsEarned
<1>7. EndsForAReason'
  BY WorkerAssumption
     DEF WInv, Tick, EndsForAReason, OutcomeIsLast, StopIsTrue, Reasons, Commands,
         Connecting, Looping
<1> QED
  BY <1>1, <1>2, <1>3, <1>4, <1>5, <1>6, <1>7 DEF WInv

LEMMA ClockKeeps == WInv /\ Clock => WInv'
<1> SUFFICES ASSUME WInv, Clock PROVE WInv'
  OBVIOUS
<1>1. TypeOK'
  BY Bounds DEF WInv, Clock, TypeOK, Connecting, Looping
<1>2. SeenWasSent'
  BY DEF WInv, Clock, SeenWasSent
<1>3. SentIsKept'
  BY DEF WInv, Clock, SentIsKept
<1>4. OutcomeIsLast'
  BY DEF WInv, Clock, OutcomeIsLast
<1>5. StopIsTrue'
  BY DEF WInv, Clock, StopIsTrue
<1>6. PassIsEarned'
  BY DEF WInv, Clock, PassIsEarned
<1>7. EndsForAReason'
  BY DEF WInv, Clock, EndsForAReason
<1> QED
  BY <1>1, <1>2, <1>3, <1>4, <1>5, <1>6, <1>7 DEF WInv

LEMMA FireKeeps == WInv /\ Fire => WInv'
<1> SUFFICES ASSUME WInv, Fire PROVE WInv'
  OBVIOUS
<1>1. TypeOK'
  BY DEF WInv, Fire, TypeOK, Reasons, Commands, Outcomes
<1>2. SeenWasSent'
  BY DEF WInv, Fire, SeenWasSent
<1>3. SentIsKept'
  BY DEF WInv, Fire, SentIsKept
<1>4. OutcomeIsLast'
  BY DEF WInv, Fire, OutcomeIsLast
<1>5. StopIsTrue'
  BY DEF WInv, Fire, StopIsTrue, TypeOK, Commands, Reasons
<1>6. PassIsEarned'
  BY DEF WInv, Fire, PassIsEarned
<1>7. EndsForAReason'
  BY WorkerAssumption
     DEF WInv, Fire, EndsForAReason, OutcomeIsLast, StopIsTrue, Reasons, Commands,
         Connecting, Looping
<1> QED
  BY <1>1, <1>2, <1>3, <1>4, <1>5, <1>6, <1>7 DEF WInv

LEMMA SendKeeps == ASSUME NEW cmd \in Commands, WInv, Send(cmd) PROVE WInv'
<1>0. wdPc # "gone" /\ stop = None /\ commands' = Append(commands, cmd) /\ commands = accepted
  BY DEF WInv, Send, StopIsTrue
<1>1. commands' \in Seq(Commands) /\ accepted' \in Seq(Commands) /\ accepted' = commands'
  BY <1>0 DEF WInv, TypeOK, Send
<1>2. TypeOK'
  BY <1>1 DEF WInv, TypeOK, Send
<1>3. stop' = None /\ None \notin Commands
  BY <1>0, WorkerAssumption DEF Send, Commands
<1>4. SeenWasSent' /\ SentIsKept'
  BY DEF WInv, SeenWasSent, SentIsKept, Send
<1>5. OutcomeIsLast' /\ PassIsEarned'
  BY DEF WInv, OutcomeIsLast, PassIsEarned, Send
<1>6. StopIsTrue'
  BY <1>1, <1>3, WorkerAssumption DEF WInv, StopIsTrue, Send
<1>7. EndsForAReason'
  BY <1>0, <1>3, WorkerAssumption
     DEF WInv, EndsForAReason, Send, Reasons
<1> QED
  BY <1>2, <1>4, <1>5, <1>6, <1>7 DEF WInv

(* A message that does not go into the ring is trimmed, or the firmware    *)
(* waits; one that was cut goes in as bytes that do not decode.            *)
LEMMA TargetSendsKeeps == WInv /\ TargetSends => WInv'
<1> SUFFICES ASSUME WInv, TargetSends PROVE WInv'
  OBVIOUS
<1> DEFINE m == IF torn THEN "bad" ELSE Head(program)
<1>0. /\ program \in Seq(Message) /\ program # <<>> /\ rtt \in Seq(Message)
      /\ sentOk \in BOOLEAN /\ torn \in BOOLEAN /\ trimmed \in BOOLEAN
  BY DEF WInv, TypeOK, TargetSends
<1>1. /\ Head(program) \in Message /\ Tail(program) \in Seq(Message)
      /\ m \in Message
  BY <1>0 DEF Message
<1>2. Append(rtt, m) \in Seq(Message) /\ (HasOk(Append(rtt, m)) <=> HasOk(rtt) \/ m = "ok")
  BY <1>0, <1>1, AppendHas
<1>3. /\ program' = Tail(program) /\ sentOk' = (sentOk \/ Head(program) = "ok")
      /\ UNCHANGED <<now, running, mode, halted, worker, watchdog, channel, shared>>
  BY DEF TargetSends
<1>4. \/ rtt' = Append(rtt, m) /\ torn' = FALSE /\ trimmed' = trimmed
      \/ /\ rtt' = rtt /\ torn' \in {torn, TRUE} /\ mode # "block"
         /\ trimmed' = (trimmed \/ mode = "stuck" \/ pc \notin Looping)
  BY DEF TargetSends
<1> HIDE DEF m
<1>5. TypeOK'
  <2>1. /\ rtt' \in Seq(Message) /\ torn' \in BOOLEAN /\ trimmed' \in BOOLEAN
        /\ sentOk' \in BOOLEAN /\ program' \in Seq(Message)
    BY <1>0, <1>1, <1>2, <1>3, <1>4
  <2> QED
    BY <2>1, <1>3 DEF WInv, TypeOK
<1>6. SeenWasSent'
  <2>1. m = "ok" => Head(program) = "ok"
    BY DEF m
  <2>2. HasOk(rtt') => HasOk(rtt) \/ Head(program) = "ok"
    BY <2>1, <1>2, <1>4
  <2> QED
    BY <2>2, <1>3 DEF WInv, SeenWasSent
<1>7. SentIsKept'
  <2>1. Head(program) = "ok" => trimmed \/ m = "ok"
    BY DEF m, WInv, SentIsKept
  <2>2. mode # "block" => mode = "stuck" \/ pc \notin Looping
    BY DEF WInv, SentIsKept, TypeOK
  <2>3. CASE rtt' = Append(rtt, m) /\ torn' = FALSE /\ trimmed' = trimmed
    <3>1. HasOk(rtt') <=> HasOk(rtt) \/ m = "ok"
      BY <2>3, <1>2
    <3> QED
      BY <2>1, <2>3, <3>1, <1>3 DEF WInv, SentIsKept
  <2>4. CASE ~(rtt' = Append(rtt, m) /\ torn' = FALSE /\ trimmed' = trimmed)
    <3>1. trimmed' = TRUE
      BY <2>4, <2>2, <1>4, <1>0
    <3> QED
      BY <3>1, <1>3 DEF WInv, SentIsKept
  <2> QED
    BY <2>3, <2>4
<1>8. OutcomeIsLast' /\ PassIsEarned'
  BY <1>3 DEF WInv, OutcomeIsLast, PassIsEarned
<1>9. StopIsTrue' /\ EndsForAReason'
  BY <1>3 DEF WInv, StopIsTrue, EndsForAReason
<1> QED
  BY <1>5, <1>6, <1>7, <1>8, <1>9 DEF WInv

(* drain_one_frame keeps every "ok", in the decoder or as seen, and makes  *)
(* none: what it skips does not decode.                                    *)
LEMMA DrainHas ==
  ASSUME WInv, NEW bytes \in Seq(Message), NEW next, Drain(bytes, next)
  PROVE  /\ decoder' \in Seq(Message) /\ seenOk' \in BOOLEAN
         /\ pc' \in {"check", next} /\ lastActivity' \in {now, lastActivity}
         /\ seenOk' \/ HasOk(decoder') <=> seenOk \/ HasOk(bytes)
<1>0. seenOk \in BOOLEAN /\ Len(bytes) \in Nat /\ MaxSkips \in Nat
  BY Bounds DEF WInv, TypeOK
<1>1. CASE \E k \in 1 .. MaxSkips :
             /\ FirstGood(bytes, k)
             /\ decoder' = SubSeq(bytes, k + 1, Len(bytes))
             /\ seenOk' = (seenOk \/ bytes[k] = "ok")
             /\ lastActivity' = now
             /\ pc' = "check"
  <2>1. PICK k \in 1 .. MaxSkips :
             /\ FirstGood(bytes, k)
             /\ decoder' = SubSeq(bytes, k + 1, Len(bytes))
             /\ seenOk' = (seenOk \/ bytes[k] = "ok")
             /\ lastActivity' = now
             /\ pc' = "check"
    BY <1>1
  <2>2. k \in 1 .. Len(bytes) /\ \A i \in 1 .. k - 1 : bytes[i] # "ok"
    BY <2>1 DEF FirstGood
  <2>3. k \in Nat /\ k <= Len(bytes)
    BY <2>2, <1>0
  <2>4. /\ decoder' \in Seq(Message)
        /\ HasOk(decoder') => HasOk(bytes)
        /\ HasOk(bytes) /\ (\A i \in 1 .. k : bytes[i] # "ok") => HasOk(decoder')
    BY <2>1, <2>3, RestHas
  <2>5. bytes[k] # "ok" => \A i \in 1 .. k : bytes[i] # "ok"
    BY <2>2, <2>3
  <2>6. bytes[k] = "ok" => HasOk(bytes)
    BY <2>2 DEF HasOk
  <2> QED
    BY <2>1, <2>4, <2>5, <2>6, <1>0
<1>2. CASE /\ \A i \in 1 .. Skipped(bytes) : bytes[i] = "bad"
           /\ decoder' = SubSeq(bytes, Skipped(bytes) + 1, Len(bytes))
           /\ pc' = next
           /\ UNCHANGED <<seenOk, lastActivity>>
  <2>1. Skipped(bytes) \in Nat /\ Skipped(bytes) <= Len(bytes)
    BY <1>0 DEF Skipped
  <2>2. \A i \in 1 .. Skipped(bytes) : bytes[i] # "ok"
    BY <1>2
  <2>3. /\ decoder' \in Seq(Message)
        /\ HasOk(decoder') => HasOk(bytes)
        /\ HasOk(bytes) => HasOk(decoder')
    BY <1>2, <2>1, <2>2, RestHas
  <2> QED
    BY <1>2, <2>3, <1>0
<1> QED
  BY <1>1, <1>2 DEF Drain

LEMMA DrainFrameKeeps == WInv /\ DrainFrame => WInv'
<1> SUFFICES ASSUME WInv, DrainFrame PROVE WInv'
  OBVIOUS
<1>1. /\ pc = "drain" /\ Drain(decoder, "read")
      /\ UNCHANGED <<now, target, wake, liveAt, outcome, watchdog, channel, stop, workerDone>>
  BY DEF DrainFrame
<1>2. decoder \in Seq(Message)
  BY DEF WInv, TypeOK
<1>3. /\ decoder' \in Seq(Message) /\ seenOk' \in BOOLEAN
      /\ pc' \in {"check", "read"} /\ lastActivity' \in {now, lastActivity}
      /\ seenOk' \/ HasOk(decoder') <=> seenOk \/ HasOk(decoder)
  BY <1>1, <1>2, DrainHas
<1>4. TypeOK'
  BY <1>1, <1>3, Bounds DEF WInv, TypeOK, Looping, Connecting
<1>5. SeenWasSent' /\ SentIsKept'
  BY <1>1, <1>3 DEF WInv, SeenWasSent, SentIsKept, Looping
<1>6. outcome' = None /\ outcome = None
  BY <1>1 DEF WInv, OutcomeIsLast, Looping
<1>7. OutcomeIsLast' /\ PassIsEarned' /\ EndsForAReason'
  BY <1>6, WorkerAssumption DEF OutcomeIsLast, PassIsEarned, EndsForAReason, Reasons
<1>8. StopIsTrue'
  BY <1>1 DEF WInv, StopIsTrue
<1> QED
  BY <1>4, <1>5, <1>7, <1>8 DEF WInv

LEMMA ReadRttKeeps == WInv /\ ReadRtt => WInv'
<1> SUFFICES ASSUME WInv, ReadRtt PROVE WInv'
  OBVIOUS
<1>1. /\ pc = "read"
      /\ UNCHANGED <<now, program, running, mode, torn, halted, sentOk, trimmed, wake, liveAt,
                     outcome, watchdog, channel, stop, workerDone>>
  BY DEF ReadRtt
<1>2. /\ decoder \in Seq(Message) /\ rtt \in Seq(Message) /\ seenOk \in BOOLEAN
      /\ <<>> \in Seq(Message) /\ ~HasOk(<<>>)
  BY DEF WInv, TypeOK, HasOk
<1>3. /\ decoder' \in Seq(Message) /\ seenOk' \in BOOLEAN /\ rtt' \in Seq(Message)
      /\ pc' \in {"check", "status"} /\ lastActivity' \in {now, lastActivity}
      /\ seenOk' \/ HasOk(decoder') \/ HasOk(rtt') <=> seenOk \/ HasOk(decoder) \/ HasOk(rtt)
  <2>1. CASE rtt = <<>>
    BY <2>1, <1>2 DEF ReadRtt
  <2>2. CASE rtt # <<>>
    <3>1. Drain(decoder \o rtt, "status") /\ rtt' = <<>>
      BY <2>2 DEF ReadRtt
    <3>2. /\ decoder \o rtt \in Seq(Message)
          /\ HasOk(decoder \o rtt) <=> HasOk(decoder) \/ HasOk(rtt)
      BY <1>2, ConcatHas
    <3>3. /\ decoder' \in Seq(Message) /\ seenOk' \in BOOLEAN
          /\ pc' \in {"check", "status"} /\ lastActivity' \in {now, lastActivity}
          /\ seenOk' \/ HasOk(decoder') <=> seenOk \/ HasOk(decoder \o rtt)
      BY <3>1, <3>2, DrainHas
    <3> QED
      BY <3>1, <3>2, <3>3, <1>2
  <2> QED
    BY <2>1, <2>2
<1>4. TypeOK'
  BY <1>1, <1>3, Bounds DEF WInv, TypeOK, Looping, Connecting
<1>5. SeenWasSent' /\ SentIsKept'
  BY <1>1, <1>3 DEF WInv, SeenWasSent, SentIsKept, Looping
<1>6. outcome' = None /\ outcome = None
  BY <1>1 DEF WInv, OutcomeIsLast, Looping
<1>7. OutcomeIsLast' /\ PassIsEarned' /\ EndsForAReason'
  BY <1>6, WorkerAssumption DEF OutcomeIsLast, PassIsEarned, EndsForAReason, Reasons
<1>8. StopIsTrue'
  BY <1>1 DEF WInv, StopIsTrue
<1> QED
  BY <1>4, <1>5, <1>7, <1>8 DEF WInv

-----------------------------------------------------------------------------
(* The invariant, and what it says.                                        *)

LEMMA InitHolds == Init => WInv
<1> SUFFICES ASSUME Init PROVE WInv
  OBVIOUS
<1>1. /\ program \in Seq(Message) /\ <<>> \in Seq(Message) /\ <<>> \in Seq(Commands)
      /\ ~HasOk(<<>>)
  BY WorkerAssumption DEF Init, Message, HasOk
<1>2. TypeOK
  <2>1. program \in Seq(Message) /\ rtt \in Seq(Message) /\ decoder \in Seq(Message)
    BY <1>1 DEF Init
  <2>2. now \in 0 .. MaxTime /\ {wake, wdWake, lastActivity} \subseteq Nat
    BY Bounds DEF Init
  <2>3. {running, torn, halted, sentOk, trimmed, seenOk, workerDone} \subseteq BOOLEAN
    BY DEF Init
  <2>4. commands \in Seq(Commands) /\ accepted \in Seq(Commands)
    BY <1>1 DEF Init
  <2> QED
    BY <2>1, <2>2, <2>3, <2>4 DEF Init, TypeOK, Connecting
<1>3. SeenWasSent /\ SentIsKept /\ OutcomeIsLast
  BY <1>1, WorkerAssumption DEF Init, SeenWasSent, SentIsKept, OutcomeIsLast, Looping
<1>4. StopIsTrue /\ PassIsEarned /\ EndsForAReason
  BY WorkerAssumption DEF Init, StopIsTrue, PassIsEarned, EndsForAReason, Commands, Reasons
<1> QED
  BY <1>2, <1>3, <1>4 DEF WInv

LEMMA StutterKeeps == WInv /\ UNCHANGED vars => WInv'
BY DEF WInv, TypeOK, SeenWasSent, SentIsKept, OutcomeIsLast, StopIsTrue, PassIsEarned,
       EndsForAReason, HasOk, vars

LEMMA StepKeeps == WInv /\ [Next]_vars => WInv'
<1> SUFFICES ASSUME WInv, [Next]_vars PROVE WInv'
  OBVIOUS
<1>1. CASE Connect \/ ConnectFails \/ ProbeFails
  BY <1>1, OpenKeeps, LoadKeeps, BootKeeps, ParseKeeps, SettledKeeps, AttachRttKeeps,
     SetModeKeeps, ConnectFailsKeeps, ProbeFailsKeeps DEF Connect
<1>2. CASE WorkerStep
  BY <1>2, CheckStopKeeps, DrainFrameKeeps, ReadRttKeeps, ReadStatusKeeps, WakeUpKeeps,
     FinishKeeps, JoinKeeps DEF WorkerStep
<1>3. CASE WatchdogStep
  BY <1>3, TickKeeps, ClockKeeps, FireKeeps DEF WatchdogStep
<1>4. CASE TargetSends \/ TargetStops \/ Pass
  BY <1>4, TargetSendsKeeps, TargetStopsKeeps, PassKeeps
<1>5. CASE \E cmd \in Commands : Send(cmd)
  BY <1>5, SendKeeps
<1>6. CASE UNCHANGED vars
  BY <1>6, StutterKeeps
<1> QED
  BY <1>1, <1>2, <1>3, <1>4, <1>5, <1>6 DEF Next

(* The parts above hold in every state of every run.                       *)
THEOREM WorkerInvariance == Spec => []WInv
<1>1. Init => WInv
  BY InitHolds
<1>2. WInv /\ [Next]_vars => WInv'
  BY StepKeeps
<1> QED
  BY <1>1, <1>2, PTL DEF Spec

(* The worker, its session, the firmware and the watchdog keep their types.*)
THEOREM WorkerTypesHold == Spec => []TypeOK
<1>1. WInv => TypeOK
  BY DEF WInv
<1> QED
  BY <1>1, WorkerInvariance, PTL

(* A passed job ran firmware that sent `Test OK` and stopped, whatever its *)
(* frames, its timeouts and the commands sent to it were.                  *)
THEOREM PassesAreEarned == Spec => []PassIsEarned
<1>1. WInv => PassIsEarned
  BY DEF WInv
<1> QED
  BY <1>1, WorkerInvariance, PTL

(* A run that was stopped reports why: the first command its senders were  *)
(* told was taken, or a timeout that had in fact passed.                   *)
THEOREM StopsHaveReasons == Spec => []EndsForAReason
<1>1. WInv => EndsForAReason
  BY DEF WInv
<1> QED
  BY <1>1, WorkerInvariance, PTL

(* A test error hides no `Test OK` that was read: the firmware's own is    *)
(* still unread, or was trimmed by a ring that was not yet set to block.   *)
THEOREM SentOkIsSeen == Spec => []OkIsNotLost
<1>1. WInv => OkIsNotLost
  <2> SUFFICES ASSUME WInv, outcome = "test_err", sentOk
               PROVE  trimmed \/ "ok" \in Range(decoder) \cup Range(rtt)
    BY DEF OkIsNotLost
  <2>1. trimmed \/ HasOk(decoder) \/ HasOk(rtt)
    BY DEF WInv, SentIsKept, OutcomeIsLast
  <2>2. decoder \in Seq(Message) /\ rtt \in Seq(Message)
    BY DEF WInv, TypeOK
  <2> QED
    BY <2>1, <2>2, RangeHas
<1> QED
  BY <1>1, WorkerInvariance, PTL

-----------------------------------------------------------------------------
(* The clocks.  A frame moves only the worker and, perhaps, its clock.     *)

LEMMA Drained ==
  ASSUME WInv
  PROVE  /\ DrainFrame => pc' \in {"check", "read"} /\ lastActivity' \in {now, lastActivity}
         /\ ReadRtt => pc' \in {"check", "status"} /\ lastActivity' \in {now, lastActivity}
BY DEF DrainFrame, ReadRtt, Drain

LEMMA PassInTime == WInv /\ TimeInv /\ Pass => TimeInv'
<1> SUFFICES ASSUME WInv, TimeInv, Pass PROVE TimeInv'
  OBVIOUS
<1>1. WatchdogIsSoon'
  BY DEF TimeInv, Pass, WatchdogIsSoon, WInv, TypeOK
<1>2. StopIsSet'
  BY DEF TimeInv, Pass, StopIsSet
<1>3. SessionIsInTime'
  BY DEF TimeInv, Pass, SessionIsInTime, WInv, TypeOK
<1> QED
  BY <1>1, <1>2, <1>3 DEF TimeInv

LEMMA TargetSendsInTime == WInv /\ TimeInv /\ TargetSends => TimeInv'
<1> SUFFICES ASSUME WInv, TimeInv, TargetSends PROVE TimeInv'
  OBVIOUS
<1>1. WatchdogIsSoon'
  BY DEF TimeInv, TargetSends, WatchdogIsSoon
<1>2. StopIsSet'
  BY DEF TimeInv, TargetSends, StopIsSet
<1>3. SessionIsInTime'
  BY DEF TimeInv, TargetSends, SessionIsInTime
<1> QED
  BY <1>1, <1>2, <1>3 DEF TimeInv

LEMMA TargetStopsInTime == WInv /\ TimeInv /\ TargetStops => TimeInv'
<1> SUFFICES ASSUME WInv, TimeInv, TargetStops PROVE TimeInv'
  OBVIOUS
<1>1. WatchdogIsSoon'
  BY DEF TimeInv, TargetStops, WatchdogIsSoon
<1>2. StopIsSet'
  BY DEF TimeInv, TargetStops, StopIsSet
<1>3. SessionIsInTime'
  BY DEF TimeInv, TargetStops, SessionIsInTime
<1> QED
  BY <1>1, <1>2, <1>3 DEF TimeInv

LEMMA OpenInTime == WInv /\ TimeInv /\ Open => TimeInv'
<1> SUFFICES ASSUME WInv, TimeInv, Open PROVE TimeInv'
  OBVIOUS
<1>1. WatchdogIsSoon'
  BY DEF TimeInv, Open, ConnectStep, WatchdogIsSoon
<1>2. StopIsSet'
  BY DEF TimeInv, Open, ConnectStep, StopIsSet
<1>3. SessionIsInTime'
  BY DEF TimeInv, Open, ConnectStep, SessionIsInTime, Looping, Connecting
<1> QED
  BY <1>1, <1>2, <1>3 DEF TimeInv

LEMMA LoadInTime == WInv /\ TimeInv /\ Load => TimeInv'
<1> SUFFICES ASSUME WInv, TimeInv, Load PROVE TimeInv'
  OBVIOUS
<1>1. WatchdogIsSoon'
  BY DEF TimeInv, Load, ConnectStep, WatchdogIsSoon
<1>2. StopIsSet'
  BY DEF TimeInv, Load, ConnectStep, StopIsSet
<1>3. SessionIsInTime'
  BY DEF TimeInv, Load, ConnectStep, SessionIsInTime, Looping, Connecting
<1> QED
  BY <1>1, <1>2, <1>3 DEF TimeInv

LEMMA BootInTime == WInv /\ TimeInv /\ Boot => TimeInv'
<1> SUFFICES ASSUME WInv, TimeInv, Boot PROVE TimeInv'
  OBVIOUS
<1>1. WatchdogIsSoon'
  BY DEF TimeInv, Boot, ConnectStep, WatchdogIsSoon
<1>2. StopIsSet'
  BY DEF TimeInv, Boot, ConnectStep, StopIsSet
<1>3. SessionIsInTime'
  BY DEF TimeInv, Boot, ConnectStep, SessionIsInTime, Looping, Connecting
<1> QED
  BY <1>1, <1>2, <1>3 DEF TimeInv

LEMMA ParseInTime == WInv /\ TimeInv /\ Parse => TimeInv'
<1> SUFFICES ASSUME WInv, TimeInv, Parse PROVE TimeInv'
  OBVIOUS
<1>1. WatchdogIsSoon'
  BY DEF TimeInv, Parse, ConnectStep, WatchdogIsSoon
<1>2. StopIsSet'
  BY DEF TimeInv, Parse, ConnectStep, StopIsSet
<1>3. SessionIsInTime'
  BY DEF TimeInv, Parse, ConnectStep, SessionIsInTime, Looping, Connecting
<1> QED
  BY <1>1, <1>2, <1>3 DEF TimeInv

LEMMA SettledInTime == WInv /\ TimeInv /\ Settled => TimeInv'
<1> SUFFICES ASSUME WInv, TimeInv, Settled PROVE TimeInv'
  OBVIOUS
<1>1. WatchdogIsSoon'
  BY DEF TimeInv, Settled, ConnectStep, WatchdogIsSoon
<1>2. StopIsSet'
  BY DEF TimeInv, Settled, ConnectStep, StopIsSet
<1>3. SessionIsInTime'
  BY DEF TimeInv, Settled, ConnectStep, SessionIsInTime, Looping, Connecting
<1> QED
  BY <1>1, <1>2, <1>3 DEF TimeInv

LEMMA AttachRttInTime == WInv /\ TimeInv /\ AttachRtt => TimeInv'
<1> SUFFICES ASSUME WInv, TimeInv, AttachRtt PROVE TimeInv'
  OBVIOUS
<1>1. WatchdogIsSoon'
  BY DEF TimeInv, AttachRtt, ConnectStep, WatchdogIsSoon
<1>2. StopIsSet'
  BY DEF TimeInv, AttachRtt, ConnectStep, StopIsSet
<1>3. SessionIsInTime'
  BY DEF TimeInv, AttachRtt, ConnectStep, SessionIsInTime, Looping, Connecting
<1> QED
  BY <1>1, <1>2, <1>3 DEF TimeInv

LEMMA SetModeInTime == WInv /\ TimeInv /\ SetMode => TimeInv'
<1> SUFFICES ASSUME WInv, TimeInv, SetMode PROVE TimeInv'
  OBVIOUS
<1>1. WatchdogIsSoon'
  BY Bounds DEF TimeInv, SetMode, ConnectStep, Live, WatchdogIsSoon, WInv, TypeOK
<1>2. StopIsSet'
  BY DEF TimeInv, SetMode, ConnectStep, Live, StopIsSet
<1>3. SessionIsInTime'
  BY Bounds DEF TimeInv, SetMode, ConnectStep, Live, SessionIsInTime, WInv, TypeOK
<1> QED
  BY <1>1, <1>2, <1>3 DEF TimeInv

LEMMA ConnectFailsInTime == WInv /\ TimeInv /\ ConnectFails => TimeInv'
<1> SUFFICES ASSUME WInv, TimeInv, ConnectFails PROVE TimeInv'
  OBVIOUS
<1>1. WatchdogIsSoon'
  BY DEF TimeInv, ConnectFails, Ends, WatchdogIsSoon
<1>2. StopIsSet'
  BY DEF TimeInv, ConnectFails, Ends, StopIsSet, Looping, Connecting
<1>3. SessionIsInTime'
  BY DEF TimeInv, ConnectFails, Ends, SessionIsInTime, Looping, Connecting
<1> QED
  BY <1>1, <1>2, <1>3 DEF TimeInv

LEMMA ProbeFailsInTime == WInv /\ TimeInv /\ ProbeFails => TimeInv'
<1> SUFFICES ASSUME WInv, TimeInv, ProbeFails PROVE TimeInv'
  OBVIOUS
<1>1. WatchdogIsSoon'
  BY DEF TimeInv, ProbeFails, Ends, WatchdogIsSoon
<1>2. StopIsSet'
  BY DEF TimeInv, ProbeFails, Ends, StopIsSet
<1>3. SessionIsInTime'
  BY DEF TimeInv, ProbeFails, Ends, SessionIsInTime, Looping, Connecting
<1> QED
  BY <1>1, <1>2, <1>3 DEF TimeInv

LEMMA CheckStopInTime == WInv /\ TimeInv /\ CheckStop => TimeInv'
<1> SUFFICES ASSUME WInv, TimeInv, CheckStop PROVE TimeInv'
  OBVIOUS
<1>1. WatchdogIsSoon'
  BY DEF TimeInv, CheckStop, Ends, WatchdogIsSoon
<1>2. StopIsSet'
  BY DEF TimeInv, CheckStop, Ends, StopIsSet
<1>3. SessionIsInTime'
  BY Bounds
     DEF TimeInv, CheckStop, Ends, SessionIsInTime, WInv, TypeOK, WatchdogIsSoon,
         StopIsSet, Looping, Connecting
<1> QED
  BY <1>1, <1>2, <1>3 DEF TimeInv

LEMMA ReadStatusInTime == WInv /\ TimeInv /\ ReadStatus => TimeInv'
<1> SUFFICES ASSUME WInv, TimeInv, ReadStatus PROVE TimeInv'
  OBVIOUS
<1>1. WatchdogIsSoon'
  BY DEF TimeInv, ReadStatus, Ends, WatchdogIsSoon
<1>2. StopIsSet'
  BY DEF TimeInv, ReadStatus, Ends, StopIsSet
<1>3. SessionIsInTime'
  BY Bounds DEF TimeInv, ReadStatus, Ends, SessionIsInTime, WInv, TypeOK, Looping, Connecting
<1> QED
  BY <1>1, <1>2, <1>3 DEF TimeInv

LEMMA WakeUpInTime == WInv /\ TimeInv /\ WakeUp => TimeInv'
<1> SUFFICES ASSUME WInv, TimeInv, WakeUp PROVE TimeInv'
  OBVIOUS
<1>1. WatchdogIsSoon'
  BY DEF TimeInv, WakeUp, WatchdogIsSoon
<1>2. StopIsSet'
  BY DEF TimeInv, WakeUp, StopIsSet
<1>3. SessionIsInTime'
  BY DEF TimeInv, WakeUp, SessionIsInTime, WInv, TypeOK, Looping, Connecting
<1> QED
  BY <1>1, <1>2, <1>3 DEF TimeInv

LEMMA FinishInTime == WInv /\ TimeInv /\ Finish => TimeInv'
<1> SUFFICES ASSUME WInv, TimeInv, Finish PROVE TimeInv'
  OBVIOUS
<1>1. WatchdogIsSoon'
  BY DEF TimeInv, Finish, WatchdogIsSoon
<1>2. StopIsSet'
  BY DEF TimeInv, Finish, StopIsSet
<1>3. SessionIsInTime'
  BY DEF TimeInv, Finish, SessionIsInTime, Looping, Connecting
<1> QED
  BY <1>1, <1>2, <1>3 DEF TimeInv

LEMMA JoinInTime == WInv /\ TimeInv /\ Join => TimeInv'
<1> SUFFICES ASSUME WInv, TimeInv, Join PROVE TimeInv'
  OBVIOUS
<1>1. WatchdogIsSoon'
  BY DEF TimeInv, Join, WatchdogIsSoon
<1>2. StopIsSet'
  BY DEF TimeInv, Join, StopIsSet
<1>3. SessionIsInTime'
  BY DEF TimeInv, Join, SessionIsInTime, Looping, Connecting
<1> QED
  BY <1>1, <1>2, <1>3 DEF TimeInv

LEMMA TickInTime == WInv /\ TimeInv /\ Tick => TimeInv'
<1> SUFFICES ASSUME WInv, TimeInv, Tick PROVE TimeInv'
  OBVIOUS
<1>1. WatchdogIsSoon'
  BY DEF TimeInv, Tick, WatchdogIsSoon
<1>2. StopIsSet'
  BY Bounds, WorkerAssumption
     DEF TimeInv, Tick, StopIsSet, WInv, TypeOK, WatchdogIsSoon, SessionIsInTime,
         StopIsTrue, Commands, Reasons, Looping, Connecting, Outcomes
<1>3. SessionIsInTime'
  BY DEF TimeInv, Tick, SessionIsInTime
<1> QED
  BY <1>1, <1>2, <1>3 DEF TimeInv

LEMMA ClockInTime == WInv /\ TimeInv /\ Clock => TimeInv'
<1> SUFFICES ASSUME WInv, TimeInv, Clock PROVE TimeInv'
  OBVIOUS
<1>1. WatchdogIsSoon'
  BY Bounds DEF TimeInv, Clock, WatchdogIsSoon, WInv, TypeOK
<1>2. StopIsSet'
  BY WorkerAssumption DEF TimeInv, Clock, StopIsSet
<1>3. SessionIsInTime'
  BY DEF TimeInv, Clock, SessionIsInTime
<1> QED
  BY <1>1, <1>2, <1>3 DEF TimeInv

LEMMA FireInTime == WInv /\ TimeInv /\ Fire => TimeInv'
<1> SUFFICES ASSUME WInv, TimeInv, Fire PROVE TimeInv'
  OBVIOUS
<1>1. WatchdogIsSoon'
  BY DEF TimeInv, Fire, WatchdogIsSoon
<1>2. StopIsSet'
  BY DEF TimeInv, Fire, StopIsSet
<1>3. SessionIsInTime'
  BY DEF TimeInv, Fire, SessionIsInTime
<1> QED
  BY <1>1, <1>2, <1>3 DEF TimeInv

LEMMA DrainFrameInTime == WInv /\ TimeInv /\ DrainFrame => TimeInv'
<1> SUFFICES ASSUME WInv, TimeInv, DrainFrame PROVE TimeInv'
  OBVIOUS
<1>1. WatchdogIsSoon'
  BY Drained, Bounds DEF TimeInv, DrainFrame, WatchdogIsSoon, WInv, TypeOK
<1>2. StopIsSet'
  BY Drained DEF TimeInv, DrainFrame, StopIsSet
<1>3. SessionIsInTime'
  BY Drained, Bounds
     DEF TimeInv, DrainFrame, SessionIsInTime, WInv, TypeOK, Looping, Connecting
<1> QED
  BY <1>1, <1>2, <1>3 DEF TimeInv

LEMMA ReadRttInTime == WInv /\ TimeInv /\ ReadRtt => TimeInv'
<1> SUFFICES ASSUME WInv, TimeInv, ReadRtt PROVE TimeInv'
  OBVIOUS
<1>1. WatchdogIsSoon'
  BY Drained, Bounds DEF TimeInv, ReadRtt, WatchdogIsSoon, WInv, TypeOK
<1>2. StopIsSet'
  BY Drained DEF TimeInv, ReadRtt, StopIsSet
<1>3. SessionIsInTime'
  BY Drained, Bounds DEF TimeInv, ReadRtt, SessionIsInTime, WInv, TypeOK, Looping, Connecting
<1> QED
  BY <1>1, <1>2, <1>3 DEF TimeInv

LEMMA SendInTime == ASSUME NEW cmd \in Commands, WInv, TimeInv, Send(cmd) PROVE TimeInv'
<1>1. WatchdogIsSoon'
  BY DEF TimeInv, Send, WatchdogIsSoon
<1>2. StopIsSet'
  BY DEF TimeInv, Send, StopIsSet
<1>3. SessionIsInTime'
  BY DEF TimeInv, Send, SessionIsInTime
<1> QED
  BY <1>1, <1>2, <1>3 DEF TimeInv

LEMMA StutterInTime == TimeInv /\ UNCHANGED vars => TimeInv'
BY DEF TimeInv, WatchdogIsSoon, StopIsSet, SessionIsInTime, vars

LEMMA StepInTime == WInv /\ TimeInv /\ [Next]_vars => TimeInv'
<1> SUFFICES ASSUME WInv, TimeInv, [Next]_vars PROVE TimeInv'
  OBVIOUS
<1>1. CASE Connect \/ ConnectFails \/ ProbeFails
  BY <1>1, OpenInTime, LoadInTime, BootInTime, ParseInTime, SettledInTime, AttachRttInTime,
     SetModeInTime, ConnectFailsInTime, ProbeFailsInTime DEF Connect
<1>2. CASE WorkerStep
  BY <1>2, CheckStopInTime, DrainFrameInTime, ReadRttInTime, ReadStatusInTime, WakeUpInTime,
     FinishInTime, JoinInTime DEF WorkerStep
<1>3. CASE WatchdogStep
  BY <1>3, TickInTime, ClockInTime, FireInTime DEF WatchdogStep
<1>4. CASE TargetSends \/ TargetStops \/ Pass
  BY <1>4, TargetSendsInTime, TargetStopsInTime, PassInTime
<1>5. CASE \E cmd \in Commands : Send(cmd)
  BY <1>5, SendInTime
<1>6. CASE UNCHANGED vars
  BY <1>6, StutterInTime
<1> QED
  BY <1>1, <1>2, <1>3, <1>4, <1>5, <1>6 DEF Next

(* A session that is live never outlives a timeout by more than a period   *)
(* of the watchdog and a slice of sleep, whatever the timeouts are.        *)
THEOREM RunsEndInTime == Spec => []EndsInTime
<1>1. Init => TimeInv
  BY Bounds, WorkerAssumption
     DEF Init, TimeInv, WatchdogIsSoon, StopIsSet, SessionIsInTime, Looping
<1>2. WInv /\ TimeInv /\ [Next]_vars => TimeInv'
  BY StepInTime
<1>3. WInv /\ TimeInv => EndsInTime
  <2> SUFFICES ASSUME WInv, TimeInv, pc \in Looping
               PROVE  /\ now <= Later(HardMax + WatchdogTick, liveAt) + 1
                      /\ now <= lastActivity + Inactivity + WatchdogTick + 1
    BY DEF EndsInTime
  <2>1. now \in Nat /\ wake \in Nat /\ lastActivity \in Nat /\ liveAt \in Nat
    BY Bounds DEF WInv, TypeOK, TimeInv, SessionIsInTime
  <2> QED
    BY <2>1, Bounds DEF TimeInv, SessionIsInTime, Later, Looping
<1> QED
  BY <1>1, <1>2, <1>3, WorkerInvariance, PTL DEF Spec
=============================================================================
