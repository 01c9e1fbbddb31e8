-------------------------------- MODULE Worker --------------------------------
(***************************************************************************)
(* One run on a board: the firmware on the target, the probe session that  *)
(* connects, drains its RTT channel and looks whether the core has halted, *)
(* the board worker that turns the session's events into an outcome, and   *)
(* the watchdog thread that stops the worker when the run is silent or     *)
(* long for too long, or when a command arrives.                           *)
(*                                                                         *)
(* The firmware is loaded into RAM, runs from the boot on and fills the    *)
(* ring while the session still settles; until the session has told it to  *)
(* block, what does not fit is trimmed.                                    *)
(* Time is counted in idle slices of the session (50 ms).  The threads are *)
(* taken to be scheduled promptly: time passes only while both sleep.      *)
(* A message of the firmware is "ok" (an info frame `Test OK`), "log" (any *)
(* other frame) or "bad" (bytes that do not decode).                       *)
(***************************************************************************)
EXTENDS Naturals, SequencesExt

CONSTANTS
  Programs,    (* what the firmware may send: sequences of messages        *)
  Inactivity, HardMax,   (* the timeouts of the job                        *)
  WatchdogTick,(* the watchdog's period                                    *)
  MaxSkips,    (* MAX_MALFORMED_SKIPS                                      *)
  Settle,      (* idle slices between the boot and the RTT attach          *)
  RingSize,    (* messages the RTT buffer holds                            *)
  MaxCommands, (* bound: commands sent to the run                          *)
  MaxTime,     (* bound: time                                              *)
  None

ASSUME WorkerAssumption ==
  /\ Programs \subseteq Seq({"ok", "log", "bad"})
  /\ {Inactivity, HardMax, WatchdogTick, MaxSkips, Settle, RingSize} \subseteq Nat \ {0}
  /\ MaxCommands \in Nat
  /\ MaxTime \in Nat /\ MaxTime > HardMax + WatchdogTick + 1 + Settle
  /\ None \notin {"passed", "test_err", "infra_err",
                  "inactivity", "hard_max", "cancel", "daemon_shutdown"}

VARIABLES
  now,
  (* The target *)
  program,     (* the messages it has yet to send                          *)
  running,     (* its core was started                                     *)
  rtt,         (* the RTT up channel                                       *)
  mode,        (* its mode: "trim", "block", or "stuck" when it cannot be  *)
               (* set                                                      *)
  torn,        (* the last message was cut, and runs into the next         *)
  halted,      (* the core has halted at a breakpoint                      *)
  sentOk,      (* it has sent "ok"                                         *)
  trimmed,     (* a message was trimmed before the session was live, or in *)
               (* a channel that is stuck                                  *)
  (* The session and the worker *)
  pc, wake,
  decoder,     (* bytes read and not yet decoded                           *)
  seenOk,      (* seen_test_ok                                             *)
  liveAt,      (* when the session came up                                 *)
  outcome,
  (* Shared by worker and watchdog *)
  lastActivity, stop, workerDone,
  (* The watchdog *)
  wdPc, wdWake,
  verdict,     (* the timeout it has found exceeded                        *)
  commands,    (* the cancel channel                                       *)
  accepted     (* the commands its senders were told were taken, in order  *)

target   == <<program, running, rtt, mode, torn, halted, sentOk, trimmed>>
worker   == <<pc, wake, decoder, seenOk, liveAt, outcome>>
watchdog == <<wdPc, wdWake, verdict>>
channel  == <<commands, accepted>>
shared   == <<lastActivity, stop, workerDone>>
vars     == <<now, target, worker, watchdog, channel, shared>>

Reasons  == {"inactivity", "hard_max", "cancel", "daemon_shutdown"}
Commands == {"cancel", "daemon_shutdown"}
Outcomes == {"passed", "test_err", "infra_err"} \cup Reasons
Connecting == {"open", "load", "boot", "parse", "settle", "rtt", "mode"}
Looping  == {"check", "drain", "read", "status", "sleep"}

-----------------------------------------------------------------------------
(* Time passes when nobody has anything left to do in this slice.  Of the  *)
(* calls that connect, the one that loads takes time.                      *)
Pass ==
  /\ now < MaxTime
  /\ pc = "done"
     \/ (pc = "load" /\ now < MaxTime - Settle)
     \/ (pc \in {"settle", "sleep"} /\ wake > now)
     \/ (pc = "join" /\ wdPc = "run")
  /\ wdPc = "gone" \/ (wdPc = "run" /\ wdWake > now)
  /\ now' = now + 1
  /\ UNCHANGED <<target, worker, watchdog, channel, shared>>

(* The firmware runs at its own speed: it sends its messages, then stops   *)
(* at a breakpoint; it may hang at any point.  A full ring makes it wait,  *)
(* or trims the message, whose remains spoil the next.                     *)
Fits == Len(rtt) < RingSize

TargetSends ==
  /\ running /\ program # <<>>
  /\ Fits \/ mode # "block"
  /\ program' = Tail(program)
  /\ sentOk' = (sentOk \/ Head(program) = "ok")
  /\ IF Fits THEN /\ rtt' = Append(rtt, IF torn THEN "bad" ELSE Head(program))
                  /\ torn' = FALSE
                  /\ UNCHANGED trimmed
     ELSE /\ torn' \in {torn, TRUE}
          /\ trimmed' = (trimmed \/ mode = "stuck" \/ pc \notin Looping)
          /\ UNCHANGED rtt
  /\ UNCHANGED <<now, running, mode, halted, worker, watchdog, channel, shared>>

TargetStops ==
  /\ running /\ program = <<>>
  /\ halted' = TRUE
  /\ UNCHANGED <<now, program, running, rtt, mode, torn, sentOk, trimmed, worker,
                 watchdog, channel, shared>>

-----------------------------------------------------------------------------
(* The worker.                                                             *)

Ends(out) == outcome' = out /\ pc' = "finish"

(* make_session is RealSession::connect, one call of probe-rs after the    *)
(* other; whichever fails ends the run and drops the session.              *)
ConnectStep(from, to) ==
  /\ pc = from /\ pc' = to
  /\ UNCHANGED <<now, decoder, seenOk, outcome, watchdog, channel, stop, workerDone>>

(* The probe by its selector, and the chip by its name.                    *)
Open ==
  /\ ConnectStep("open", "load")
  /\ UNCHANGED <<target, wake, liveAt, lastActivity>>

(* The loader leaves the core halted and the image in RAM.                 *)
Load ==
  /\ ConnectStep("load", "boot")
  /\ UNCHANGED <<target, wake, liveAt, lastActivity>>

(* An image that lives in flash is refused (ConnectFails).                 *)
Boot ==
  /\ ConnectStep("boot", "parse")
  /\ running' = TRUE
  /\ UNCHANGED <<program, rtt, mode, torn, halted, sentOk, trimmed, wake, liveAt, lastActivity>>

(* The decode table, and _SEGGER_RTT, from a second read of the ELF.       *)
Parse ==
  /\ ConnectStep("parse", "settle")
  /\ wake' = now + Settle
  /\ UNCHANGED <<target, liveAt, lastActivity>>

Settled ==
  /\ wake <= now
  /\ ConnectStep("settle", "rtt")
  /\ UNCHANGED <<target, wake, liveAt, lastActivity>>

(* The control block, and in it the channel named defmt.                   *)
AttachRtt ==
  /\ ConnectStep("rtt", "mode")
  /\ UNCHANGED <<target, wake, liveAt, lastActivity>>

(* The session is up; the inactivity clock starts again.                   *)
Live == liveAt' = now /\ lastActivity' = now /\ UNCHANGED wake

(* Mutant: the channel stays as the firmware set it up.                    *)
SetModeNot ==
  /\ ConnectStep("mode", "check")
  /\ Live
  /\ UNCHANGED target

(* A channel that cannot be set to BlockIfFull is used as it is.           *)
SetMode ==
  /\ ConnectStep("mode", "check")
  /\ mode' \in {"block", "stuck"}
  /\ Live
  /\ UNCHANGED <<program, running, rtt, torn, halted, sentOk, trimmed>>

Connect == Open \/ Load \/ Boot \/ Parse \/ Settled \/ AttachRtt \/ SetMode

ConnectFails ==
  /\ pc \in Connecting
  /\ Ends("infra_err")
  /\ UNCHANGED <<now, target, wake, decoder, seenOk, liveAt, watchdog, channel, shared>>

(* Mutant: only commands are looked for.                                   *)
CheckCommand ==
  /\ pc = "check"
  /\ \/ stop \in Commands /\ Ends(stop)
     \/ stop \notin Commands /\ pc' = "drain" /\ UNCHANGED outcome
  /\ UNCHANGED <<now, target, wake, decoder, seenOk, liveAt, watchdog, channel, shared>>

(* Top of drive_session: a stop reason ends the run.                       *)
CheckStop ==
  /\ pc = "check"
  /\ \/ stop # None /\ Ends(stop)
     \/ stop = None /\ pc' = "drain" /\ UNCHANGED outcome
  /\ UNCHANGED <<now, target, wake, decoder, seenOk, liveAt, watchdog, channel, shared>>

(* drain_one_frame: the first frame that decodes is given to the worker,   *)
(* unless MaxSkips that do not come before it.                             *)
FirstGood(bytes, k) ==
  k \in DOMAIN bytes /\ bytes[k] # "bad" /\ \A i \in 1 .. k - 1 : bytes[i] = "bad"

Skipped(bytes) == IF Len(bytes) < MaxSkips THEN Len(bytes) ELSE MaxSkips

Drain(bytes, next) ==
  \/ \E k \in 1 .. MaxSkips :
       /\ FirstGood(bytes, k)
       /\ decoder' = SubSeq(bytes, k + 1, Len(bytes))
       /\ seenOk' = (seenOk \/ bytes[k] = "ok")
       /\ lastActivity' = now
       /\ pc' = "check"
  \/ /\ \A i \in 1 .. Skipped(bytes) : bytes[i] = "bad"
     /\ decoder' = SubSeq(bytes, Skipped(bytes) + 1, Len(bytes))
     /\ pc' = next
     /\ UNCHANGED <<seenOk, lastActivity>>

(* poll_rtt_once: what is decoded already ...                              *)
DrainFrame ==
  /\ pc = "drain"
  /\ Drain(decoder, "read")
  /\ UNCHANGED <<now, target, wake, liveAt, outcome, watchdog, channel, stop, workerDone>>

(* ... then what the channel holds, if it holds anything.                  *)
ReadRtt ==
  /\ pc = "read"
  /\ \/ /\ rtt # <<>>
        /\ Drain(decoder \o rtt, "status")
        /\ rtt' = <<>>
     \/ /\ rtt = <<>>
        /\ pc' = "status"
        /\ UNCHANGED <<rtt, decoder, seenOk, lastActivity>>
  /\ UNCHANGED <<now, program, running, mode, torn, halted, sentOk, trimmed, wake, liveAt, outcome,
                 watchdog, channel, stop, workerDone>>

(* Mutant: `Test OK` is enough.                                            *)
ReadStatusEager ==
  /\ pc = "status"
  /\ \/ seenOk /\ Ends("passed") /\ UNCHANGED wake
     \/ ~seenOk /\ halted /\ Ends("test_err") /\ UNCHANGED wake
     \/ ~seenOk /\ ~halted /\ pc' = "sleep" /\ wake' = now + 1 /\ UNCHANGED outcome
  /\ UNCHANGED <<now, target, decoder, seenOk, liveAt, watchdog, channel, shared>>

(* Mutant: the sleep is not cut to a slice.                                *)
ReadStatusSleepsLong ==
  /\ pc = "status"
  /\ \/ halted /\ Ends(IF seenOk THEN "passed" ELSE "test_err") /\ UNCHANGED wake
     \/ ~halted /\ pc' = "sleep" /\ wake' = now + 10 /\ UNCHANGED outcome
  /\ UNCHANGED <<now, target, decoder, seenOk, liveAt, watchdog, channel, shared>>

(* Only then does the session look whether the core has halted; if it has  *)
(* not, it sleeps for a slice.                                             *)
ReadStatus ==
  /\ pc = "status"
  /\ \/ halted /\ Ends(IF seenOk THEN "passed" ELSE "test_err") /\ UNCHANGED wake
     \/ ~halted /\ pc' = "sleep" /\ wake' = now + 1 /\ UNCHANGED outcome
  /\ UNCHANGED <<now, target, decoder, seenOk, liveAt, watchdog, channel, shared>>

WakeUp ==
  /\ pc = "sleep" /\ wake <= now
  /\ pc' = "check"
  /\ UNCHANGED <<now, target, wake, decoder, seenOk, liveAt, outcome, watchdog,
                 channel, shared>>

(* The probe fails or is unplugged, wherever the session talks to it.      *)
ProbeFails ==
  /\ pc \in {"read", "status"}
  /\ Ends("infra_err")
  /\ UNCHANGED <<now, target, wake, decoder, seenOk, liveAt, watchdog, channel, shared>>

(* Tell the watchdog, ...                                                  *)
Finish ==
  /\ pc = "finish"
  /\ pc' = "join"
  /\ workerDone' = TRUE
  /\ UNCHANGED <<now, target, wake, decoder, seenOk, liveAt, outcome, watchdog,
                 channel, lastActivity, stop>>

(* ... which sleeps until its next tick, and join it.                      *)
Join ==
  /\ pc = "join" /\ wdPc = "gone"
  /\ pc' = "done"
  /\ UNCHANGED <<now, target, wake, decoder, seenOk, liveAt, outcome, watchdog,
                 channel, shared>>

WorkerStep == CheckStop \/ DrainFrame \/ ReadRtt \/ ReadStatus \/ WakeUp \/ Finish \/ Join

-----------------------------------------------------------------------------
(* The watchdog.                                                           *)

(* An iteration begins: the worker's end or a command first, ...           *)
Tick ==
  /\ wdPc = "run" /\ wdWake <= now
  /\ \/ workerDone /\ wdPc' = "gone" /\ UNCHANGED <<stop, commands>>
     \/ /\ ~workerDone /\ commands # <<>>
        /\ stop' = Head(commands) /\ commands' = Tail(commands)
        /\ wdPc' = "gone"
     \/ ~workerDone /\ commands = <<>> /\ wdPc' = "clock" /\ UNCHANGED <<stop, commands>>
  /\ UNCHANGED <<now, target, worker, wdWake, accepted, lastActivity, workerDone, verdict>>

(* Mutant: the hard maximum is off by one.                                 *)
ClockEarly ==
  /\ wdPc = "clock"
  /\ \/ /\ now - lastActivity > Inactivity
        /\ verdict' = "inactivity" /\ wdPc' = "fire" /\ UNCHANGED wdWake
     \/ /\ now - lastActivity <= Inactivity /\ now >= HardMax - 1
        /\ verdict' = "hard_max" /\ wdPc' = "fire" /\ UNCHANGED wdWake
     \/ /\ now - lastActivity <= Inactivity /\ now < HardMax - 1
        /\ wdWake' = now + WatchdogTick /\ wdPc' = "run" /\ UNCHANGED verdict
  /\ UNCHANGED <<now, target, worker, channel, shared>>

(* ... then the two timeouts, the silent one first; in time, it sleeps.    *)
Clock ==
  /\ wdPc = "clock"
  /\ \/ /\ now - lastActivity > Inactivity
        /\ verdict' = "inactivity" /\ wdPc' = "fire" /\ UNCHANGED wdWake
     \/ /\ now - lastActivity <= Inactivity /\ now > HardMax
        /\ verdict' = "hard_max" /\ wdPc' = "fire" /\ UNCHANGED wdWake
     \/ /\ now - lastActivity <= Inactivity /\ now <= HardMax
        /\ wdWake' = now + WatchdogTick /\ wdPc' = "run" /\ UNCHANGED verdict
  /\ UNCHANGED <<now, target, worker, channel, shared>>

(* The reason is stored after the locks it was found under are released.   *)
Fire ==
  /\ wdPc = "fire"
  /\ stop' = verdict /\ wdPc' = "gone"
  /\ UNCHANGED <<now, target, worker, wdWake, verdict, channel, lastActivity, workerDone>>

WatchdogStep == Tick \/ Clock \/ Fire

(* CancellationRegistry::signal: taken while the watchdog has its receiver.*)
Send(cmd) ==
  /\ wdPc # "gone" /\ Len(accepted) < MaxCommands
  /\ commands' = Append(commands, cmd)
  /\ accepted' = Append(accepted, cmd)
  /\ UNCHANGED <<now, target, worker, watchdog, shared>>

-----------------------------------------------------------------------------

Init ==
  /\ now = 0
  /\ program \in Programs
  /\ running = FALSE /\ rtt = <<>> /\ mode = "trim" /\ torn = FALSE
  /\ halted = FALSE /\ sentOk = FALSE /\ trimmed = FALSE
  /\ pc = "open" /\ wake = 0 /\ decoder = <<>> /\ seenOk = FALSE
  /\ liveAt = None /\ outcome = None
  /\ lastActivity = 0 /\ stop = None /\ workerDone = FALSE
  /\ wdPc = "run" /\ wdWake = 0 /\ verdict = None
  /\ commands = <<>> /\ accepted = <<>>

Next ==
  \/ Pass
  \/ TargetSends \/ TargetStops
  \/ Connect \/ ConnectFails \/ ProbeFails
  \/ WorkerStep
  \/ WatchdogStep
  \/ \E cmd \in Commands : Send(cmd)

Spec == Init /\ [][Next]_vars

(* The threads run, time passes and connect returns; the firmware and   *)
(* the clients owe nothing.                                                *)
FairSpec ==
  Spec /\ WF_vars(Pass) /\ WF_vars(Connect) /\ WF_vars(WorkerStep) /\ WF_vars(WatchdogStep)

-----------------------------------------------------------------------------

Message == {"ok", "log", "bad"}

TypeOK ==
  /\ now \in 0..MaxTime
  /\ program \in Seq(Message) /\ rtt \in Seq(Message) /\ decoder \in Seq(Message)
  /\ {running, torn, halted, sentOk, trimmed, seenOk, workerDone} \subseteq BOOLEAN
  /\ mode \in {"trim", "block", "stuck"}
  /\ pc \in {"finish", "join", "done"} \cup Connecting \cup Looping
  /\ wdPc \in {"run", "clock", "fire", "gone"} /\ {wake, wdWake, lastActivity} \subseteq Nat
  /\ liveAt \in Nat \cup {None} /\ outcome \in Outcomes \cup {None}
  /\ stop \in Reasons \cup {None} /\ verdict \in {"inactivity", "hard_max", None}
  /\ commands \in Seq(Commands) /\ accepted \in Seq(Commands)

(* A run passes only when its firmware sent `Test OK` and then stopped at  *)
(* a breakpoint, whatever the watchdog does meanwhile.                     *)
PassIsEarned == outcome = "passed" => sentOk /\ halted

Later(a, b) == IF a > b THEN a ELSE b

(* Once the session is live, it outlives neither timeout by more than the  *)
(* watchdog's period and one slice of sleep: the reset of the clock at     *)
(* the attach, the frames and the sleeps of the two threads add nothing.   *)
EndsInTime ==
  pc \in Looping =>
    /\ now <= Later(HardMax + WatchdogTick, liveAt) + 1
    /\ now <= lastActivity + Inactivity + WatchdogTick + 1

(* A run stopped by a command was stopped by the first one its senders     *)
(* were told was taken, and a run that no command and no timeout stopped   *)
(* ends with a verdict of its own.                                         *)
EndsForAReason ==
  outcome \in Reasons =>
    /\ outcome = stop
    /\ outcome \in Commands => outcome = Head(accepted)
    /\ outcome = "hard_max" => now > HardMax

(* Every run whose attach returns ends: a firmware that hangs, one that    *)
(* never stops talking and one whose frames do not decode included.        *)
RunEnds == <>(pc = "done")

(* What session.rs says of the order of its two reads, and of the mode it  *)
(* sets: the `Test OK` of a firmware that stops at a breakpoint is missed  *)
(* only if it is still unread when the core is seen to have halted, or if  *)
(* the ring overflowed before the session was live or could not be set.    *)
OkIsNotLost ==
  outcome = "test_err" /\ sentOk => trimmed \/ "ok" \in Range(decoder) \cup Range(rtt)
=============================================================================
