----------------------------- MODULE JobLifecycle -----------------------------
(***************************************************************************)
(* What paavod promises about its jobs, without saying how: a job moves    *)
(* through its states one at a time, a tar is built by one job at a time,  *)
(* a board is a lock held by the one job that runs on it, a terminal job   *)
(* stays as it is, a crash interrupts exactly the jobs in flight, and a    *)
(* purge removes every job or none.  Dispatch implements it, with rows for *)
(* phases and "the Running row that names the board" for the lock.         *)
(***************************************************************************)
CONSTANTS Jobs, Boards, TarOf, Eligible, None

VARIABLES
  phase,   (* job -> its state                                             *)
  owner    (* board -> the job that holds it, or None                      *)

vars == <<phase, owner>>

Terminal == {"passed", "failed", "timed_out", "aborted"}
Waiting  == {"submitted", "awaiting_board"}
InFlight == {"building", "running"}

Moves(j, from, to) ==
  /\ phase[j] = from
  /\ phase' = [phase EXCEPT ![j] = to]

Submit(j) == Moves(j, "absent", "submitted") /\ UNCHANGED owner

StartBuild(j) ==
  /\ \A i \in Jobs : TarOf[i] = TarOf[j] => phase[i] # "building"
  /\ Moves(j, "submitted", "building")
  /\ UNCHANGED owner

FinishBuild(j) ==
  /\ \E to \in {"awaiting_board", "failed", "aborted"} : Moves(j, "building", to)
  /\ UNCHANGED owner

StartRun(j, b) ==
  /\ b \in Eligible[j] /\ owner[b] = None
  /\ Moves(j, "awaiting_board", "running")
  /\ owner' = [owner EXCEPT ![b] = j]

FinishRun(j, b) ==
  /\ owner[b] = j
  /\ \E to \in Terminal : Moves(j, "running", to)
  /\ owner' = [owner EXCEPT ![b] = None]

CancelWaiting(j) ==
  /\ \E from \in Waiting : Moves(j, from, "aborted")
  /\ UNCHANGED owner

Interrupt ==
  /\ phase' = [j \in Jobs |-> IF phase[j] \in InFlight THEN "aborted" ELSE phase[j]]
  /\ owner' = [b \in Boards |-> None]

PurgeAll ==
  /\ \A j \in Jobs : phase[j] \notin InFlight \cup {"awaiting_board"}
  /\ phase' = [j \in Jobs |-> IF phase[j] = "absent" THEN "absent" ELSE "purged"]
  /\ UNCHANGED owner

Init ==
  /\ phase = [j \in Jobs |-> "absent"]
  /\ owner = [b \in Boards |-> None]

Next ==
  \/ \E j \in Jobs : \/ Submit(j)
                     \/ StartBuild(j)
                     \/ FinishBuild(j)
                     \/ CancelWaiting(j)
                     \/ \E b \in Boards : StartRun(j, b) \/ FinishRun(j, b)
  \/ Interrupt
  \/ PurgeAll

Spec == Init /\ [][Next]_vars
=============================================================================
