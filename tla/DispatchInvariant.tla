-------------------------- MODULE DispatchInvariant --------------------------
(***************************************************************************)
(* The inductive invariant of Dispatch.  The safety properties are not     *)
(* inductive: that a board is exclusive depends on what the loop holds     *)
(* between its pick and its claim, and that a task owns its row depends on *)
(* where every task is.  IInv says both.                                   *)
(***************************************************************************)
EXTENDS Dispatch

(* What the loop holds at each of its control points.                      *)
LoopInv ==
  /\ loopPc \in {"run_claim", "run_register", "build_slot", "build_claim",
                 "build_register"} => pickJob \in Jobs
  /\ loopPc \in {"run_claim", "run_register"} => pickBoard \in Boards
  /\ loopPc = "run_claim" => pickBoard \in Eligible[pickJob] /\ ~Busy(pickBoard)
  /\ loopPc = "run_register" =>
       /\ jobState[pickJob] = "running"
       /\ runPc[pickJob] = "idle"
  /\ loopPc = "build_register" =>
       /\ jobState[pickJob] = "building"
       /\ buildPc[pickJob] = "idle"
  /\ pickSlot # None <=> loopPc \in {"build_claim", "build_register"}

(* A row that has not reached a stage has no task of that stage.           *)
FreshInv ==
  \A j \in Jobs :
    /\ j \in posting => jobState[j] = "absent"
    /\ jobState[j] \in {"absent", "submitted"} => buildPc[j] = "idle"
    /\ jobState[j] \in {"absent", "submitted", "building", "awaiting_board"} =>
         runPc[j] = "idle"

(* What a task knows of its row and of its result.                         *)
OwnsBuilding(j) ==
  \/ buildPc[j] \in InnerPcs \cup {"finalize"}
  \/ buildPc[j] \in {"release", "unregister"} /\ buildResult[j] # "advanced"
OwnsRunning(j) == runPc[j] \in OnBoardPcs \cup {"finalize"}
TaskInv ==
  \A j \in Jobs :
    /\ OwnsBuilding(j) => jobState[j] = "building"
    /\ buildPc[j] \in {"release", "unregister"} => buildResult[j] # None
    /\ buildPc[j] = "finalize" => buildResult[j] \in {"failed", "aborted"}
    /\ OwnsRunning(j) => jobState[j] = "running"
    /\ runPc[j] \in {"stopping", "finalize"} => runResult[j] # None

(* A Running row names its board, and no other Running row names it.       *)
BoardInv ==
  /\ \A j \in Jobs : jobState[j] = "running" => jobBoard[j] \in Boards
  /\ \A i, j \in Jobs : jobState[i] = "running" /\ jobState[j] = "running"
                        /\ jobBoard[i] = jobBoard[j] => i = j

(* Only the loop makes a row Building, and it made sure that nobody builds *)
(* the tar it has picked.                                                  *)
FlightInv ==
  /\ loopPc \in {"build_slot", "build_claim"} =>
       \A i \in Jobs : jobState[i] = "building" => TarOf[i] # TarOf[pickJob]
  /\ \A i, j \in Jobs : jobState[i] = "building" /\ jobState[j] = "building"
                        /\ TarOf[i] = TarOf[j] => i = j

(* A board that is served, or about to be, is below the threshold; a board *)
(* with no row has no failures; and a row that never ran names no board.   *)
HealthInv ==
  /\ \A b \in Boards : health[b] = "absent" => infra[b] = 0
  /\ loopPc = "run_claim" => infra[pickBoard] < InfraThreshold
  /\ \A j \in Jobs : jobState[j] = "running" => infra[jobBoard[j]] < InfraThreshold
  /\ \A j \in Jobs : jobState[j] \in {"absent", "submitted", "building", "awaiting_board"}
                      => jobBoard[j] = None

(* A task announces the end of its job after it has written it.            *)
AnnounceInv ==
  \A j \in Jobs : j \in announced \/ buildPc[j] = "publish" \/ runPc[j] = "publish" =>
    jobState[j] \in Terminal \cup {"purged"}

(* A slot is in the channel, with the loop, or with the one task that      *)
(* builds in it.                                                           *)
SlotInv ==
  /\ \A j \in Jobs : buildSlot[j] # None <=> buildPc[j] \in InnerPcs \cup {"release"}
  /\ \A i, j \in Jobs : buildSlot[i] = buildSlot[j] /\ buildSlot[i] # None => i = j
  /\ \A j \in Jobs : buildSlot[j] # None =>
       buildSlot[j] \notin freeSlots /\ buildSlot[j] # pickSlot
  /\ pickSlot \notin freeSlots
  /\ \A s \in Slots : s \in freeSlots \/ s = pickSlot \/ \E j \in Jobs : buildSlot[j] = s

IInv ==
  /\ TypeOK
  /\ LoopInv
  /\ FreshInv
  /\ TaskInv
  /\ BoardInv
  /\ SlotInv
  /\ FlightInv
  /\ HealthInv
  /\ AnnounceInv
  /\ InFlightOwned
  /\ QuarantineHolds
  /\ BoardsReferenced
=============================================================================
