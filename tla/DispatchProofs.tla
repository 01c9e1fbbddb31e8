---------------------------- MODULE DispatchProofs ----------------------------
(***************************************************************************)
(* Proofs about Dispatch, for any jobs, boards, slots and bounds.  One     *)
(* lemma per action says that it preserves every part of IInv: first the   *)
(* parts about variables it leaves alone, then one step for each part it   *)
(* can disturb.  The theorems at the end follow from these lemmas.         *)
(***************************************************************************)
EXTENDS DispatchInvariant, TLAPS

(* The groups of variables an action leaves alone.                         *)
USE DEF rows, fleet, loop, builds, runs, http, control, Inside, Elsewhere

-----------------------------------------------------------------------------
(* The dispatch loop.                                                      *)

(* A tick moves the control of the loop only.                              *)
LEMMA TickStep ==
  ASSUME IInv, Tick
  PROVE  IInv'
<1>1. /\ FreshInv'
      /\ TaskInv'
      /\ BoardInv'
      /\ AnnounceInv'
      /\ QuarantineHolds'
      /\ BoardsReferenced'
  BY DEF IInv, FreshInv, TaskInv, OwnsBuilding, OwnsRunning, BoardInv,
         AnnounceInv, QuarantineHolds, BoardsReferenced, Rows, Tick, Goto
<1>2. TypeOK'
  BY DEF IInv, TypeOK, JobStates, Terminal, LoopPcs, BuildPcs, InnerPcs,
         RunPcs, OnBoardPcs, RunOutcomes, Tick, Goto
<1>3. LoopInv'
  BY DEF IInv, LoopInv, Busy, Tick, Goto
<1>4. SlotInv'
  BY DispatchAssumption DEF IInv, SlotInv, InnerPcs, TypeOK, OnBoardPcs,
         LoopInv, Busy, Tick, Goto
<1>5. FlightInv'
  BY DEF IInv, FlightInv, Tick, Goto
<1>6. HealthInv'
  BY DEF IInv, HealthInv, Tick, Goto
<1>7. InFlightOwned'
  BY DEF IInv, InFlightOwned, InnerPcs, OnBoardPcs, Tick, Goto
<1> QED
  BY <1>1, <1>2, <1>3, <1>4, <1>5, <1>6, <1>7 DEF IInv

(* The board picked is healthy and not busy: what LoopInv and HealthInv    *)
(* say at run_claim.                                                       *)
LEMMA RunPickStep ==
  ASSUME IInv, RunPick
  PROVE  IInv'
<1>1. /\ FreshInv'
      /\ TaskInv'
      /\ BoardInv'
      /\ AnnounceInv'
      /\ QuarantineHolds'
      /\ BoardsReferenced'
  BY DEF IInv, FreshInv, TaskInv, OwnsBuilding, OwnsRunning, BoardInv,
         AnnounceInv, QuarantineHolds, BoardsReferenced, Rows, RunPick, Goto,
         Runnable
<1>2. TypeOK'
  BY DEF IInv, TypeOK, JobStates, Terminal, LoopPcs, BuildPcs, InnerPcs,
         RunPcs, OnBoardPcs, RunOutcomes, RunPick, Goto, Runnable
<1>3. LoopInv'
  BY DEF IInv, LoopInv, Busy, RunPick, Goto, Runnable
<1>4. SlotInv'
  BY DispatchAssumption DEF IInv, SlotInv, InnerPcs, TypeOK, OnBoardPcs,
         LoopInv, Busy, RunPick, Goto, Runnable
<1>5. FlightInv'
  BY DEF IInv, FlightInv, RunPick, Goto, Runnable
<1>6. HealthInv'
  BY DispatchAssumption DEF IInv, HealthInv, TypeOK, OnBoardPcs, InnerPcs,
         QuarantineHolds, RunPick, Goto, Runnable
<1>7. InFlightOwned'
  BY DEF IInv, InFlightOwned, InnerPcs, OnBoardPcs, RunPick, Goto, Runnable
<1> QED
  BY <1>1, <1>2, <1>3, <1>4, <1>5, <1>6, <1>7 DEF IInv

(* The board was free when it was picked and only the loop takes boards,   *)
(* so the claim keeps BoardInv although it does not look again.            *)
LEMMA RunClaimStep ==
  ASSUME IInv, RunClaim
  PROVE  IInv'
<1>1. TypeOK'
  BY DEF IInv, TypeOK, JobStates, Terminal, LoopPcs, BuildPcs, InnerPcs,
         RunPcs, OnBoardPcs, RunOutcomes, RunClaim, Goto
<1>2. LoopInv'
  BY DispatchAssumption DEF IInv, LoopInv, Busy, TypeOK, OnBoardPcs, InnerPcs,
         FreshInv, RunClaim, Goto
<1>3. FreshInv'
  BY DEF IInv, FreshInv, TypeOK, OnBoardPcs, InnerPcs, RunClaim, Goto
<1>4. TaskInv'
  BY DEF IInv, TaskInv, OwnsBuilding, OwnsRunning, InnerPcs, OnBoardPcs,
         TypeOK, RunClaim, Goto
<1>5. BoardInv'
  BY DispatchAssumption DEF IInv, BoardInv, TypeOK, OnBoardPcs, InnerPcs,
         LoopInv, Busy, RunClaim, Goto
<1>6. SlotInv'
  BY DispatchAssumption DEF IInv, SlotInv, InnerPcs, TypeOK, OnBoardPcs,
         LoopInv, Busy, RunClaim, Goto
<1>7. FlightInv'
  BY DispatchAssumption DEF IInv, FlightInv, TypeOK, OnBoardPcs, InnerPcs,
         RunClaim, Goto
<1>8. HealthInv'
  BY DispatchAssumption DEF IInv, HealthInv, TypeOK, OnBoardPcs, InnerPcs,
         RunClaim, Goto
<1>9. AnnounceInv'
  BY DispatchAssumption DEF IInv, AnnounceInv, Terminal, TypeOK, OnBoardPcs,
         InnerPcs, RunClaim, Goto
<1>10. InFlightOwned'
  BY DEF IInv, InFlightOwned, InnerPcs, OnBoardPcs, TypeOK, RunClaim, Goto
<1>11. QuarantineHolds'
  BY DEF IInv, QuarantineHolds, RunClaim, Goto
<1>12. BoardsReferenced'
  BY DispatchAssumption DEF IInv, BoardsReferenced, Rows, TypeOK, OnBoardPcs,
         InnerPcs, RunClaim, Goto
<1> QED
  BY <1>1, <1>2, <1>3, <1>4, <1>5, <1>6, <1>7, <1>8, <1>9, <1>10, <1>11, <1>12 DEF IInv

(* The Running row passes from the loop to its run task.                   *)
LEMMA RunRegisterStep ==
  ASSUME IInv, RunRegister
  PROVE  IInv'
<1>1. /\ BoardInv'
      /\ QuarantineHolds'
      /\ BoardsReferenced'
  BY DEF IInv, BoardInv, QuarantineHolds, BoardsReferenced, Rows, RunRegister,
         Goto
<1>2. TypeOK'
  BY DispatchAssumption DEF IInv, TypeOK, JobStates, Terminal, LoopPcs,
         BuildPcs, InnerPcs, RunPcs, OnBoardPcs, RunOutcomes, LoopInv, Busy,
         RunRegister, Goto
<1>3. LoopInv'
  BY DEF IInv, LoopInv, Busy, RunRegister, Goto
<1>4. FreshInv'
  BY DispatchAssumption DEF IInv, FreshInv, TypeOK, OnBoardPcs, InnerPcs,
         LoopInv, Busy, RunRegister, Goto
<1>5. TaskInv'
  BY DispatchAssumption DEF IInv, TaskInv, OwnsBuilding, OwnsRunning,
         InnerPcs, OnBoardPcs, TypeOK, LoopInv, Busy, RunRegister, Goto
<1>6. SlotInv'
  BY DispatchAssumption DEF IInv, SlotInv, InnerPcs, TypeOK, OnBoardPcs,
         LoopInv, Busy, RunRegister, Goto
<1>7. FlightInv'
  BY DEF IInv, FlightInv, RunRegister, Goto
<1>8. HealthInv'
  BY DEF IInv, HealthInv, RunRegister, Goto
<1>9. AnnounceInv'
  BY DEF IInv, AnnounceInv, Terminal, RunRegister, Goto
<1>10. InFlightOwned'
  BY DEF IInv, InFlightOwned, InnerPcs, OnBoardPcs, TypeOK, RunRegister, Goto
<1> QED
  BY <1>1, <1>2, <1>3, <1>4, <1>5, <1>6, <1>7, <1>8, <1>9, <1>10 DEF IInv

(* Nobody builds the tar that is picked: what FlightInv says at            *)
(* build_slot.                                                             *)
LEMMA BuildPickStep ==
  ASSUME IInv, BuildPick
  PROVE  IInv'
<1>1. /\ FreshInv'
      /\ TaskInv'
      /\ BoardInv'
      /\ AnnounceInv'
      /\ QuarantineHolds'
      /\ BoardsReferenced'
  BY DEF IInv, FreshInv, TaskInv, OwnsBuilding, OwnsRunning, BoardInv,
         AnnounceInv, QuarantineHolds, BoardsReferenced, Rows, BuildPick,
         Goto, Buildable
<1>2. TypeOK'
  BY DEF IInv, TypeOK, JobStates, Terminal, LoopPcs, BuildPcs, InnerPcs,
         RunPcs, OnBoardPcs, RunOutcomes, BuildPick, Goto, Buildable
<1>3. LoopInv'
  BY DEF IInv, LoopInv, Busy, BuildPick, Goto, Buildable
<1>4. SlotInv'
  BY DispatchAssumption DEF IInv, SlotInv, InnerPcs, TypeOK, OnBoardPcs,
         LoopInv, Busy, BuildPick, Goto, Buildable
<1>5. FlightInv'
  BY DEF IInv, FlightInv, BuildPick, Goto, Buildable
<1>6. HealthInv'
  BY DEF IInv, HealthInv, BuildPick, Goto, Buildable
<1>7. InFlightOwned'
  BY DEF IInv, InFlightOwned, InnerPcs, OnBoardPcs, BuildPick, Goto, Buildable
<1> QED
  BY <1>1, <1>2, <1>3, <1>4, <1>5, <1>6, <1>7 DEF IInv

(* A slot passes from the channel to the loop.                             *)
LEMMA BuildTakeSlotStep ==
  ASSUME IInv, BuildTakeSlot
  PROVE  IInv'
<1>1. /\ FreshInv'
      /\ TaskInv'
      /\ BoardInv'
      /\ AnnounceInv'
      /\ QuarantineHolds'
      /\ BoardsReferenced'
  BY DEF IInv, FreshInv, TaskInv, OwnsBuilding, OwnsRunning, BoardInv,
         AnnounceInv, QuarantineHolds, BoardsReferenced, Rows, BuildTakeSlot,
         Goto
<1>2. TypeOK'
  BY DEF IInv, TypeOK, JobStates, Terminal, LoopPcs, BuildPcs, InnerPcs,
         RunPcs, OnBoardPcs, RunOutcomes, BuildTakeSlot, Goto
<1>3. LoopInv'
  BY DispatchAssumption DEF IInv, LoopInv, Busy, TypeOK, OnBoardPcs, InnerPcs,
         BuildTakeSlot, Goto
<1>4. SlotInv'
  BY DispatchAssumption DEF IInv, SlotInv, InnerPcs, TypeOK, OnBoardPcs,
         LoopInv, Busy, BuildTakeSlot, Goto
<1>5. FlightInv'
  BY DEF IInv, FlightInv, BuildTakeSlot, Goto
<1>6. HealthInv'
  BY DEF IInv, HealthInv, BuildTakeSlot, Goto
<1>7. InFlightOwned'
  BY DEF IInv, InFlightOwned, InnerPcs, OnBoardPcs, BuildTakeSlot, Goto
<1> QED
  BY <1>1, <1>2, <1>3, <1>4, <1>5, <1>6, <1>7 DEF IInv

(* A claim that lost its race gives the slot back.                         *)
LEMMA BuildClaimStep ==
  ASSUME IInv, BuildClaim
  PROVE  IInv'
<1>1. TypeOK'
  BY DispatchAssumption DEF IInv, TypeOK, JobStates, Terminal, LoopPcs,
         BuildPcs, InnerPcs, RunPcs, OnBoardPcs, RunOutcomes, LoopInv, Busy,
         BuildClaim, Goto
<1>2. LoopInv'
  BY DispatchAssumption DEF IInv, LoopInv, Busy, TypeOK, OnBoardPcs, InnerPcs,
         FreshInv, BuildClaim, Goto
<1>3. FreshInv'
  BY DEF IInv, FreshInv, TypeOK, OnBoardPcs, InnerPcs, BuildClaim, Goto
<1>4. TaskInv'
  BY DEF IInv, TaskInv, OwnsBuilding, OwnsRunning, InnerPcs, OnBoardPcs,
         TypeOK, BuildClaim, Goto
<1>5. BoardInv'
  BY DEF IInv, BoardInv, TypeOK, OnBoardPcs, InnerPcs, BuildClaim, Goto
<1>6. SlotInv'
  BY DispatchAssumption DEF IInv, SlotInv, InnerPcs, TypeOK, OnBoardPcs,
         LoopInv, Busy, BuildClaim, Goto
<1>7. FlightInv'
  BY DispatchAssumption DEF IInv, FlightInv, TypeOK, OnBoardPcs, InnerPcs,
         BuildClaim, Goto
<1>8. HealthInv'
  BY DispatchAssumption DEF IInv, HealthInv, TypeOK, OnBoardPcs, InnerPcs,
         BuildClaim, Goto
<1>9. AnnounceInv'
  BY DispatchAssumption DEF IInv, AnnounceInv, Terminal, TypeOK, OnBoardPcs,
         InnerPcs, BuildClaim, Goto
<1>10. InFlightOwned'
  BY DEF IInv, InFlightOwned, InnerPcs, OnBoardPcs, TypeOK, BuildClaim, Goto
<1>11. QuarantineHolds'
  BY DEF IInv, QuarantineHolds, BuildClaim, Goto
<1>12. BoardsReferenced'
  BY DispatchAssumption DEF IInv, BoardsReferenced, Rows, TypeOK, OnBoardPcs,
         InnerPcs, BuildClaim, Goto
<1> QED
  BY <1>1, <1>2, <1>3, <1>4, <1>5, <1>6, <1>7, <1>8, <1>9, <1>10, <1>11, <1>12 DEF IInv

(* The Building row and the slot pass from the loop to the build task.     *)
LEMMA BuildRegisterStep ==
  ASSUME IInv, BuildRegister
  PROVE  IInv'
<1>1. /\ BoardInv'
      /\ QuarantineHolds'
      /\ BoardsReferenced'
  BY DEF IInv, BoardInv, QuarantineHolds, BoardsReferenced, Rows,
         BuildRegister, Goto
<1>2. TypeOK'
  BY DispatchAssumption DEF IInv, TypeOK, JobStates, Terminal, LoopPcs,
         BuildPcs, InnerPcs, RunPcs, OnBoardPcs, RunOutcomes, LoopInv, Busy,
         BuildRegister, Goto
<1>3. LoopInv'
  BY DEF IInv, LoopInv, Busy, BuildRegister, Goto
<1>4. FreshInv'
  BY DispatchAssumption DEF IInv, FreshInv, TypeOK, OnBoardPcs, InnerPcs,
         LoopInv, Busy, BuildRegister, Goto
<1>5. TaskInv'
  BY DispatchAssumption DEF IInv, TaskInv, OwnsBuilding, OwnsRunning,
         InnerPcs, OnBoardPcs, TypeOK, LoopInv, Busy, BuildRegister, Goto
<1>6. SlotInv'
  BY DispatchAssumption DEF IInv, SlotInv, InnerPcs, TypeOK, OnBoardPcs,
         LoopInv, Busy, BuildRegister, Goto
<1>7. FlightInv'
  BY DEF IInv, FlightInv, BuildRegister, Goto
<1>8. HealthInv'
  BY DEF IInv, HealthInv, BuildRegister, Goto
<1>9. AnnounceInv'
  BY DEF IInv, AnnounceInv, Terminal, BuildRegister, Goto
<1>10. InFlightOwned'
  BY DEF IInv, InFlightOwned, InnerPcs, OnBoardPcs, TypeOK, BuildRegister,
         Goto
<1> QED
  BY <1>1, <1>2, <1>3, <1>4, <1>5, <1>6, <1>7, <1>8, <1>9, <1>10 DEF IInv

-----------------------------------------------------------------------------
(* A build task.                                                           *)

(* The build task reads the cache.                                         *)
LEMMA BuildLookupStep ==
  ASSUME IInv, NEW j \in Jobs, BuildLookup(j)
  PROVE  IInv'
<1>1. /\ BoardInv'
      /\ FlightInv'
      /\ HealthInv'
      /\ QuarantineHolds'
      /\ BoardsReferenced'
  BY DEF IInv, BoardInv, FlightInv, HealthInv, QuarantineHolds,
         BoardsReferenced, Rows, BuildLookup, BuildAt
<1>2. TypeOK'
  BY DEF IInv, TypeOK, JobStates, Terminal, LoopPcs, BuildPcs, InnerPcs,
         RunPcs, OnBoardPcs, RunOutcomes, BuildLookup, BuildAt
<1>3. LoopInv'
  BY DEF IInv, LoopInv, Busy, BuildLookup, BuildAt
<1>4. FreshInv'
  BY DEF IInv, FreshInv, BuildLookup, BuildAt
<1>5. TaskInv'
  BY DEF IInv, TaskInv, OwnsBuilding, OwnsRunning, InnerPcs, OnBoardPcs,
         BuildLookup, BuildAt
<1>6. SlotInv'
  BY DEF IInv, SlotInv, InnerPcs, BuildLookup, BuildAt
<1>7. AnnounceInv'
  BY DEF IInv, AnnounceInv, Terminal, BuildLookup, BuildAt
<1>8. InFlightOwned'
  BY DEF IInv, InFlightOwned, InnerPcs, OnBoardPcs, BuildLookup, BuildAt
<1> QED
  BY <1>1, <1>2, <1>3, <1>4, <1>5, <1>6, <1>7, <1>8 DEF IInv

(* A cache hit advances the row and ends the inner part of the build task. *)
LEMMA BuildHitStep ==
  ASSUME IInv, NEW j \in Jobs, BuildHit(j)
  PROVE  IInv'
<1>1. TypeOK'
  BY DEF IInv, TypeOK, JobStates, Terminal, LoopPcs, BuildPcs, InnerPcs,
         RunPcs, OnBoardPcs, RunOutcomes, BuildHit, AdvanceToBoard,
         BuildReturns, BuildAt
<1>2. LoopInv'
  BY DEF IInv, LoopInv, Busy, TypeOK, OnBoardPcs, InnerPcs, BuildHit,
         AdvanceToBoard, BuildReturns, BuildAt
<1>3. FreshInv'
  BY DEF IInv, FreshInv, TypeOK, OnBoardPcs, InnerPcs, BuildHit,
         AdvanceToBoard, BuildReturns, BuildAt
<1>4. TaskInv'
  BY DispatchAssumption DEF IInv, TaskInv, OwnsBuilding, OwnsRunning,
         InnerPcs, OnBoardPcs, TypeOK, BuildHit, AdvanceToBoard, BuildReturns,
         BuildAt
<1>5. BoardInv'
  BY DEF IInv, BoardInv, TypeOK, OnBoardPcs, InnerPcs, BuildHit,
         AdvanceToBoard, BuildReturns, BuildAt
<1>6. SlotInv'
  BY DEF IInv, SlotInv, InnerPcs, TypeOK, OnBoardPcs, BuildHit,
         AdvanceToBoard, BuildReturns, BuildAt
<1>7. FlightInv'
  BY DispatchAssumption DEF IInv, FlightInv, TypeOK, OnBoardPcs, InnerPcs,
         BuildHit, AdvanceToBoard, BuildReturns, BuildAt
<1>8. HealthInv'
  BY DispatchAssumption DEF IInv, HealthInv, TypeOK, OnBoardPcs, InnerPcs,
         BuildHit, AdvanceToBoard, BuildReturns, BuildAt
<1>9. AnnounceInv'
  BY DispatchAssumption DEF IInv, AnnounceInv, Terminal, TypeOK, OnBoardPcs,
         InnerPcs, BuildHit, AdvanceToBoard, BuildReturns, BuildAt
<1>10. InFlightOwned'
  BY DEF IInv, InFlightOwned, InnerPcs, OnBoardPcs, TypeOK, BuildHit,
         AdvanceToBoard, BuildReturns, BuildAt
<1>11. QuarantineHolds'
  BY DEF IInv, QuarantineHolds, BuildHit, AdvanceToBoard, BuildReturns,
         BuildAt
<1>12. BoardsReferenced'
  BY DispatchAssumption DEF IInv, BoardsReferenced, Rows, TypeOK, OnBoardPcs,
         InnerPcs, BuildHit, AdvanceToBoard, BuildReturns, BuildAt
<1> QED
  BY <1>1, <1>2, <1>3, <1>4, <1>5, <1>6, <1>7, <1>8, <1>9, <1>10, <1>11, <1>12 DEF IInv

(* The build ends with an ELF, a failure, or the kill signal.              *)
LEMMA BuildEndsStep ==
  ASSUME IInv, NEW j \in Jobs, BuildEnds(j)
  PROVE  IInv'
<1>1. /\ BoardInv'
      /\ FlightInv'
      /\ HealthInv'
      /\ QuarantineHolds'
      /\ BoardsReferenced'
  BY DEF IInv, BoardInv, FlightInv, HealthInv, QuarantineHolds,
         BoardsReferenced, Rows, BuildEnds, BuildReturns, BuildAt
<1>2. TypeOK'
  BY DEF IInv, TypeOK, JobStates, Terminal, LoopPcs, BuildPcs, InnerPcs,
         RunPcs, OnBoardPcs, RunOutcomes, BuildEnds, BuildReturns, BuildAt
<1>3. LoopInv'
  BY DEF IInv, LoopInv, Busy, TypeOK, OnBoardPcs, InnerPcs, BuildEnds,
         BuildReturns, BuildAt
<1>4. FreshInv'
  BY DEF IInv, FreshInv, TypeOK, OnBoardPcs, InnerPcs, BuildEnds,
         BuildReturns, BuildAt
<1>5. TaskInv'
  BY DispatchAssumption DEF IInv, TaskInv, OwnsBuilding, OwnsRunning,
         InnerPcs, OnBoardPcs, TypeOK, BuildEnds, BuildReturns, BuildAt
<1>6. SlotInv'
  BY DEF IInv, SlotInv, InnerPcs, TypeOK, OnBoardPcs, BuildEnds, BuildReturns,
         BuildAt
<1>7. AnnounceInv'
  BY DispatchAssumption DEF IInv, AnnounceInv, Terminal, TypeOK, OnBoardPcs,
         InnerPcs, BuildEnds, BuildReturns, BuildAt
<1>8. InFlightOwned'
  BY DEF IInv, InFlightOwned, InnerPcs, OnBoardPcs, TypeOK, BuildEnds,
         BuildReturns, BuildAt
<1> QED
  BY <1>1, <1>2, <1>3, <1>4, <1>5, <1>6, <1>7, <1>8 DEF IInv

(* The artifact is stored and the row advances, or the copy fails.         *)
LEMMA BuildStoreStep ==
  ASSUME IInv, NEW j \in Jobs, BuildStore(j)
  PROVE  IInv'
<1>1. TypeOK'
  BY DispatchAssumption DEF IInv, TypeOK, JobStates, Terminal, LoopPcs,
         BuildPcs, InnerPcs, RunPcs, OnBoardPcs, RunOutcomes, BuildStore,
         AdvanceToBoard, BuildReturns, BuildAt
<1>2. LoopInv'
  BY DEF IInv, LoopInv, Busy, TypeOK, OnBoardPcs, InnerPcs, BuildStore,
         AdvanceToBoard, BuildReturns, BuildAt
<1>3. FreshInv'
  BY DEF IInv, FreshInv, TypeOK, OnBoardPcs, InnerPcs, BuildStore,
         AdvanceToBoard, BuildReturns, BuildAt
<1>4. TaskInv'
  BY DispatchAssumption DEF IInv, TaskInv, OwnsBuilding, OwnsRunning,
         InnerPcs, OnBoardPcs, TypeOK, BuildStore, AdvanceToBoard,
         BuildReturns, BuildAt
<1>5. BoardInv'
  BY DEF IInv, BoardInv, TypeOK, OnBoardPcs, InnerPcs, BuildStore,
         AdvanceToBoard, BuildReturns, BuildAt
<1>6. SlotInv'
  BY DEF IInv, SlotInv, InnerPcs, TypeOK, OnBoardPcs, BuildStore,
         AdvanceToBoard, BuildReturns, BuildAt
<1>7. FlightInv'
  BY DispatchAssumption DEF IInv, FlightInv, TypeOK, OnBoardPcs, InnerPcs,
         BuildStore, AdvanceToBoard, BuildReturns, BuildAt
<1>8. HealthInv'
  BY DispatchAssumption DEF IInv, HealthInv, TypeOK, OnBoardPcs, InnerPcs,
         BuildStore, AdvanceToBoard, BuildReturns, BuildAt
<1>9. AnnounceInv'
  BY DispatchAssumption DEF IInv, AnnounceInv, Terminal, TypeOK, OnBoardPcs,
         InnerPcs, BuildStore, AdvanceToBoard, BuildReturns, BuildAt
<1>10. InFlightOwned'
  BY DEF IInv, InFlightOwned, InnerPcs, OnBoardPcs, TypeOK, BuildStore,
         AdvanceToBoard, BuildReturns, BuildAt
<1>11. QuarantineHolds'
  BY DEF IInv, QuarantineHolds, BuildStore, AdvanceToBoard, BuildReturns,
         BuildAt
<1>12. BoardsReferenced'
  BY DispatchAssumption DEF IInv, BoardsReferenced, Rows, TypeOK, OnBoardPcs,
         InnerPcs, BuildStore, AdvanceToBoard, BuildReturns, BuildAt
<1> QED
  BY <1>1, <1>2, <1>3, <1>4, <1>5, <1>6, <1>7, <1>8, <1>9, <1>10, <1>11, <1>12 DEF IInv

(* The slot passes from the build task to the channel; a row whose build   *)
(* did not advance stays with the task.                                    *)
LEMMA ReleaseSlotStep ==
  ASSUME IInv, NEW j \in Jobs, ReleaseSlot(j)
  PROVE  IInv'
<1>1. /\ BoardInv'
      /\ FlightInv'
      /\ HealthInv'
      /\ QuarantineHolds'
      /\ BoardsReferenced'
  BY DEF IInv, BoardInv, FlightInv, HealthInv, QuarantineHolds,
         BoardsReferenced, Rows, ReleaseSlot, BuildAt
<1>2. TypeOK'
  BY DispatchAssumption DEF IInv, TypeOK, JobStates, Terminal, LoopPcs,
         BuildPcs, InnerPcs, RunPcs, OnBoardPcs, RunOutcomes, TaskInv,
         OwnsBuilding, OwnsRunning, SlotInv, ReleaseSlot, BuildAt
<1>3. LoopInv'
  BY DEF IInv, LoopInv, Busy, ReleaseSlot, BuildAt
<1>4. FreshInv'
  BY DEF IInv, FreshInv, ReleaseSlot, BuildAt
<1>5. TaskInv'
  BY DEF IInv, TaskInv, OwnsBuilding, OwnsRunning, InnerPcs, OnBoardPcs,
         ReleaseSlot, BuildAt
<1>6. SlotInv'
  BY DEF IInv, SlotInv, InnerPcs, TypeOK, OnBoardPcs, ReleaseSlot, BuildAt
<1>7. AnnounceInv'
  BY DEF IInv, AnnounceInv, Terminal, ReleaseSlot, BuildAt
<1>8. InFlightOwned'
  BY DEF IInv, InFlightOwned, InnerPcs, OnBoardPcs, ReleaseSlot, BuildAt
<1> QED
  BY <1>1, <1>2, <1>3, <1>4, <1>5, <1>6, <1>7, <1>8 DEF IInv

(* An advanced build task leaves; any other keeps its row up to finalize.  *)
LEMMA UnregisterBuildStep ==
  ASSUME IInv, NEW j \in Jobs, UnregisterBuild(j)
  PROVE  IInv'
<1>1. /\ BoardInv'
      /\ FlightInv'
      /\ HealthInv'
      /\ QuarantineHolds'
      /\ BoardsReferenced'
  BY DEF IInv, BoardInv, FlightInv, HealthInv, QuarantineHolds,
         BoardsReferenced, Rows, UnregisterBuild, BuildAt
<1>2. TypeOK'
  BY DEF IInv, TypeOK, JobStates, Terminal, LoopPcs, BuildPcs, InnerPcs,
         RunPcs, OnBoardPcs, RunOutcomes, UnregisterBuild, BuildAt
<1>3. LoopInv'
  BY DEF IInv, LoopInv, Busy, TypeOK, OnBoardPcs, InnerPcs, UnregisterBuild,
         BuildAt
<1>4. FreshInv'
  BY DEF IInv, FreshInv, TypeOK, OnBoardPcs, InnerPcs, UnregisterBuild,
         BuildAt
<1>5. TaskInv'
  BY DEF IInv, TaskInv, OwnsBuilding, OwnsRunning, InnerPcs, OnBoardPcs,
         TypeOK, UnregisterBuild, BuildAt
<1>6. SlotInv'
  BY DEF IInv, SlotInv, InnerPcs, TypeOK, OnBoardPcs, UnregisterBuild, BuildAt
<1>7. AnnounceInv'
  BY DispatchAssumption DEF IInv, AnnounceInv, Terminal, TypeOK, OnBoardPcs,
         InnerPcs, UnregisterBuild, BuildAt
<1>8. InFlightOwned'
  BY DEF IInv, InFlightOwned, InnerPcs, OnBoardPcs, TypeOK, UnregisterBuild,
         BuildAt
<1> QED
  BY <1>1, <1>2, <1>3, <1>4, <1>5, <1>6, <1>7, <1>8 DEF IInv

(* The row of a build that did not advance becomes terminal.               *)
LEMMA FinalizeBuildStep ==
  ASSUME IInv, NEW j \in Jobs, FinalizeBuild(j)
  PROVE  IInv'
<1>1. TypeOK'
  BY DispatchAssumption DEF IInv, TypeOK, JobStates, Terminal, LoopPcs,
         BuildPcs, InnerPcs, RunPcs, OnBoardPcs, RunOutcomes, TaskInv,
         OwnsBuilding, OwnsRunning, FinalizeBuild, Finalize, BuildAt
<1>2. LoopInv'
  BY DispatchAssumption DEF IInv, LoopInv, Busy, TypeOK, OnBoardPcs, InnerPcs,
         TaskInv, OwnsBuilding, OwnsRunning, FinalizeBuild, Finalize, BuildAt
<1>3. FreshInv'
  BY DispatchAssumption DEF IInv, FreshInv, TypeOK, OnBoardPcs, InnerPcs,
         TaskInv, OwnsBuilding, OwnsRunning, FinalizeBuild, Finalize, BuildAt
<1>4. TaskInv'
  BY DEF IInv, TaskInv, OwnsBuilding, OwnsRunning, InnerPcs, OnBoardPcs,
         TypeOK, FinalizeBuild, Finalize, BuildAt
<1>5. BoardInv'
  BY DispatchAssumption DEF IInv, BoardInv, TypeOK, OnBoardPcs, InnerPcs,
         TaskInv, OwnsBuilding, OwnsRunning, FinalizeBuild, Finalize, BuildAt
<1>6. SlotInv'
  BY DEF IInv, SlotInv, InnerPcs, FinalizeBuild, Finalize, BuildAt
<1>7. FlightInv'
  BY DispatchAssumption DEF IInv, FlightInv, TypeOK, OnBoardPcs, InnerPcs,
         TaskInv, OwnsBuilding, OwnsRunning, FinalizeBuild, Finalize, BuildAt
<1>8. HealthInv'
  BY DispatchAssumption DEF IInv, HealthInv, TypeOK, OnBoardPcs, InnerPcs,
         TaskInv, OwnsBuilding, OwnsRunning, FinalizeBuild, Finalize, BuildAt
<1>9. AnnounceInv'
  BY DispatchAssumption DEF IInv, AnnounceInv, Terminal, TypeOK, OnBoardPcs,
         InnerPcs, TaskInv, OwnsBuilding, OwnsRunning, FinalizeBuild,
         Finalize, BuildAt
<1>10. InFlightOwned'
  BY DispatchAssumption DEF IInv, InFlightOwned, InnerPcs, OnBoardPcs, TypeOK,
         TaskInv, OwnsBuilding, OwnsRunning, FinalizeBuild, Finalize, BuildAt
<1>11. QuarantineHolds'
  BY DEF IInv, QuarantineHolds, FinalizeBuild, Finalize, BuildAt
<1>12. BoardsReferenced'
  BY DEF IInv, BoardsReferenced, Rows, FinalizeBuild, Finalize, BuildAt
<1> QED
  BY <1>1, <1>2, <1>3, <1>4, <1>5, <1>6, <1>7, <1>8, <1>9, <1>10, <1>11, <1>12 DEF IInv

(* The end of the job is announced: the row is terminal since finalize.    *)
LEMMA PublishBuildStep ==
  ASSUME IInv, NEW j \in Jobs, PublishBuild(j)
  PROVE  IInv'
<1>1. /\ BoardInv'
      /\ FlightInv'
      /\ HealthInv'
      /\ QuarantineHolds'
      /\ BoardsReferenced'
  BY DEF IInv, BoardInv, FlightInv, HealthInv, QuarantineHolds,
         BoardsReferenced, Rows, PublishBuild, BuildAt
<1>2. TypeOK'
  BY DEF IInv, TypeOK, JobStates, Terminal, LoopPcs, BuildPcs, InnerPcs,
         RunPcs, OnBoardPcs, RunOutcomes, PublishBuild, BuildAt
<1>3. LoopInv'
  BY DEF IInv, LoopInv, Busy, PublishBuild, BuildAt
<1>4. FreshInv'
  BY DEF IInv, FreshInv, PublishBuild, BuildAt
<1>5. TaskInv'
  BY DEF IInv, TaskInv, OwnsBuilding, OwnsRunning, InnerPcs, OnBoardPcs,
         PublishBuild, BuildAt
<1>6. SlotInv'
  BY DEF IInv, SlotInv, InnerPcs, PublishBuild, BuildAt
<1>7. AnnounceInv'
  BY DEF IInv, AnnounceInv, Terminal, PublishBuild, BuildAt
<1>8. InFlightOwned'
  BY DEF IInv, InFlightOwned, InnerPcs, OnBoardPcs, PublishBuild, BuildAt
<1> QED
  BY <1>1, <1>2, <1>3, <1>4, <1>5, <1>6, <1>7, <1>8 DEF IInv

-----------------------------------------------------------------------------
(* A run task.                                                             *)

(* The run task starts the worker.                                         *)
LEMMA RunStartStep ==
  ASSUME IInv, NEW j \in Jobs, RunStart(j)
  PROVE  IInv'
<1>1. /\ BoardInv'
      /\ SlotInv'
      /\ FlightInv'
      /\ HealthInv'
      /\ QuarantineHolds'
      /\ BoardsReferenced'
  BY DEF IInv, BoardInv, SlotInv, FlightInv, HealthInv, QuarantineHolds,
         BoardsReferenced, Rows, RunStart, RunReturns, RunAt
<1>2. TypeOK'
  BY DEF IInv, TypeOK, JobStates, Terminal, LoopPcs, BuildPcs, InnerPcs,
         RunPcs, OnBoardPcs, RunOutcomes, RunStart, RunReturns, RunAt
<1>3. LoopInv'
  BY DEF IInv, LoopInv, Busy, TypeOK, OnBoardPcs, InnerPcs, RunStart,
         RunReturns, RunAt
<1>4. FreshInv'
  BY DEF IInv, FreshInv, TypeOK, OnBoardPcs, InnerPcs, RunStart, RunReturns,
         RunAt
<1>5. TaskInv'
  BY DispatchAssumption DEF IInv, TaskInv, OwnsBuilding, OwnsRunning,
         InnerPcs, OnBoardPcs, TypeOK, RunStart, RunReturns, RunAt
<1>6. AnnounceInv'
  BY DispatchAssumption DEF IInv, AnnounceInv, Terminal, TypeOK, OnBoardPcs,
         InnerPcs, RunStart, RunReturns, RunAt
<1>7. InFlightOwned'
  BY DEF IInv, InFlightOwned, InnerPcs, OnBoardPcs, TypeOK, RunStart,
         RunReturns, RunAt
<1> QED
  BY <1>1, <1>2, <1>3, <1>4, <1>5, <1>6, <1>7 DEF IInv

(* The watchdog gives the run a reason to stop.                            *)
LEMMA WatchdogStopsStep ==
  ASSUME IInv, NEW j \in Jobs, WatchdogStops(j)
  PROVE  IInv'
<1>1. /\ BoardInv'
      /\ SlotInv'
      /\ FlightInv'
      /\ HealthInv'
      /\ QuarantineHolds'
      /\ BoardsReferenced'
  BY DEF IInv, BoardInv, SlotInv, FlightInv, HealthInv, QuarantineHolds,
         BoardsReferenced, Rows, WatchdogStops, RunAt
<1>2. TypeOK'
  BY DEF IInv, TypeOK, JobStates, Terminal, LoopPcs, BuildPcs, InnerPcs,
         RunPcs, OnBoardPcs, RunOutcomes, WatchdogStops, RunAt
<1>3. LoopInv'
  BY DEF IInv, LoopInv, Busy, WatchdogStops, RunAt
<1>4. FreshInv'
  BY DEF IInv, FreshInv, WatchdogStops, RunAt
<1>5. TaskInv'
  BY DispatchAssumption DEF IInv, TaskInv, OwnsBuilding, OwnsRunning,
         InnerPcs, OnBoardPcs, TypeOK, WatchdogStops, RunAt
<1>6. AnnounceInv'
  BY DEF IInv, AnnounceInv, Terminal, WatchdogStops, RunAt
<1>7. InFlightOwned'
  BY DEF IInv, InFlightOwned, InnerPcs, OnBoardPcs, WatchdogStops, RunAt
<1> QED
  BY <1>1, <1>2, <1>3, <1>4, <1>5, <1>6, <1>7 DEF IInv

(* The worker ends with an outcome of its own.                             *)
LEMMA WorkerEndsStep ==
  ASSUME IInv, NEW j \in Jobs, WorkerEnds(j)
  PROVE  IInv'
<1>1. /\ BoardInv'
      /\ SlotInv'
      /\ FlightInv'
      /\ HealthInv'
      /\ QuarantineHolds'
      /\ BoardsReferenced'
  BY DEF IInv, BoardInv, SlotInv, FlightInv, HealthInv, QuarantineHolds,
         BoardsReferenced, Rows, WorkerEnds, RunReturns, RunAt
<1>2. TypeOK'
  BY DEF IInv, TypeOK, JobStates, Terminal, LoopPcs, BuildPcs, InnerPcs,
         RunPcs, OnBoardPcs, RunOutcomes, WorkerEnds, RunReturns, RunAt
<1>3. LoopInv'
  BY DEF IInv, LoopInv, Busy, WorkerEnds, RunReturns, RunAt
<1>4. FreshInv'
  BY DEF IInv, FreshInv, WorkerEnds, RunReturns, RunAt
<1>5. TaskInv'
  BY DispatchAssumption DEF IInv, TaskInv, OwnsBuilding, OwnsRunning,
         InnerPcs, OnBoardPcs, TypeOK, WorkerEnds, RunReturns, RunAt
<1>6. AnnounceInv'
  BY DEF IInv, AnnounceInv, Terminal, WorkerEnds, RunReturns, RunAt
<1>7. InFlightOwned'
  BY DEF IInv, InFlightOwned, InnerPcs, OnBoardPcs, WorkerEnds, RunReturns,
         RunAt
<1> QED
  BY <1>1, <1>2, <1>3, <1>4, <1>5, <1>6, <1>7 DEF IInv

(* The worker ends for the reason of the watchdog.                         *)
LEMMA WorkerStopsStep ==
  ASSUME IInv, NEW j \in Jobs, WorkerStops(j)
  PROVE  IInv'
<1>1. /\ BoardInv'
      /\ SlotInv'
      /\ FlightInv'
      /\ HealthInv'
      /\ QuarantineHolds'
      /\ BoardsReferenced'
  BY DEF IInv, BoardInv, SlotInv, FlightInv, HealthInv, QuarantineHolds,
         BoardsReferenced, Rows, WorkerStops, RunAt
<1>2. TypeOK'
  BY DEF IInv, TypeOK, JobStates, Terminal, LoopPcs, BuildPcs, InnerPcs,
         RunPcs, OnBoardPcs, RunOutcomes, WorkerStops, RunAt
<1>3. LoopInv'
  BY DEF IInv, LoopInv, Busy, WorkerStops, RunAt
<1>4. FreshInv'
  BY DEF IInv, FreshInv, WorkerStops, RunAt
<1>5. TaskInv'
  BY DEF IInv, TaskInv, OwnsBuilding, OwnsRunning, InnerPcs, OnBoardPcs,
         WorkerStops, RunAt
<1>6. AnnounceInv'
  BY DEF IInv, AnnounceInv, Terminal, WorkerStops, RunAt
<1>7. InFlightOwned'
  BY DEF IInv, InFlightOwned, InnerPcs, OnBoardPcs, WorkerStops, RunAt
<1> QED
  BY <1>1, <1>2, <1>3, <1>4, <1>5, <1>6, <1>7 DEF IInv

(* The row becomes terminal and the board is charged with the outcome. The *)
(* board is the one this row names and no other Running row names it       *)
(* (BoardInv), so the other rows keep their boards below the threshold.    *)
LEMMA FinalizeRunStep ==
  ASSUME IInv, NEW j \in Jobs, FinalizeRun(j)
  PROVE  IInv'
<1>a. /\ jobState[j] = "running"
      /\ FinalOf(runResult[j]) \in Terminal
      /\ jobState' = [jobState EXCEPT ![j] = FinalOf(runResult[j])]
  BY DispatchAssumption
  DEF IInv, TypeOK, TaskInv, OwnsRunning, FinalizeRun, Finalize, RunAt, FinalOf,
      RunOutcomes, Terminal
<1>b. runPc' = [runPc EXCEPT ![j] = "publish"]
  BY DEF FinalizeRun, RunAt
<1>1. TypeOK'
  BY DispatchAssumption DEF IInv, TypeOK, JobStates, Terminal, LoopPcs,
         BuildPcs, InnerPcs, RunPcs, OnBoardPcs, RunOutcomes, TaskInv,
         OwnsBuilding, OwnsRunning, FinalizeRun, Finalize, FinalOf,
         ApplyOutcome, RunAt
<1>2. LoopInv'
  BY DispatchAssumption DEF IInv, LoopInv, Busy, TypeOK, OnBoardPcs, InnerPcs,
         TaskInv, OwnsBuilding, OwnsRunning, FinalizeRun, Finalize, FinalOf,
         ApplyOutcome, RunAt
<1>3. FreshInv'
  BY <1>a, <1>b DEF IInv, FreshInv, TypeOK, FinalizeRun, Terminal
<1>4. TaskInv'
  BY DEF IInv, TaskInv, OwnsBuilding, OwnsRunning, InnerPcs, OnBoardPcs,
         TypeOK, FinalizeRun, Finalize, FinalOf, ApplyOutcome, RunAt
<1>5. BoardInv'
  BY DispatchAssumption DEF IInv, BoardInv, TypeOK, OnBoardPcs, InnerPcs,
         TaskInv, OwnsBuilding, OwnsRunning, FinalizeRun, Finalize, FinalOf,
         ApplyOutcome, RunAt
<1>6. SlotInv'
  BY DEF IInv, SlotInv, InnerPcs, FinalizeRun, Finalize, FinalOf,
         ApplyOutcome, RunAt
<1>7. FlightInv'
  BY <1>a DEF IInv, FlightInv, TypeOK, FinalizeRun, Terminal
<1>8. HealthInv'
  <2>1. \A b \in Boards : b # jobBoard[j] => infra'[b] = infra[b] /\ health'[b] = health[b]
    BY DEF IInv, TypeOK, FinalizeRun, ApplyOutcome
  <2>2. \A b \in Boards : health'[b] = "absent" => health[b] = "absent" /\ infra'[b] = infra[b]
    BY DEF IInv, TypeOK, FinalizeRun, ApplyOutcome
  <2>3. \A i \in Jobs : jobState'[i] = "running" => jobState[i] = "running" /\ i # j
    BY <1>a DEF IInv, TypeOK, Terminal
  <2>4. \A i \in Jobs : jobState[i] = "running" /\ i # j =>
          jobBoard[i] \in Boards /\ jobBoard[i] # jobBoard[j]
    BY <1>a DEF IInv, BoardInv
  <2>5. loopPc = "run_claim" => pickBoard \in Boards /\ pickBoard # jobBoard[j]
    BY <1>a DEF IInv, LoopInv, Busy
  <2>6. /\ \A i \in Jobs : jobState'[i] \in {"absent", "submitted", "building", "awaiting_board"}
                          => jobState'[i] = jobState[i]
        /\ UNCHANGED <<jobBoard, loopPc, pickBoard>>
    BY <1>a DEF IInv, TypeOK, FinalizeRun, Terminal
  <2> QED
    BY <2>1, <2>2, <2>3, <2>4, <2>5, <2>6 DEF IInv, HealthInv
<1>9. AnnounceInv'
  BY <1>a, <1>b DEF IInv, AnnounceInv, TypeOK, FinalizeRun, Terminal
<1>10. InFlightOwned'
  BY <1>a, <1>b
  DEF IInv, InFlightOwned, TypeOK, FinalizeRun, Terminal, OnBoardPcs
<1>11. QuarantineHolds'
  BY DispatchAssumption DEF IInv, QuarantineHolds, TypeOK, OnBoardPcs,
         InnerPcs, TaskInv, OwnsBuilding, OwnsRunning, HealthInv, FinalizeRun,
         Finalize, FinalOf, ApplyOutcome, RunAt
<1>12. BoardsReferenced'
  BY DispatchAssumption DEF IInv, BoardsReferenced, Rows, TypeOK, OnBoardPcs,
         InnerPcs, FinalizeRun, Finalize, FinalOf, ApplyOutcome, RunAt
<1> QED
  BY <1>1, <1>2, <1>3, <1>4, <1>5, <1>6, <1>7, <1>8, <1>9, <1>10, <1>11, <1>12 DEF IInv

(* The end of the job is announced: the row is terminal since finalize.    *)
LEMMA PublishRunStep ==
  ASSUME IInv, NEW j \in Jobs, PublishRun(j)
  PROVE  IInv'
<1>1. /\ BoardInv'
      /\ SlotInv'
      /\ FlightInv'
      /\ HealthInv'
      /\ QuarantineHolds'
      /\ BoardsReferenced'
  BY DEF IInv, BoardInv, SlotInv, FlightInv, HealthInv, QuarantineHolds,
         BoardsReferenced, Rows, PublishRun, RunAt
<1>2. TypeOK'
  BY DEF IInv, TypeOK, JobStates, Terminal, LoopPcs, BuildPcs, InnerPcs,
         RunPcs, OnBoardPcs, RunOutcomes, PublishRun, RunAt
<1>3. LoopInv'
  BY DEF IInv, LoopInv, Busy, PublishRun, RunAt
<1>4. FreshInv'
  BY DEF IInv, FreshInv, PublishRun, RunAt
<1>5. TaskInv'
  BY DEF IInv, TaskInv, OwnsBuilding, OwnsRunning, InnerPcs, OnBoardPcs,
         PublishRun, RunAt
<1>6. AnnounceInv'
  BY DEF IInv, AnnounceInv, Terminal, PublishRun, RunAt
<1>7. InFlightOwned'
  BY DEF IInv, InFlightOwned, InnerPcs, OnBoardPcs, PublishRun, RunAt
<1> QED
  BY <1>1, <1>2, <1>3, <1>4, <1>5, <1>6, <1>7 DEF IInv

(* The run task leaves the registry and ends.                              *)
LEMMA UnregisterRunStep ==
  ASSUME IInv, NEW j \in Jobs, UnregisterRun(j)
  PROVE  IInv'
<1>1. /\ BoardInv'
      /\ SlotInv'
      /\ FlightInv'
      /\ HealthInv'
      /\ QuarantineHolds'
      /\ BoardsReferenced'
  BY DEF IInv, BoardInv, SlotInv, FlightInv, HealthInv, QuarantineHolds,
         BoardsReferenced, Rows, UnregisterRun, RunAt
<1>2. TypeOK'
  BY DEF IInv, TypeOK, JobStates, Terminal, LoopPcs, BuildPcs, InnerPcs,
         RunPcs, OnBoardPcs, RunOutcomes, UnregisterRun, RunAt
<1>3. LoopInv'
  BY DEF IInv, LoopInv, Busy, UnregisterRun, RunAt
<1>4. FreshInv'
  BY DEF IInv, FreshInv, UnregisterRun, RunAt
<1>5. TaskInv'
  BY DEF IInv, TaskInv, OwnsBuilding, OwnsRunning, InnerPcs, OnBoardPcs,
         UnregisterRun, RunAt
<1>6. AnnounceInv'
  BY DEF IInv, AnnounceInv, Terminal, UnregisterRun, RunAt
<1>7. InFlightOwned'
  BY DEF IInv, InFlightOwned, InnerPcs, OnBoardPcs, UnregisterRun, RunAt
<1> QED
  BY <1>1, <1>2, <1>3, <1>4, <1>5, <1>6, <1>7 DEF IInv

-----------------------------------------------------------------------------
(* HTTP handlers.                                                          *)

(* A request to post a job passes its check.                               *)
LEMMA AcceptPostStep ==
  ASSUME IInv, NEW j \in Jobs, AcceptPost(j)
  PROVE  IInv'
<1>1. /\ LoopInv'
      /\ TaskInv'
      /\ BoardInv'
      /\ SlotInv'
      /\ FlightInv'
      /\ HealthInv'
      /\ AnnounceInv'
      /\ InFlightOwned'
      /\ QuarantineHolds'
      /\ BoardsReferenced'
  BY DEF IInv, LoopInv, Busy, TaskInv, OwnsBuilding, OwnsRunning, BoardInv,
         SlotInv, FlightInv, HealthInv, AnnounceInv, InFlightOwned,
         QuarantineHolds, BoardsReferenced, Rows, AcceptPost
<1>2. TypeOK'
  BY DEF IInv, TypeOK, JobStates, Terminal, LoopPcs, BuildPcs, InnerPcs,
         RunPcs, OnBoardPcs, RunOutcomes, AcceptPost
<1>3. FreshInv'
  BY DEF IInv, FreshInv, AcceptPost
<1> QED
  BY <1>1, <1>2, <1>3 DEF IInv

(* The row of a new job appears: it names no board and no task knows it.   *)
LEMMA EnqueueJobStep ==
  ASSUME IInv, NEW j \in Jobs, EnqueueJob(j)
  PROVE  IInv'
<1>1. /\ SlotInv'
      /\ QuarantineHolds'
  BY DEF IInv, SlotInv, QuarantineHolds, EnqueueJob
<1>2. TypeOK'
  BY DEF IInv, TypeOK, JobStates, Terminal, LoopPcs, BuildPcs, InnerPcs,
         RunPcs, OnBoardPcs, RunOutcomes, EnqueueJob
<1>3. LoopInv'
  BY DispatchAssumption DEF IInv, LoopInv, Busy, TypeOK, OnBoardPcs, InnerPcs,
         FreshInv, EnqueueJob
<1>4. FreshInv'
  BY DEF IInv, FreshInv, EnqueueJob
<1>5. TaskInv'
  BY DispatchAssumption DEF IInv, TaskInv, OwnsBuilding, OwnsRunning,
         InnerPcs, OnBoardPcs, TypeOK, FreshInv, EnqueueJob
<1>6. BoardInv'
  BY DEF IInv, BoardInv, EnqueueJob
<1>7. FlightInv'
  BY DEF IInv, FlightInv, EnqueueJob
<1>8. HealthInv'
  BY DispatchAssumption DEF IInv, HealthInv, TypeOK, OnBoardPcs, InnerPcs,
         FreshInv, EnqueueJob
<1>9. AnnounceInv'
  BY DispatchAssumption DEF IInv, AnnounceInv, Terminal, TypeOK, OnBoardPcs,
         InnerPcs, FreshInv, EnqueueJob
<1>10. InFlightOwned'
  BY DEF IInv, InFlightOwned, InnerPcs, OnBoardPcs, EnqueueJob
<1>11. BoardsReferenced'
  BY DispatchAssumption DEF IInv, BoardsReferenced, Rows, TypeOK, OnBoardPcs,
         InnerPcs, LoopInv, Busy, FreshInv, HealthInv, EnqueueJob
<1> QED
  BY <1>1, <1>2, <1>3, <1>4, <1>5, <1>6, <1>7, <1>8, <1>9, <1>10, <1>11 DEF IInv

(* A waiting row is aborted at once; no task owns a waiting row.           *)
LEMMA CancelLookupStep ==
  ASSUME IInv, NEW j \in Jobs, CancelLookup(j)
  PROVE  IInv'
<1>1. /\ SlotInv'
      /\ QuarantineHolds'
  BY DEF IInv, SlotInv, QuarantineHolds, CancelLookup, Request, OutsideEvent, Rows
<1>2. TypeOK'
  BY DispatchAssumption DEF IInv, TypeOK, JobStates, Terminal, LoopPcs,
         BuildPcs, InnerPcs, RunPcs, OnBoardPcs, RunOutcomes, CancelLookup,
         Request, OutsideEvent, Rows
<1>3. LoopInv'
  BY DEF IInv, LoopInv, Busy, TypeOK, OnBoardPcs, InnerPcs, CancelLookup,
         Request, OutsideEvent, Rows
<1>4. FreshInv'
  BY DEF IInv, FreshInv, TypeOK, OnBoardPcs, InnerPcs, CancelLookup,
         Request, OutsideEvent, Rows
<1>5. TaskInv'
  BY DEF IInv, TaskInv, OwnsBuilding, OwnsRunning, InnerPcs, OnBoardPcs,
         TypeOK, CancelLookup, Request, OutsideEvent, Rows
<1>6. BoardInv'
  BY DEF IInv, BoardInv, TypeOK, OnBoardPcs, InnerPcs, CancelLookup,
         Request, OutsideEvent, Rows
<1>7. FlightInv'
  BY DispatchAssumption DEF IInv, FlightInv, TypeOK, OnBoardPcs, InnerPcs,
         CancelLookup, Request, OutsideEvent, Rows
<1>8. HealthInv'
  BY DispatchAssumption DEF IInv, HealthInv, TypeOK, OnBoardPcs, InnerPcs,
         CancelLookup, Request, OutsideEvent, Rows
<1>9. AnnounceInv'
  BY DispatchAssumption DEF IInv, AnnounceInv, Terminal, TypeOK, OnBoardPcs,
         InnerPcs, CancelLookup, Request, OutsideEvent, Rows
<1>10. InFlightOwned'
  BY DEF IInv, InFlightOwned, InnerPcs, OnBoardPcs, TypeOK, CancelLookup,
         Request, OutsideEvent, Rows
<1>11. BoardsReferenced'
  BY DispatchAssumption DEF IInv, BoardsReferenced, Rows, TypeOK, OnBoardPcs,
         InnerPcs, CancelLookup, Request, OutsideEvent
<1> QED
  BY <1>1, <1>2, <1>3, <1>4, <1>5, <1>6, <1>7, <1>8, <1>9, <1>10, <1>11 DEF IInv

(* A signal changes no row.                                                *)
LEMMA CancelSignalStep ==
  ASSUME IInv, NEW j \in Jobs, CancelSignal(j)
  PROVE  IInv'
<1>1. /\ LoopInv'
      /\ FreshInv'
      /\ TaskInv'
      /\ BoardInv'
      /\ SlotInv'
      /\ FlightInv'
      /\ HealthInv'
      /\ AnnounceInv'
      /\ InFlightOwned'
      /\ QuarantineHolds'
      /\ BoardsReferenced'
  BY DEF IInv, LoopInv, Busy, FreshInv, TaskInv, OwnsBuilding, OwnsRunning,
         BoardInv, SlotInv, FlightInv, HealthInv, AnnounceInv, InFlightOwned,
         QuarantineHolds, BoardsReferenced, Rows, CancelSignal
<1>2. TypeOK'
  BY DEF IInv, TypeOK, JobStates, Terminal, LoopPcs, BuildPcs, InnerPcs,
         RunPcs, OnBoardPcs, RunOutcomes, CancelSignal
<1> QED
  BY <1>1, <1>2 DEF IInv

(* An edit of the fleet never quarantines a board silently below the       *)
(* threshold, nor deletes one a row names.                                 *)
LEMMA BoardEdits ==
  ASSUME IInv, NEW b \in Boards, 
         AddBoard(b) \/ QuarantineBoard(b) \/ UnquarantineBoard(b) \/ DeleteBoard(b)
  PROVE  IInv'
<1>1. /\ LoopInv'
      /\ FreshInv'
      /\ TaskInv'
      /\ BoardInv'
      /\ SlotInv'
      /\ FlightInv'
      /\ AnnounceInv'
      /\ InFlightOwned'
  BY DEF IInv, LoopInv, Busy, FreshInv, TaskInv, OwnsBuilding, OwnsRunning,
         BoardInv, SlotInv, FlightInv, AnnounceInv, InFlightOwned, AddBoard,
         QuarantineBoard, UnquarantineBoard, DeleteBoard, BoardEdit,
         Request, OutsideEvent
<1>2. TypeOK'
  BY DispatchAssumption DEF IInv, TypeOK, JobStates, Terminal, LoopPcs,
         BuildPcs, InnerPcs, RunPcs, OnBoardPcs, RunOutcomes, AddBoard,
         QuarantineBoard, UnquarantineBoard, DeleteBoard, BoardEdit,
         Request, OutsideEvent
<1>3. HealthInv'
  <2>1. \A c \in Boards : infra'[c] = infra[c] \/ infra'[c] = 0
    BY DEF IInv, TypeOK, AddBoard, QuarantineBoard, UnquarantineBoard, DeleteBoard
  <2>2. \A c \in Boards : health'[c] = "absent" => health[c] = "absent" \/ infra'[c] = 0
    BY DEF IInv, TypeOK, AddBoard, QuarantineBoard, UnquarantineBoard, DeleteBoard, BoardEdit
  <2>3. UNCHANGED <<jobState, jobBoard, loopPc, pickBoard>>
    BY DEF AddBoard, QuarantineBoard, UnquarantineBoard, DeleteBoard, BoardEdit
  <2>4. 0 < InfraThreshold
    BY DispatchAssumption
  <2>5. /\ loopPc = "run_claim" => pickBoard \in Boards
        /\ \A j \in Jobs : jobState[j] = "running" => jobBoard[j] \in Boards
    BY DEF IInv, LoopInv, BoardInv
  <2> QED
    BY <2>1, <2>2, <2>3, <2>4, <2>5 DEF IInv, HealthInv
<1>4. QuarantineHolds'
  BY DispatchAssumption DEF IInv, QuarantineHolds, TypeOK, OnBoardPcs,
         InnerPcs, AddBoard, QuarantineBoard, UnquarantineBoard, DeleteBoard,
         BoardEdit, Request, OutsideEvent
<1>5. BoardsReferenced'
  BY DispatchAssumption DEF IInv, BoardsReferenced, Rows, TypeOK, OnBoardPcs,
         InnerPcs, AddBoard, QuarantineBoard, UnquarantineBoard, DeleteBoard,
         BoardEdit, Request, OutsideEvent
<1> QED
  BY <1>1, <1>2, <1>3, <1>4, <1>5 DEF IInv

(* A purge finds no row in flight, so no task loses its row.               *)
LEMMA PurgeStep ==
  ASSUME IInv, NEW withBoards \in BOOLEAN, Purge(withBoards)
  PROVE  IInv'
<1>a. \A j \in Jobs : jobState'[j] \in {"absent", "purged"}
  BY DEF IInv, TypeOK, Purge, Rows
<1>b. \A j \in Jobs : jobState[j] \notin InFlight
  BY DEF IInv, TypeOK, Purge, Rows, InFlight
<1>1. TypeOK'
  BY DispatchAssumption DEF IInv, TypeOK, JobStates, Terminal, LoopPcs,
         BuildPcs, InnerPcs, RunPcs, OnBoardPcs, RunOutcomes, Purge, Rows,
         Request, OutsideEvent
<1>2. LoopInv'
  <2>1. UNCHANGED <<loopPc, pickJob, pickBoard, pickSlot, runPc, buildPc>>
    BY DEF Purge
  <2>2. loopPc \notin {"run_register", "build_register"}
    BY <1>b DEF IInv, LoopInv, InFlight
  <2>3. ~Busy(pickBoard)'
    BY <1>a DEF Busy
  <2> QED
    BY <2>1, <2>2, <2>3 DEF IInv, LoopInv
<1>3. FreshInv'
  BY DEF IInv, FreshInv, Purge, Rows, Request, OutsideEvent
<1>4. TaskInv'
  BY <1>a, <1>b DEF IInv, TaskInv, OwnsBuilding, OwnsRunning, InFlight, Purge
<1>5. BoardInv'
  BY DEF IInv, BoardInv, Purge, Rows, Request, OutsideEvent
<1>6. SlotInv'
  BY DEF IInv, SlotInv, InnerPcs, Purge, Rows, Request, OutsideEvent
<1>7. FlightInv'
  BY DEF IInv, FlightInv, Purge, Rows, Request, OutsideEvent
<1>8. HealthInv'
  BY DispatchAssumption DEF IInv, HealthInv, TypeOK, OnBoardPcs, InnerPcs,
         LoopInv, Busy, Purge, Rows, Request, OutsideEvent
<1>9. AnnounceInv'
  BY DEF IInv, AnnounceInv, Terminal, Purge, Rows, Request, OutsideEvent
<1>10. InFlightOwned'
  BY DEF IInv, InFlightOwned, InnerPcs, OnBoardPcs, Purge, Rows, Request, OutsideEvent
<1>11. QuarantineHolds'
  BY DispatchAssumption DEF IInv, QuarantineHolds, TypeOK, OnBoardPcs,
         InnerPcs, Purge, Rows, Request, OutsideEvent
<1>12. BoardsReferenced'
  BY DEF IInv, BoardsReferenced, Rows, Purge, Request, OutsideEvent
<1> QED
  BY <1>1, <1>2, <1>3, <1>4, <1>5, <1>6, <1>7, <1>8, <1>9, <1>10, <1>11, <1>12 DEF IInv

-----------------------------------------------------------------------------
(* Shutdown and restart.                                                   *)

(* The drain begins.                                                       *)
LEMMA SetDrainingStep ==
  ASSUME IInv, SetDraining
  PROVE  IInv'
<1>1. /\ LoopInv'
      /\ FreshInv'
      /\ TaskInv'
      /\ BoardInv'
      /\ SlotInv'
      /\ FlightInv'
      /\ HealthInv'
      /\ AnnounceInv'
      /\ InFlightOwned'
      /\ QuarantineHolds'
      /\ BoardsReferenced'
  BY DEF IInv, LoopInv, Busy, FreshInv, TaskInv, OwnsBuilding, OwnsRunning,
         BoardInv, SlotInv, FlightInv, HealthInv, AnnounceInv, InFlightOwned,
         QuarantineHolds, BoardsReferenced, Rows, SetDraining, OutsideEvent
<1>2. TypeOK'
  BY DispatchAssumption DEF IInv, TypeOK, JobStates, Terminal, LoopPcs,
         BuildPcs, InnerPcs, RunPcs, OnBoardPcs, RunOutcomes, SetDraining,
         OutsideEvent
<1> QED
  BY <1>1, <1>2 DEF IInv

(* The drain finds the run registry empty.                                 *)
LEMMA DrainQuietStep ==
  ASSUME IInv, DrainQuiet
  PROVE  IInv'
<1>1. /\ LoopInv'
      /\ FreshInv'
      /\ TaskInv'
      /\ BoardInv'
      /\ SlotInv'
      /\ FlightInv'
      /\ HealthInv'
      /\ AnnounceInv'
      /\ InFlightOwned'
      /\ QuarantineHolds'
      /\ BoardsReferenced'
  BY DEF IInv, LoopInv, Busy, FreshInv, TaskInv, OwnsBuilding, OwnsRunning,
         BoardInv, SlotInv, FlightInv, HealthInv, AnnounceInv, InFlightOwned,
         QuarantineHolds, BoardsReferenced, Rows, DrainQuiet
<1>2. TypeOK'
  BY DEF IInv, TypeOK, JobStates, Terminal, LoopPcs, BuildPcs, InnerPcs,
         RunPcs, OnBoardPcs, RunOutcomes, DrainQuiet
<1> QED
  BY <1>1, <1>2 DEF IInv

(* The drain signals every run.                                            *)
LEMMA GraceExpiresStep ==
  ASSUME IInv, GraceExpires
  PROVE  IInv'
<1>1. /\ LoopInv'
      /\ FreshInv'
      /\ TaskInv'
      /\ BoardInv'
      /\ SlotInv'
      /\ FlightInv'
      /\ HealthInv'
      /\ AnnounceInv'
      /\ InFlightOwned'
      /\ QuarantineHolds'
      /\ BoardsReferenced'
  BY DEF IInv, LoopInv, Busy, FreshInv, TaskInv, OwnsBuilding, OwnsRunning,
         BoardInv, SlotInv, FlightInv, HealthInv, AnnounceInv, InFlightOwned,
         QuarantineHolds, BoardsReferenced, Rows, GraceExpires
<1>2. TypeOK'
  BY DEF IInv, TypeOK, JobStates, Terminal, LoopPcs, BuildPcs, InnerPcs,
         RunPcs, OnBoardPcs, RunOutcomes, GraceExpires
<1> QED
  BY <1>1, <1>2 DEF IInv

(* The rows in flight and all the tasks that owned them end together.      *)
LEMMA RestartStep ==
  ASSUME IInv, Restart
  PROVE  IInv'
<1>a. \A j \in Jobs : jobState'[j] \notin InFlight
  BY DEF IInv, TypeOK, Restart, InFlight
<1>b. jobState' \in [Jobs -> JobStates]
  BY DEF IInv, TypeOK, Restart, InFlight, JobStates, Terminal
<1>1. TypeOK'
  <2>1. health' \in [Boards -> {"absent", "healthy", "quarantined"}]
    BY DEF IInv, TypeOK, Restart
  <2>2. events' \in 0..MaxEvents
    BY DispatchAssumption DEF IInv, TypeOK, Restart, OutsideEvent
  <2>3. "idle" \in BuildPcs /\ "idle" \in RunPcs /\ "top" \in LoopPcs
    BY DEF BuildPcs, RunPcs, LoopPcs
  <2> QED
    BY <1>b, <2>1, <2>2, <2>3 DEF IInv, TypeOK, Restart, Goto
<1>2. LoopInv'
  BY DEF IInv, LoopInv, Busy, Restart, Goto, OutsideEvent
<1>3. FreshInv'
  BY DEF IInv, FreshInv, Restart, Goto, OutsideEvent
<1>4. TaskInv'
  BY DEF IInv, TaskInv, OwnsBuilding, OwnsRunning, InnerPcs, OnBoardPcs,
         Restart, Goto, OutsideEvent
<1>5. BoardInv'
  BY DEF IInv, BoardInv, Restart, Goto, OutsideEvent
<1>6. SlotInv'
  BY DispatchAssumption DEF IInv, SlotInv, InnerPcs, TypeOK, OnBoardPcs,
         Restart, Goto, OutsideEvent
<1>7. FlightInv'
  BY DEF IInv, FlightInv, Restart, Goto, OutsideEvent
<1>8. HealthInv'
  BY DEF IInv, HealthInv, Restart, Goto, OutsideEvent
<1>9. AnnounceInv'
  BY DEF IInv, AnnounceInv, Terminal, Restart, Goto, OutsideEvent
<1>10. InFlightOwned'
  BY <1>a DEF InFlightOwned, InFlight
<1>11. QuarantineHolds'
  BY DispatchAssumption DEF IInv, QuarantineHolds, TypeOK, OnBoardPcs,
         InnerPcs, HealthInv, Restart, Goto, OutsideEvent
<1>12. BoardsReferenced'
  <2>1. \A j \in Rows' : j \in Rows
    BY DEF IInv, TypeOK, Restart, Rows, InFlight
  <2>2. UNCHANGED jobBoard
    BY DEF Restart
  <2>3. \A b \in Boards : health'[b] = "absent" => health[b] = "absent"
    BY DEF IInv, TypeOK, Restart
  <2>4. \A j \in Jobs : jobBoard[j] # None => jobBoard[j] \in Boards
    BY DEF IInv, TypeOK
  <2> QED
    BY <2>1, <2>2, <2>3, <2>4 DEF IInv, BoardsReferenced, Rows
<1> QED
  BY <1>1, <1>2, <1>3, <1>4, <1>5, <1>6, <1>7, <1>8, <1>9, <1>10, <1>11, <1>12 DEF IInv

-----------------------------------------------------------------------------
(* The invariant.                                                          *)

(* The invariant holds when a daemon starts on an empty database.          *)
LEMMA Initial == Init => IInv
<1> SUFFICES ASSUME Init PROVE IInv
  OBVIOUS
<1>1. TypeOK
  <2>1. events \in 0..MaxEvents
    BY DispatchAssumption DEF Init
  <2>2. "absent" \in JobStates /\ "top" \in LoopPcs /\ "idle" \in BuildPcs /\ "idle" \in RunPcs
    BY DEF JobStates, LoopPcs, BuildPcs, RunPcs
  <2>3. health \in [Boards -> {"absent", "healthy", "quarantined"}] /\ infra \in [Boards -> Nat]
    BY DEF Init
  <2> QED
    BY <2>1, <2>2, <2>3 DEF Init, TypeOK
<1>2. LoopInv /\ FreshInv /\ TaskInv /\ BoardInv /\ FlightInv /\ AnnounceInv
  BY DispatchAssumption
  DEF Init, LoopInv, FreshInv, TaskInv, OwnsBuilding, OwnsRunning, BoardInv,
      FlightInv, AnnounceInv, InnerPcs, OnBoardPcs
<1>3. SlotInv
  BY DispatchAssumption DEF Init, SlotInv, InnerPcs
<1>4. HealthInv /\ QuarantineHolds
  BY DispatchAssumption DEF Init, HealthInv, QuarantineHolds
<1>5. InFlightOwned /\ BoardsReferenced
  BY DEF Init, InFlightOwned, BoardsReferenced, Rows
<1> QED
  BY <1>1, <1>2, <1>3, <1>4, <1>5 DEF IInv

(* A step of the dispatch loop preserves the invariant.                    *)
LEMMA LoopKeeps == IInv /\ LoopStep => IInv'
  BY TickStep, RunPickStep, RunClaimStep, RunRegisterStep, BuildPickStep,
     BuildTakeSlotStep, BuildClaimStep, BuildRegisterStep DEF LoopStep

(* A step of a build task preserves the invariant.                         *)
LEMMA BuildKeeps == \A j \in Jobs : IInv /\ BuildStep(j) => IInv'
  BY BuildLookupStep, BuildHitStep, BuildEndsStep, BuildStoreStep, ReleaseSlotStep,
     UnregisterBuildStep, FinalizeBuildStep, PublishBuildStep DEF BuildStep

(* A step of a run task preserves the invariant.                           *)
LEMMA RunKeeps == \A j \in Jobs : IInv /\ RunStep(j) => IInv'
  BY RunStartStep, WatchdogStopsStep, WorkerEndsStep, WorkerStopsStep,
     FinalizeRunStep, PublishRunStep, UnregisterRunStep DEF RunStep

(* Every step of the system, and every step it does not take part in,      *)
(* preserves the invariant.                                                *)
LEMMA Inductive == IInv /\ [Next]_vars => IInv'
<1> SUFFICES ASSUME IInv, [Next]_vars PROVE IInv'
  OBVIOUS
<1>1. CASE LoopStep
  BY <1>1, LoopKeeps
<1>2. CASE \E j \in Jobs : BuildStep(j)
  BY <1>2, BuildKeeps
<1>3. CASE \E j \in Jobs : RunStep(j)
  BY <1>3, RunKeeps
<1>4. CASE \E j \in Jobs : AcceptPost(j) \/ EnqueueJob(j) \/ CancelLookup(j) \/ CancelSignal(j)
  BY <1>4, AcceptPostStep, EnqueueJobStep, CancelLookupStep, CancelSignalStep
<1>5. CASE \E b \in Boards : AddBoard(b) \/ QuarantineBoard(b) \/ UnquarantineBoard(b)
                             \/ DeleteBoard(b)
  BY <1>5, BoardEdits
<1>6. CASE \E withBoards \in BOOLEAN : Purge(withBoards)
  BY <1>6, PurgeStep
<1>7. CASE SetDraining \/ DrainQuiet \/ GraceExpires \/ Restart
  BY <1>7, SetDrainingStep, DrainQuietStep, GraceExpiresStep, RestartStep
<1>8. CASE UNCHANGED vars
  BY <1>8
  DEF vars, IInv, TypeOK, LoopInv, Busy, FreshInv, TaskInv, OwnsBuilding, OwnsRunning,
      BoardInv, SlotInv, FlightInv, HealthInv, AnnounceInv, InFlightOwned,
      QuarantineHolds, BoardsReferenced, Rows
<1> QED
  BY <1>1, <1>2, <1>3, <1>4, <1>5, <1>6, <1>7, <1>8 DEF Next

(* The invariant holds in every behaviour of the dispatcher.               *)
THEOREM Invariance == Spec => []IInv
  BY Initial, Inductive, PTL DEF Spec

-----------------------------------------------------------------------------
(* The safety properties.                                                  *)

(* Every variable keeps its type.                                          *)
THEOREM TypesHold == Spec => []TypeOK
<1>1. IInv => TypeOK
  BY DEF IInv
<1> QED
  BY <1>1, Invariance, PTL

(* A run task that has a probe has a Running row that names the board.     *)
LEMMA ProbeMeansRunning ==
  ASSUME IInv, NEW j \in Jobs, HasProbe(j)
  PROVE  jobState[j] = "running"
  BY DEF IInv, TaskInv, OwnsRunning, HasProbe

(* No two jobs run on one board, and no two run tasks have its probe.      *)
THEOREM BoardsAreExclusive == Spec => []BoardExclusive
<1>1. IInv => BoardExclusive
  BY ProbeMeansRunning DEF IInv, BoardInv, BoardExclusive
<1> QED
  BY <1>1, Invariance, PTL

(* Every slot is in exactly one place.                                     *)
THEOREM SlotsAreAccounted == Spec => []SlotsAccounted
<1>1. ASSUME IInv PROVE SlotsAccounted
  <2> SUFFICES ASSUME NEW s \in Slots
               PROVE  \/ s \in freeSlots /\ pickSlot # s /\ SlotHolders(s) = {}
                      \/ s \notin freeSlots /\ pickSlot = s /\ SlotHolders(s) = {}
                      \/ /\ s \notin freeSlots /\ pickSlot # s
                         /\ \E j \in Jobs : SlotHolders(s) = {j}
    BY DEF SlotsAccounted
  <2>1. s # None
    BY DispatchAssumption
  <2>2. SlotInv
    BY <1>1 DEF IInv
  <2>3. CASE s \in freeSlots
    BY <2>1, <2>2, <2>3 DEF SlotInv, SlotHolders
  <2>4. CASE s = pickSlot
    BY <2>1, <2>2, <2>4 DEF SlotInv, SlotHolders
  <2>5. CASE s \notin freeSlots /\ s # pickSlot
    <3>1. PICK j \in Jobs : buildSlot[j] = s
      BY <2>2, <2>5 DEF SlotInv
    <3>2. \A i \in Jobs : buildSlot[i] = s => i = j
      BY <2>1, <2>2, <3>1 DEF SlotInv
    <3>3. SlotHolders(s) = {j}
      BY <3>1, <3>2 DEF SlotHolders
    <3> QED
      BY <2>5, <3>3
  <2> QED
    BY <2>3, <2>4, <2>5
<1> QED
  BY <1>1, Invariance, PTL

(* The same tar is never built twice at once.                              *)
THEOREM BuildsAreSingleFlight == Spec => []SingleFlight
<1>1. IInv => SingleFlight
  BY DEF IInv, TaskInv, OwnsBuilding, FlightInv, SingleFlight
<1> QED
  BY <1>1, Invariance, PTL

(* A row in flight has the task, or the loop, that will take it further.   *)
THEOREM InFlightHasOwner == Spec => []InFlightOwned
<1>1. IInv => InFlightOwned
  BY DEF IInv
<1> QED
  BY <1>1, Invariance, PTL

(* A task at work has its row in the state it put it in.                   *)
THEOREM TasksOwnTheirRows == Spec => []TaskOwnsRow
<1>1. IInv => TaskOwnsRow
  BY DispatchAssumption DEF IInv, TaskInv, OwnsBuilding, OwnsRunning, BoardInv, TaskOwnsRow
<1> QED
  BY <1>1, Invariance, PTL

(* A board at the threshold is out of rotation, and its count never passes it. *)
THEOREM QuarantineIsKept == Spec => []QuarantineHolds
<1>1. IInv => QuarantineHolds
  BY DEF IInv
<1> QED
  BY <1>1, Invariance, PTL

(* No row names a board that is gone.                                      *)
THEOREM BoardsStayReferenced == Spec => []BoardsReferenced
<1>1. IInv => BoardsReferenced
  BY DEF IInv
<1> QED
  BY <1>1, Invariance, PTL

(* The end of a job is announced only once its row is terminal.            *)
THEOREM AnnouncementsAreTrue == Spec => []AnnouncedIsOver
<1>1. IInv => AnnouncedIsOver
  BY DEF IInv, TypeOK, AnnounceInv, AnnouncedIsOver
<1> QED
  BY <1>1, Invariance, PTL

-----------------------------------------------------------------------------
(* The dispatcher implements JobLifecycle.                                 *)

(* One row at most owns a board, so CHOOSE finds that row.                 *)
LEMMA ChooseOwner ==
  ASSUME NEW st, NEW bd, NEW b, NEW j \in Jobs,
         st[j] = "running" /\ bd[j] = b,
         \A i \in Jobs : st[i] = "running" /\ bd[i] = b => i = j
  PROVE  (CHOOSE i \in Jobs : st[i] = "running" /\ bd[i] = b) = j
  OBVIOUS

(* The owner of a board is the one Running row that names it, ...          *)
LEMMA OwnerIsRunning ==
  ASSUME BoardInv, NEW b \in Boards, NEW j \in Jobs, jobState[j] = "running", jobBoard[j] = b
  PROVE  Owner[b] = j
<1>1. \A i \in Jobs : jobState[i] = "running" /\ jobBoard[i] = b => i = j
  BY DEF BoardInv
<1>2. (CHOOSE i \in Jobs : jobState[i] = "running" /\ jobBoard[i] = b) = j
  BY <1>1, ChooseOwner
<1> QED
  BY <1>2 DEF Owner, OwnerOf, Busy

(* ... and nobody when there is none.                                      *)
LEMMA FreeHasNoOwner ==
  ASSUME NEW b \in Boards, ~Busy(b)
  PROVE  Owner[b] = None
  BY DEF Owner, OwnerOf

(* The same of the next state: the row that will name a board will own it. *)
LEMMA OwnerIsRunningNext ==
  ASSUME BoardInv', NEW b \in Boards, NEW j \in Jobs, jobState'[j] = "running",
         jobBoard'[j] = b
  PROVE  Owner'[b] = j
<1>1. \A i \in Jobs : jobState'[i] = "running" /\ jobBoard'[i] = b => i = j
  BY DEF BoardInv
<1>2. (CHOOSE i \in Jobs : jobState'[i] = "running" /\ jobBoard'[i] = b) = j
  BY <1>1, ChooseOwner
<1> QED
  BY <1>2 DEF Owner, OwnerOf, Busy

(* A board no Running row will name has no owner next.                     *)
LEMMA FreeHasNoOwnerNext ==
  ASSUME NEW b \in Boards, \A j \in Jobs : ~(jobState'[j] = "running" /\ jobBoard'[j] = b)
  PROVE  Owner'[b] = None
  BY DEF Owner, OwnerOf, Busy

(* A step that changes no Running row changes no owner.                    *)
LEMMA OwnersKept ==
  ASSUME BoardInv, BoardInv',
         \A j \in Jobs : jobState'[j] = "running" <=> jobState[j] = "running",
         \A j \in Jobs : jobState[j] = "running" => jobBoard'[j] = jobBoard[j]
  PROVE  Owner' = Owner
<1>1. ASSUME NEW b \in Boards PROVE Owner'[b] = Owner[b]
  <2>1. CASE Busy(b)
    <3>1. PICK j \in Jobs : jobState[j] = "running" /\ jobBoard[j] = b
      BY <2>1 DEF Busy
    <3>2. Owner[b] = j
      BY <3>1, OwnerIsRunning
    <3>3. Owner'[b] = j
      BY <3>1, OwnerIsRunningNext
    <3> QED
      BY <3>2, <3>3
  <2>2. CASE ~Busy(b)
    <3>1. Owner[b] = None
      BY <2>2, FreeHasNoOwner
    <3>2. Owner'[b] = None
      BY <2>2, FreeHasNoOwnerNext DEF Busy
    <3> QED
      BY <3>1, <3>2
  <2> QED
    BY <2>1, <2>2
<1> QED
  BY <1>1 DEF Owner

(* A step that leaves the rows alone is a stutter of the life cycle.       *)
LEMMA RowsKept ==
  ASSUME IInv, IInv', UNCHANGED rows
  PROVE  UNCHANGED Lifecycle!vars
<1>1. Owner' = Owner
  BY OwnersKept DEF IInv
<1> QED
  BY <1>1 DEF Lifecycle!vars

(* The claim of a run takes the board, which is free.                      *)
LEMMA RunClaimRefines ==
  ASSUME IInv, IInv', RunClaim
  PROVE  [Lifecycle!Next]_(Lifecycle!vars)
<1>1. CASE UNCHANGED rows
  BY <1>1, RowsKept
<1>2. CASE jobState[pickJob] = "awaiting_board" /\ ~UNCHANGED rows
  <2>1. /\ pickJob \in Jobs /\ pickBoard \in Boards
        /\ pickBoard \in Eligible[pickJob] /\ ~Busy(pickBoard)
    BY DEF IInv, LoopInv, RunClaim
  <2>2. /\ jobState' = [jobState EXCEPT ![pickJob] = "running"]
        /\ jobBoard' = [jobBoard EXCEPT ![pickJob] = pickBoard]
        /\ jobState \in [Jobs -> JobStates] /\ jobBoard \in [Jobs -> Boards \cup {None}]
    BY <1>2 DEF RunClaim, IInv, TypeOK
  <2>3. Owner[pickBoard] = None
    BY <2>1, FreeHasNoOwner
  <2>4. Owner'[pickBoard] = pickJob
    BY <2>1, <2>2, OwnerIsRunningNext DEF IInv
  <2>5. ASSUME NEW b \in Boards, b # pickBoard PROVE Owner'[b] = Owner[b]
    <3>1. CASE Busy(b)
      <4>1. PICK j \in Jobs : jobState[j] = "running" /\ jobBoard[j] = b
        BY <3>1 DEF Busy
      <4>2. jobState'[j] = "running" /\ jobBoard'[j] = b
        BY <1>2, <2>1, <2>2, <4>1
      <4> QED
        BY <4>1, <4>2, OwnerIsRunning, OwnerIsRunningNext DEF IInv
    <3>2. CASE ~Busy(b)
      <4>1. \A j \in Jobs : ~(jobState'[j] = "running" /\ jobBoard'[j] = b)
        BY <2>1, <2>2, <2>5, <3>2 DEF Busy
      <4> QED
        BY <3>2, <4>1, FreeHasNoOwner, FreeHasNoOwnerNext
    <3> QED
      BY <3>1, <3>2
  <2>6. Owner' = [Owner EXCEPT ![pickBoard] = pickJob]
    BY <2>1, <2>4, <2>5 DEF Owner
  <2>7. Lifecycle!StartRun(pickJob, pickBoard)
    BY <1>2, <2>1, <2>2, <2>3, <2>6 DEF Lifecycle!StartRun, Lifecycle!Moves
  <2> QED
    BY <2>1, <2>7 DEF Lifecycle!Next
<1> QED
  BY <1>1, <1>2 DEF RunClaim

(* The claim of a build: nobody builds the tar.                            *)
LEMMA BuildClaimRefines ==
  ASSUME IInv, IInv', BuildClaim
  PROVE  [Lifecycle!Next]_(Lifecycle!vars)
<1>1. CASE jobState[pickJob] # "submitted"
  BY <1>1, RowsKept DEF BuildClaim
<1>2. CASE jobState[pickJob] = "submitted"
  <2>1. pickJob \in Jobs /\ \A i \in Jobs : jobState[i] = "building" => TarOf[i] # TarOf[pickJob]
    BY DEF IInv, LoopInv, FlightInv, BuildClaim
  <2>2. jobState' = [jobState EXCEPT ![pickJob] = "building"] /\ UNCHANGED jobBoard
    BY <1>2 DEF BuildClaim
  <2>3. Owner' = Owner
    BY <1>2, <2>1, <2>2, OwnersKept DEF IInv, TypeOK
  <2>4. Lifecycle!StartBuild(pickJob)
    BY <1>2, <2>1, <2>2, <2>3 DEF Lifecycle!StartBuild, Lifecycle!Moves
  <2> QED
    BY <2>1, <2>4 DEF Lifecycle!Next
<1> QED
  BY <1>1, <1>2

(* Whatever ends a build, its row is Building.                             *)
LEMMA BuildEndRefines ==
  ASSUME IInv, IInv', NEW j \in Jobs, BuildHit(j) \/ BuildStore(j) \/ FinalizeBuild(j)
  PROVE  [Lifecycle!Next]_(Lifecycle!vars)
<1>1. /\ jobState \in [Jobs -> JobStates]
      /\ jobState[j] = "building"
      /\ buildPc[j] = "finalize" => buildResult[j] \in {"failed", "aborted"}
  BY DEF IInv, TypeOK, TaskInv, OwnsBuilding, InnerPcs, BuildHit, BuildStore, FinalizeBuild,
         AdvanceToBoard, BuildReturns, BuildAt
<1>2. UNCHANGED jobBoard
  BY DEF BuildHit, BuildStore, FinalizeBuild
<1>3. \/ UNCHANGED jobState
      \/ \E to \in {"awaiting_board", "failed", "aborted"} : jobState' = [jobState EXCEPT ![j] = to]
  BY <1>1 DEF BuildHit, BuildStore, FinalizeBuild, AdvanceToBoard, Finalize, BuildAt
<1>4. CASE UNCHANGED jobState
  BY <1>2, <1>4, RowsKept
<1>5. ASSUME NEW to \in {"awaiting_board", "failed", "aborted"},
             jobState' = [jobState EXCEPT ![j] = to]
      PROVE  Lifecycle!FinishBuild(j)
  <2>1. Owner' = Owner
    BY <1>1, <1>2, <1>5, OwnersKept DEF IInv
  <2> QED
    BY <1>1, <1>5, <2>1 DEF Lifecycle!FinishBuild, Lifecycle!Moves
<1> QED
  BY <1>3, <1>4, <1>5 DEF Lifecycle!Next

(* The end of a run frees its board.                                       *)
LEMMA FinalizeRunRefines ==
  ASSUME IInv, IInv', NEW j \in Jobs, FinalizeRun(j)
  PROVE  [Lifecycle!Next]_(Lifecycle!vars)
<1>1. /\ jobState[j] = "running" /\ jobBoard[j] \in Boards
      /\ FinalOf(runResult[j]) \in Terminal
      /\ jobState' = [jobState EXCEPT ![j] = FinalOf(runResult[j])]
      /\ jobState \in [Jobs -> JobStates] /\ UNCHANGED jobBoard
  BY DispatchAssumption
  DEF IInv, TypeOK, TaskInv, OwnsRunning, BoardInv, FinalizeRun, Finalize, RunAt, FinalOf,
      RunOutcomes, Terminal
<1> DEFINE b == jobBoard[j]
<1>2. Owner[b] = j
  BY <1>1, OwnerIsRunning DEF IInv
<1>3. \A i \in Jobs : jobState'[i] = "running" <=> jobState[i] = "running" /\ i # j
  BY <1>1 DEF Terminal
<1>4. Owner'[b] = None
  BY <1>1, <1>3, FreeHasNoOwnerNext DEF IInv, BoardInv
<1>5. ASSUME NEW c \in Boards, c # b PROVE Owner'[c] = Owner[c]
  <2>1. CASE Busy(c)
    <3>1. PICK i \in Jobs : jobState[i] = "running" /\ jobBoard[i] = c
      BY <2>1 DEF Busy
    <3>2. jobState'[i] = "running" /\ jobBoard'[i] = c
      BY <1>1, <1>3, <1>5, <3>1
    <3> QED
      BY <3>1, <3>2, OwnerIsRunning, OwnerIsRunningNext DEF IInv
  <2>2. CASE ~Busy(c)
    BY <1>1, <1>3, <2>2, FreeHasNoOwner, FreeHasNoOwnerNext DEF Busy
  <2> QED
    BY <2>1, <2>2
<1>6. Owner' = [Owner EXCEPT ![b] = None]
  BY <1>1, <1>4, <1>5 DEF Owner
<1>7. Lifecycle!FinishRun(j, b)
  BY <1>1, <1>2, <1>6 DEF Lifecycle!FinishRun, Lifecycle!Moves, Lifecycle!Terminal, Terminal
<1> QED
  BY <1>1, <1>7 DEF Lifecycle!Next

(* A new row owns no board.                                                *)
LEMMA EnqueueRefines ==
  ASSUME IInv, IInv', NEW j \in Jobs, EnqueueJob(j)
  PROVE  [Lifecycle!Next]_(Lifecycle!vars)
<1>1. /\ jobState \in [Jobs -> JobStates] /\ jobState[j] = "absent"
      /\ jobState' = [jobState EXCEPT ![j] = "submitted"] /\ UNCHANGED jobBoard
  BY DEF IInv, TypeOK, FreshInv, EnqueueJob
<1>2. Owner' = Owner
  BY <1>1, OwnersKept DEF IInv
<1>3. Lifecycle!Submit(j)
  BY <1>1, <1>2 DEF Lifecycle!Submit, Lifecycle!Moves
<1> QED
  BY <1>3 DEF Lifecycle!Next

(* A waiting row that is cancelled owns no board.                          *)
LEMMA CancelRefines ==
  ASSUME IInv, IInv', NEW j \in Jobs, CancelLookup(j)
  PROVE  [Lifecycle!Next]_(Lifecycle!vars)
<1>1. CASE jobState[j] \notin {"submitted", "awaiting_board"}
  BY <1>1, RowsKept DEF CancelLookup
<1>2. CASE jobState[j] \in {"submitted", "awaiting_board"}
  <2>1. /\ jobState \in [Jobs -> JobStates]
        /\ jobState' = [jobState EXCEPT ![j] = "aborted"] /\ UNCHANGED jobBoard
    BY <1>2 DEF IInv, TypeOK, CancelLookup
  <2>2. Owner' = Owner
    BY <1>2, <2>1, OwnersKept DEF IInv
  <2>3. Lifecycle!CancelWaiting(j)
    BY <1>2, <2>1, <2>2 DEF Lifecycle!CancelWaiting, Lifecycle!Moves, Lifecycle!Waiting
  <2> QED
    BY <2>3 DEF Lifecycle!Next
<1> QED
  BY <1>1, <1>2

(* A purge finds no board owned.                                           *)
LEMMA PurgeRefines ==
  ASSUME IInv, IInv', NEW withBoards \in BOOLEAN, Purge(withBoards)
  PROVE  [Lifecycle!Next]_(Lifecycle!vars)
<1>1. /\ \A j \in Jobs : jobState[j] \notin InFlight \cup {"awaiting_board"}
      /\ jobState' = [j \in Jobs |-> IF jobState[j] = "absent" THEN "absent" ELSE "purged"]
  BY DEF IInv, TypeOK, Purge, Rows, InFlight
<1>2. Owner' = Owner
  BY <1>1, OwnersKept DEF IInv, InFlight
<1>3. Lifecycle!PurgeAll
  BY <1>1, <1>2 DEF Lifecycle!PurgeAll, Lifecycle!InFlight, InFlight
<1> QED
  BY <1>3 DEF Lifecycle!Next

(* A crash frees every board.                                              *)
LEMMA RestartRefines ==
  ASSUME IInv, IInv', Restart
  PROVE  [Lifecycle!Next]_(Lifecycle!vars)
<1>1. jobState' = [j \in Jobs |-> IF jobState[j] \in InFlight THEN "aborted" ELSE jobState[j]]
  BY DEF Restart
<1>2. \A b \in Boards : Owner'[b] = None
  BY <1>1, FreeHasNoOwnerNext DEF InFlight
<1>3. Owner' = [b \in Boards |-> None]
  BY <1>2 DEF Owner
<1>4. Lifecycle!Interrupt
  BY <1>1, <1>3 DEF Lifecycle!Interrupt, Lifecycle!InFlight, InFlight
<1> QED
  BY <1>4 DEF Lifecycle!Next

(* Every step of the dispatcher is a step of the life cycle or a stutter.  *)
LEMMA StepRefines == IInv /\ IInv' /\ [Next]_vars => [Lifecycle!Next]_(Lifecycle!vars)
<1> SUFFICES ASSUME IInv, IInv', [Next]_vars
             PROVE  [Lifecycle!Next]_(Lifecycle!vars)
  OBVIOUS
<1>1. CASE LoopStep
  <2>1. CASE Tick \/ RunPick \/ RunRegister \/ BuildPick \/ BuildTakeSlot \/ BuildRegister
    BY <2>1, RowsKept DEF Tick, RunPick, RunRegister, BuildPick, BuildTakeSlot, BuildRegister
  <2> QED
    BY <1>1, <2>1, RunClaimRefines, BuildClaimRefines DEF LoopStep
<1>2. ASSUME NEW j \in Jobs, BuildStep(j) PROVE [Lifecycle!Next]_(Lifecycle!vars)
  <2>1. CASE \/ BuildLookup(j) \/ BuildEnds(j) \/ ReleaseSlot(j) \/ UnregisterBuild(j)
             \/ PublishBuild(j)
    BY <2>1, RowsKept DEF BuildLookup, BuildEnds, ReleaseSlot, UnregisterBuild, PublishBuild
  <2> QED
    BY <1>2, <2>1, BuildEndRefines DEF BuildStep
<1>3. ASSUME NEW j \in Jobs, RunStep(j) PROVE [Lifecycle!Next]_(Lifecycle!vars)
  <2>1. CASE \/ RunStart(j) \/ WatchdogStops(j) \/ WorkerEnds(j) \/ WorkerStops(j)
             \/ PublishRun(j) \/ UnregisterRun(j)
    BY <2>1, RowsKept
    DEF RunStart, WatchdogStops, WorkerEnds, WorkerStops, PublishRun, UnregisterRun
  <2> QED
    BY <1>3, <2>1, FinalizeRunRefines DEF RunStep
<1>4. ASSUME NEW j \in Jobs, AcceptPost(j) \/ EnqueueJob(j) \/ CancelLookup(j) \/ CancelSignal(j)
      PROVE  [Lifecycle!Next]_(Lifecycle!vars)
  <2>1. CASE AcceptPost(j) \/ CancelSignal(j)
    BY <2>1, RowsKept DEF AcceptPost, CancelSignal
  <2> QED
    BY <1>4, <2>1, EnqueueRefines, CancelRefines
<1>5. ASSUME NEW b \in Boards,
             AddBoard(b) \/ QuarantineBoard(b) \/ UnquarantineBoard(b) \/ DeleteBoard(b)
      PROVE  [Lifecycle!Next]_(Lifecycle!vars)
  BY <1>5, RowsKept DEF AddBoard, QuarantineBoard, UnquarantineBoard, DeleteBoard, BoardEdit
<1>6. CASE SetDraining \/ DrainQuiet \/ GraceExpires
  BY <1>6, RowsKept DEF SetDraining, DrainQuiet, GraceExpires
<1>7. CASE UNCHANGED vars
  BY <1>7, RowsKept DEF vars
<1> QED
  BY <1>1, <1>2, <1>3, <1>4, <1>5, <1>6, <1>7, PurgeRefines, RestartRefines DEF Next

(* The job table, with the Running row that names a board for the lock on  *)
(* it, implements the abstract life cycle of a job.                        *)
THEOREM Refinement == Spec => ImplementsLifecycle
<1>1. Init => Lifecycle!Init
  <2> SUFFICES ASSUME Init PROVE Lifecycle!Init
    OBVIOUS
  <2>1. \A b \in Boards : Owner[b] = None
    BY FreeHasNoOwner DEF Init, Busy
  <2>2. Owner = [b \in Boards |-> None]
    BY <2>1 DEF Owner
  <2> QED
    BY <2>2 DEF Init, Lifecycle!Init
<1>2. IInv /\ IInv' /\ [Next]_vars => [Lifecycle!Next]_(Lifecycle!vars)
  BY StepRefines
<1> QED
  BY <1>1, <1>2, Invariance, PTL DEF Spec, ImplementsLifecycle, Lifecycle!Spec

===============================================================================
