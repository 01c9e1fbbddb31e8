------------------------------- MODULE Dispatch -------------------------------
(***************************************************************************)
(* The two-stage dispatcher of paavod and everything it races with: the    *)
(* build and run tasks it spawns, the HTTP handlers that cancel jobs, edit *)
(* the fleet and purge the database, the shutdown drain, and a restart of  *)
(* the process.                                                            *)
(*                                                                         *)
(* The database mutex makes every lock scope one atomic step; between two  *)
(* lock scopes anybody may run.  One action is one lock scope (database,   *)
(* registry, slot channel or broker) together with the code up to the next *)
(* one.  Database rows survive Restart; everything else is process memory. *)
(***************************************************************************)
EXTENDS Naturals

CONSTANTS
  Jobs,           (* job ids (fresh uuids: an id is never submitted twice) *)
  Boards,         (* board ids                                             *)
  Tars,           (* contents of an uploaded crate, by blake3              *)
  Slots,          (* build slots, one CARGO_TARGET_DIR each                *)
  TarOf,          (* job -> tar                                            *)
  Eligible,       (* job -> the boards its selector matches                *)
  SkipCache,      (* the jobs submitted with skip_cache                    *)
  BoardsToml,     (* the boards declared in boards.toml                    *)
  InfraThreshold, (* quarantine.consecutive_infra_failures                 *)
  MaxEvents,      (* bound on what comes from outside: cancel requests, fleet
                     edits, purges, SIGTERM and crashes                    *)
  None            (* no job, no board, no slot, no result                  *)

ASSUME DispatchAssumption ==
  /\ TarOf \in [Jobs -> Tars]
  /\ Eligible \in [Jobs -> SUBSET Boards]
  /\ SkipCache \subseteq Jobs
  /\ BoardsToml \subseteq Boards
  /\ Slots # {}
  /\ InfraThreshold \in Nat \ {0}
  /\ MaxEvents \in Nat
  /\ None \notin Jobs \cup Boards \cup Slots
  /\ None \notin {"advanced", "failed", "aborted", "passed", "test_err",
                  "infra_err", "timed_out", "build", "run"}

VARIABLES
  (* Database *)
  jobState,    (* job.state; "absent" before the insert, "purged" after the delete *)
  jobBoard,    (* job.board_id                                             *)
  health,      (* board.health; "absent" when there is no row              *)
  infra,       (* board.consecutive_infra_failures                         *)
  cache,       (* tars with a build_cache row whose ELF is on disk         *)
  (* The dispatch loop *)
  loopPc, pickJob, pickBoard, pickSlot,
  (* Build tasks *)
  freeSlots,   (* the slot channel                                         *)
  buildPc, buildSlot, buildResult,
  buildReg,    (* BuildCancelRegistry: jobs with an entry                  *)
  buildKill,   (* jobs whose kill channel was sent a message               *)
  (* Run tasks *)
  runPc, runResult,
  runReg,      (* CancellationRegistry: jobs with an entry                 *)
  runSignal,   (* jobs whose run was sent a command (Cancel, DaemonShutdown)*)
  (* HTTP handlers, broker and shutdown *)
  posting,     (* POST /jobs requests past their drain check               *)
  cancelling,  (* the state each cancel request read, while it is between its two steps *)
  announced,   (* jobs whose Terminal event the broker has published       *)
  draining,    (* DrainState                                               *)
  shutdown,    (* progress of drain_with_grace                             *)
  events       (* outside events so far (bounds the model only)            *)

rows    == <<jobState, jobBoard>>
fleet   == <<health, infra>>
loop    == <<loopPc, pickJob, pickBoard, pickSlot>>
builds  == <<freeSlots, buildPc, buildSlot, buildResult, buildReg, buildKill>>
runs    == <<runPc, runResult, runReg, runSignal>>
control == <<draining, shutdown, events>>
http    == <<posting, cancelling>>
vars    == <<rows, fleet, cache, loop, builds, runs, http, announced, control>>

-----------------------------------------------------------------------------
(* Types and derived state.                                                *)

Terminal  == {"passed", "failed", "timed_out", "aborted"}
InFlight  == {"building", "running"}
JobStates == {"absent", "submitted", "building", "awaiting_board", "running",
              "purged"} \cup Terminal
Rows      == {j \in Jobs : jobState[j] \notin {"absent", "purged"}}

LoopPcs    == {"top", "run_pick", "run_claim", "run_register", "build_pick",
               "build_slot", "build_claim", "build_register", "exited"}
InnerPcs   == {"lookup", "hit", "build", "store"}
BuildPcs   == {"idle", "release", "unregister", "finalize", "publish"} \cup InnerPcs
OnBoardPcs == {"start", "run", "stopping"}
RunPcs     == {"idle", "finalize", "publish", "unregister"} \cup OnBoardPcs

(* An outcome of a run, with the distinction quarantine depends on.        *)
RunOutcomes  == {"passed", "test_err", "infra_err", "timed_out", "aborted"}
FinalOf(out) == IF out \in {"test_err", "infra_err"} THEN "failed" ELSE out

(* The receiver of a kill channel is owned by the build task and dropped   *)
(* when builder.build, or build_inner on a hit, returns.                   *)
BuildListens(j) == j \in buildReg /\ buildPc[j] \in {"lookup", "hit", "build"}
(* The receiver of a run is held by the entry, then by the watchdog, which *)
(* drops it as soon as it has recorded a stop reason or the worker ended.  *)
RunListens(j)   == j \in runReg /\ runPc[j] \in {"start", "run"}

Busy(b) == \E j \in Jobs : jobState[j] = "running" /\ jobBoard[j] = b

(* Mutant: a board that is busy is given out again.                        *)
RunnableBusy(j, b) ==
  jobState[j] = "awaiting_board" /\ b \in Eligible[j] /\ health[b] = "healthy"

(* find_healthy_for_selector over the AwaitingBoard rows.                  *)
Runnable(j, b) ==
  /\ jobState[j] = "awaiting_board"
  /\ b \in Eligible[j]
  /\ health[b] = "healthy"
  /\ ~Busy(b)

(* Mutant: a tar that is being built is built again.                       *)
BuildableTwice(j) == jobState[j] = "submitted"

(* pick_buildable: a Submitted row whose tar nobody is building.           *)
Buildable(j) ==
  /\ jobState[j] = "submitted"
  /\ \A i \in Jobs : jobState[i] = "building" => TarOf[i] # TarOf[j]

-----------------------------------------------------------------------------
(* The dispatch loop.                                                      *)

Goto(pc) ==
  /\ loopPc' = pc
  /\ pickJob' = None
  /\ pickBoard' = None
  /\ pickSlot' = None

(* The drain flag is read once per tick; a drained loop leaves when both   *)
(* registries are empty and sleeps otherwise.                              *)
Tick ==
  /\ loopPc = "top"
  /\ \/ /\ ~draining
        /\ Goto("run_pick")
     \/ /\ draining
        /\ buildReg = {} /\ runReg = {}
        /\ Goto("exited")
  /\ UNCHANGED <<rows, fleet, cache, builds, runs, http, announced, control>>

(* pick_runnable, under the database lock.  The choice among the candidates *)
(* (priority, starvation, LRU) is left open here.                          *)
RunPick ==
  /\ loopPc = "run_pick"
  /\ \/ \E j \in Jobs, b \in Boards :
          /\ Runnable(j, b)
          /\ loopPc' = "run_claim" /\ pickJob' = j /\ pickBoard' = b
          /\ UNCHANGED pickSlot
     \/ /\ \A j \in Jobs, b \in Boards : ~Runnable(j, b)
        /\ Goto("build_pick")
  /\ UNCHANGED <<rows, fleet, cache, builds, runs, http, announced, control>>

(* Mutant: the claim does not look whether the row still waits.            *)
RunClaimBlind ==
  /\ loopPc = "run_claim"
  /\ jobState' = [jobState EXCEPT ![pickJob] = "running"]
  /\ jobBoard' = [jobBoard EXCEPT ![pickJob] = pickBoard]
  /\ loopPc' = "run_register"
  /\ UNCHANGED <<pickJob, pickBoard, pickSlot, fleet, cache, builds, runs, http,
                 announced, control>>

(* transition_awaiting_to_running, under a second lock.  The update needs  *)
(* the row to be AwaitingBoard still, and the board row to exist (foreign  *)
(* key); it does not look at the health of the board again.                *)
RunClaim ==
  /\ loopPc = "run_claim"
  /\ IF jobState[pickJob] = "awaiting_board" /\ health[pickBoard] # "absent"
     THEN /\ jobState' = [jobState EXCEPT ![pickJob] = "running"]
          /\ jobBoard' = [jobBoard EXCEPT ![pickJob] = pickBoard]
          /\ loopPc' = "run_register"
          /\ UNCHANGED <<pickJob, pickBoard, pickSlot>>
     ELSE Goto("build_pick") /\ UNCHANGED rows
  /\ UNCHANGED <<fleet, cache, builds, runs, http, announced, control>>

(* Publish the phase, register a cancel channel and spawn the run task.    *)
RunRegister ==
  /\ loopPc = "run_register"
  /\ runReg' = runReg \cup {pickJob}
  /\ runPc' = [runPc EXCEPT ![pickJob] = "start"]
  /\ Goto("run_pick")
  /\ UNCHANGED <<rows, fleet, cache, builds, runResult, runSignal, http,
                 announced, control>>

(* pick_buildable, under the database lock.                                *)
BuildPick ==
  /\ loopPc = "build_pick"
  /\ \/ \E j \in Jobs :
          /\ Buildable(j)
          /\ loopPc' = "build_slot" /\ pickJob' = j
          /\ UNCHANGED <<pickBoard, pickSlot>>
     \/ (\A j \in Jobs : ~Buildable(j)) /\ Goto("top")
  /\ UNCHANGED <<rows, fleet, cache, builds, runs, http, announced, control>>

(* slot_rx.try_recv: take a slot or give up for this tick.                 *)
BuildTakeSlot ==
  /\ loopPc = "build_slot"
  /\ \/ \E s \in freeSlots :
          /\ freeSlots' = freeSlots \ {s}
          /\ loopPc' = "build_claim" /\ pickSlot' = s
          /\ UNCHANGED <<pickJob, pickBoard>>
     \/ freeSlots = {} /\ Goto("top") /\ UNCHANGED freeSlots
  /\ UNCHANGED <<rows, fleet, cache, buildPc, buildSlot, buildResult, buildReg,
                 buildKill, runs, http, announced, control>>

(* Mutant: a claim that lost its race keeps the slot.                      *)
BuildClaimKeepsSlot ==
  /\ loopPc = "build_claim"
  /\ IF jobState[pickJob] = "submitted"
     THEN /\ jobState' = [jobState EXCEPT ![pickJob] = "building"]
          /\ loopPc' = "build_register"
          /\ UNCHANGED <<pickJob, pickBoard, pickSlot>>
     ELSE Goto("top") /\ UNCHANGED jobState
  /\ UNCHANGED <<jobBoard, fleet, cache, builds, runs, http, announced, control>>

(* transition_submitted_to_building; a lost race gives the slot back.      *)
BuildClaim ==
  /\ loopPc = "build_claim"
  /\ IF jobState[pickJob] = "submitted"
     THEN /\ jobState' = [jobState EXCEPT ![pickJob] = "building"]
          /\ loopPc' = "build_register"
          /\ UNCHANGED <<pickJob, pickBoard, pickSlot, freeSlots>>
     ELSE /\ freeSlots' = freeSlots \cup {pickSlot}
          /\ Goto("top")
          /\ UNCHANGED jobState
  /\ UNCHANGED <<jobBoard, fleet, cache, buildPc, buildSlot, buildResult,
                 buildReg, buildKill, runs, http, announced, control>>

(* Publish the phase, register a kill channel and spawn the build task.    *)
BuildRegister ==
  /\ loopPc = "build_register"
  /\ buildReg' = buildReg \cup {pickJob}
  /\ buildPc' = [buildPc EXCEPT ![pickJob] = "lookup"]
  /\ buildSlot' = [buildSlot EXCEPT ![pickJob] = pickSlot]
  /\ Goto("build_pick")
  /\ UNCHANGED <<rows, fleet, cache, freeSlots, buildResult, buildKill, runs,
                 http, announced, control>>

LoopStep ==
  \/ Tick
  \/ RunPick
  \/ RunClaim
  \/ RunRegister
  \/ BuildPick
  \/ BuildTakeSlot
  \/ BuildClaim
  \/ BuildRegister

-----------------------------------------------------------------------------
(* A build task: build_inner, then run_one_build's epilogue.               *)

BuildAt(j, from, to) ==
  /\ buildPc[j] = from
  /\ buildPc' = [buildPc EXCEPT ![j] = to]

(* build_inner returned (or unwound) with a result.                        *)
BuildReturns(j, from, res) ==
  /\ BuildAt(j, from, "release")
  /\ buildResult' = [buildResult EXCEPT ![j] = res]

(* cache_lookup, unless the job asked to skip the cache.                   *)
BuildLookup(j) ==
  /\ BuildAt(j, "lookup", IF j \notin SkipCache /\ TarOf[j] \in cache
                          THEN "hit" ELSE "build")
  /\ UNCHANGED <<rows, fleet, cache, loop, freeSlots, buildSlot, buildResult,
                 buildReg, buildKill, runs, http, announced, control>>

(* transition_building_to_awaiting_board and the result it gives.          *)
AdvanceToBoard(j, from) ==
  IF jobState[j] = "building"
  THEN /\ jobState' = [jobState EXCEPT ![j] = "awaiting_board"]
       /\ BuildReturns(j, from, "advanced")
  ELSE /\ UNCHANGED jobState
       /\ BuildReturns(j, from, "failed")

(* A cache hit advances the row without building.                          *)
BuildHit(j) ==
  /\ AdvanceToBoard(j, "hit")
  /\ UNCHANGED <<jobBoard, fleet, cache, loop, freeSlots, buildSlot, buildReg,
                 buildKill, runs, http, announced, control>>

(* builder.build returns.  Only a kill signal makes it report Cancelled,   *)
(* but a build that has already ended wins over a signal; a panic counts   *)
(* as a failure.                                                           *)
BuildEnds(j) ==
  /\ \/ BuildAt(j, "build", "store") /\ UNCHANGED buildResult
     \/ BuildReturns(j, "build", "failed")
     \/ j \in buildKill /\ BuildReturns(j, "build", "aborted")
  /\ UNCHANGED <<rows, fleet, cache, loop, freeSlots, buildSlot, buildReg,
                 buildKill, runs, http, announced, control>>

(* Copy the ELF to its content-addressed path (which may fail), then, in   *)
(* one lock scope, cache_store and the transition.  A cache_store error is *)
(* only logged.                                                            *)
BuildStore(j) ==
  /\ \/ /\ cache' \in {cache, cache \cup {TarOf[j]}}
        /\ AdvanceToBoard(j, "store")
     \/ BuildReturns(j, "store", "failed") /\ UNCHANGED <<jobState, cache>>
  /\ UNCHANGED <<jobBoard, fleet, loop, freeSlots, buildSlot, buildReg,
                 buildKill, runs, http, announced, control>>

(* slot_tx.send(slot).                                                     *)
ReleaseSlot(j) ==
  /\ BuildAt(j, "release", "unregister")
  /\ freeSlots' = freeSlots \cup {buildSlot[j]}
  /\ buildSlot' = [buildSlot EXCEPT ![j] = None]
  /\ UNCHANGED <<rows, fleet, cache, loop, buildResult, buildReg, buildKill,
                 runs, http, announced, control>>

(* Mutant: only a failed build is finalized, not one that was killed.      *)
UnregisterBuildForgets(j) ==
  /\ \/ /\ buildResult[j] # "failed"
        /\ BuildAt(j, "unregister", "idle")
        /\ buildResult' = [buildResult EXCEPT ![j] = None]
     \/ /\ buildResult[j] = "failed"
        /\ BuildAt(j, "unregister", "finalize")
        /\ UNCHANGED buildResult
  /\ buildReg' = buildReg \ {j}
  /\ buildKill' = buildKill \ {j}
  /\ UNCHANGED <<rows, fleet, cache, loop, freeSlots, buildSlot, runs, http,
                 announced, control>>

(* build_cancel.unregister drops the kill channel; an advanced build is    *)
(* done with the job.                                                      *)
UnregisterBuild(j) ==
  /\ \/ /\ buildResult[j] = "advanced"
        /\ BuildAt(j, "unregister", "idle")
        /\ buildResult' = [buildResult EXCEPT ![j] = None]
     \/ /\ buildResult[j] # "advanced"
        /\ BuildAt(j, "unregister", "finalize")
        /\ UNCHANGED buildResult
  /\ buildReg' = buildReg \ {j}
  /\ buildKill' = buildKill \ {j}
  /\ UNCHANGED <<rows, fleet, cache, loop, freeSlots, buildSlot, runs, http,
                 announced, control>>

(* Mutant: the guard of finalize forgets the Building rows.                *)
FinalizeForgets(j, final) ==
  jobState' = IF jobState[j] \in {"submitted", "awaiting_board", "running"}
              THEN [jobState EXCEPT ![j] = final] ELSE jobState

(* JobRow::finalize touches non-terminal rows only.                        *)
Finalize(j, final) ==
  jobState' = IF jobState[j] \in {"submitted", "building", "awaiting_board", "running"}
              THEN [jobState EXCEPT ![j] = final] ELSE jobState

(* finalize_terminal, database part.                                       *)
FinalizeBuild(j) ==
  /\ BuildAt(j, "finalize", "publish")
  /\ Finalize(j, buildResult[j])
  /\ UNCHANGED <<jobBoard, fleet, cache, loop, freeSlots, buildSlot,
                 buildResult, buildReg, buildKill, runs, http, announced, control>>

(* finalize_terminal, broker part.                                         *)
PublishBuild(j) ==
  /\ BuildAt(j, "publish", "idle")
  /\ announced' = announced \cup {j}
  /\ buildResult' = [buildResult EXCEPT ![j] = None]
  /\ UNCHANGED <<rows, fleet, cache, loop, freeSlots, buildSlot, buildReg,
                 buildKill, runs, http, control>>

BuildStep(j) ==
  \/ BuildLookup(j)
  \/ BuildHit(j)
  \/ BuildEnds(j)
  \/ BuildStore(j)
  \/ ReleaseSlot(j)
  \/ UnregisterBuild(j)
  \/ FinalizeBuild(j)
  \/ PublishBuild(j)

-----------------------------------------------------------------------------
(* A run task: RealRunner::run, then finalize_run.                         *)

RunAt(j, from, to) ==
  /\ runPc[j] = from
  /\ runPc' = [runPc EXCEPT ![j] = to]

RunReturns(j, from, res) ==
  /\ RunAt(j, from, "finalize")
  /\ runResult' = [runResult EXCEPT ![j] = res]

(* Read the job and board rows and take the receiver; a missing entry is   *)
(* an infrastructure error.                                                *)
RunStart(j) ==
  /\ runPc[j] = "start"
  /\ IF j \in runReg /\ health[jobBoard[j]] # "absent"
     THEN RunAt(j, "start", "run") /\ UNCHANGED runResult
     ELSE RunReturns(j, "start", "infra_err")
  /\ UNCHANGED <<rows, fleet, cache, loop, builds, runReg, runSignal, http,
                 announced, control>>

(* The watchdog records why the run must stop (a timeout, or the command it *)
(* received), once, and drops its receiver.                                *)
WatchdogStops(j) ==
  /\ RunAt(j, "run", "stopping")
  /\ \E reason \in {"timed_out"} \cup (IF j \in runSignal THEN {"aborted"} ELSE {}) :
       runResult' = [runResult EXCEPT ![j] = reason]
  /\ UNCHANGED <<rows, fleet, cache, loop, builds, runReg, runSignal, http,
                 announced, control>>

(* The worker ends with an outcome of its own, with an error, or by a      *)
(* panic (counted as infra_err), even while it is being stopped.           *)
WorkerEnds(j) ==
  /\ \E from \in {"run", "stopping"}, res \in {"passed", "test_err", "infra_err"} :
       RunReturns(j, from, res)
  /\ UNCHANGED <<rows, fleet, cache, loop, builds, runReg, runSignal, http,
                 announced, control>>

(* The worker sees the stop reason and ends for it.                        *)
WorkerStops(j) ==
  /\ RunAt(j, "stopping", "finalize")
  /\ UNCHANGED <<rows, fleet, cache, loop, builds, runResult, runReg, runSignal,
                 http, announced, control>>

(* Mutant: the threshold is off by one.                                    *)
ApplyOutcomeLate(b, out) ==
  IF health[b] = "absent" THEN UNCHANGED fleet
  ELSE IF out = "infra_err"
  THEN /\ infra' = [infra EXCEPT ![b] = @ + 1]
       /\ health' = IF infra[b] + 1 > InfraThreshold
                    THEN [health EXCEPT ![b] = "quarantined"] ELSE health
  ELSE infra' = [infra EXCEPT ![b] = 0] /\ UNCHANGED health

(* apply_outcome_to_board: infrastructure errors count towards quarantine, *)
(* any other outcome clears the count.  A missing board is only logged.    *)
ApplyOutcome(b, out) ==
  IF health[b] = "absent" THEN UNCHANGED fleet
  ELSE IF out = "infra_err"
  THEN /\ infra' = [infra EXCEPT ![b] = @ + 1]
       /\ health' = IF infra[b] + 1 >= InfraThreshold
                    THEN [health EXCEPT ![b] = "quarantined"] ELSE health
  ELSE infra' = [infra EXCEPT ![b] = 0] /\ UNCHANGED health

(* finalize_run, database part: the row and the board in one lock scope.   *)
FinalizeRun(j) ==
  /\ RunAt(j, "finalize", "publish")
  /\ Finalize(j, FinalOf(runResult[j]))
  /\ ApplyOutcome(jobBoard[j], runResult[j])
  /\ UNCHANGED <<jobBoard, cache, loop, builds, runResult, runReg, runSignal, http,
                 announced, control>>

PublishRun(j) ==
  /\ RunAt(j, "publish", "unregister")
  /\ announced' = announced \cup {j}
  /\ UNCHANGED <<rows, fleet, cache, loop, builds, runResult, runReg,
                 runSignal, http, control>>

(* Mutant: a run task ends without leaving the registry.                   *)
UnregisterRunStays(j) ==
  /\ RunAt(j, "unregister", "idle")
  /\ runResult' = [runResult EXCEPT ![j] = None]
  /\ runSignal' = runSignal \ {j}
  /\ UNCHANGED <<rows, fleet, cache, loop, builds, runReg, http, announced, control>>

UnregisterRun(j) ==
  /\ RunAt(j, "unregister", "idle")
  /\ runReg' = runReg \ {j}
  /\ runResult' = [runResult EXCEPT ![j] = None]
  /\ runSignal' = runSignal \ {j}
  /\ UNCHANGED <<rows, fleet, cache, loop, builds, http, announced, control>>

RunStep(j) ==
  \/ RunStart(j)
  \/ WatchdogStops(j)
  \/ WorkerEnds(j)
  \/ WorkerStops(j)
  \/ FinalizeRun(j)
  \/ PublishRun(j)
  \/ UnregisterRun(j)

-----------------------------------------------------------------------------
(* HTTP handlers.                                                          *)

(* What comes from outside is bounded, requests other than POST /jobs too. *)
OutsideEvent == events < MaxEvents /\ events' = events + 1

(* axum serves until a signal has come and the requests it had accepted    *)
(* are done; only then does drain_with_grace begin.                        *)
Request  == OutsideEvent /\ shutdown \in {"serving", "waiting"}
NoneLeft == posting = {} /\ \A j \in Jobs : cancelling[j] = None

Inside == <<cache, loop, builds, runs, announced, draining, shutdown>>

(* POST /jobs reads the drain flag once, before the upload ...             *)
AcceptPost(j) ==
  /\ jobState[j] = "absent" /\ j \notin posting
  /\ ~draining
  /\ posting' = posting \cup {j}
  /\ UNCHANGED <<rows, fleet, cancelling, Inside, events>>

(* ... and inserts the row at its end.                                     *)
EnqueueJob(j) ==
  /\ j \in posting
  /\ posting' = posting \ {j}
  /\ jobState' = [jobState EXCEPT ![j] = "submitted"]
  /\ UNCHANGED <<jobBoard, fleet, cancelling, Inside, events>>

(* Mutant: a Building row is taken for one that waits.                     *)
CancelLookupBuilding(j) ==
  /\ Request
  /\ j \in Rows
  /\ jobState[j] \in {"submitted", "building", "awaiting_board"}
  /\ jobState' = [jobState EXCEPT ![j] = "aborted"]
  /\ UNCHANGED <<jobBoard, fleet, http, Inside>>

(* cancel_if_pending under the database lock: a waiting job is aborted at  *)
(* once; otherwise the handler remembers the state it read.                *)
CancelLookup(j) ==
  /\ Request
  /\ j \in Rows /\ cancelling[j] = None
  /\ IF jobState[j] \in {"submitted", "awaiting_board"}
     THEN /\ jobState' = [jobState EXCEPT ![j] = "aborted"]
          /\ UNCHANGED cancelling
     ELSE /\ cancelling' = [cancelling EXCEPT ![j] =
                              IF jobState[j] = "building" THEN "build" ELSE "run"]
          /\ UNCHANGED jobState
  /\ UNCHANGED <<jobBoard, fleet, posting, Inside>>

(* The signal goes to the registry chosen by the state read before; it is  *)
(* acknowledged (204) iff a live receiver took it, and refused (409) else. *)
CancelSignal(j) ==
  /\ cancelling[j] # None
  /\ cancelling' = [cancelling EXCEPT ![j] = None]
  /\ buildKill' = IF cancelling[j] = "build" /\ BuildListens(j)
                  THEN buildKill \cup {j} ELSE buildKill
  /\ runSignal' = IF cancelling[j] = "run" /\ RunListens(j)
                  THEN runSignal \cup {j} ELSE runSignal
  /\ UNCHANGED <<rows, posting, fleet, cache, loop, freeSlots, buildPc, buildSlot,
                 buildResult, buildReg, runPc, runResult, runReg, announced, control>>

BoardEdit(b, from, to) ==
  /\ Request
  /\ health[b] \in from
  /\ health' = [health EXCEPT ![b] = to]
  /\ UNCHANGED <<rows, http, Inside>>

AddBoard(b) ==
  /\ BoardEdit(b, {"absent"}, "healthy")
  /\ infra' = [infra EXCEPT ![b] = 0]

QuarantineBoard(b) ==
  /\ BoardEdit(b, {"healthy", "quarantined"}, "quarantined")
  /\ UNCHANGED infra

(* Also clears the failure count.                                          *)
UnquarantineBoard(b) ==
  /\ BoardEdit(b, {"healthy", "quarantined"}, "healthy")
  /\ infra' = [infra EXCEPT ![b] = 0]

(* Refused unless quarantined, and while a job row references the board.   *)
DeleteBoard(b) ==
  /\ \A j \in Rows : jobBoard[j] # b
  /\ BoardEdit(b, {"quarantined"}, "absent")
  /\ infra' = [infra EXCEPT ![b] = 0]

(* POST /admin/purge, database part: refused while a job is building,      *)
(* awaiting a board or running.                                            *)
Purge(withBoards) ==
  /\ Request
  /\ Rows # {}
  /\ \A j \in Rows : jobState[j] \notin InFlight \cup {"awaiting_board"}
  /\ jobState' = [j \in Jobs |-> IF j \in Rows THEN "purged" ELSE jobState[j]]
  /\ jobBoard' = [j \in Jobs |-> None]
  /\ cache' = {}
  /\ IF withBoards
     THEN /\ health' = [b \in Boards |-> "absent"]
          /\ infra' = [b \in Boards |-> 0]
     ELSE UNCHANGED fleet
  /\ UNCHANGED <<loop, builds, runs, http, announced, draining, shutdown>>

-----------------------------------------------------------------------------
(* Shutdown and restart.                                                   *)

Elsewhere == <<rows, fleet, cache, loop, freeSlots, buildPc, buildSlot, buildResult,
               buildReg, buildKill, runPc, runResult, runReg, http, announced>>

(* SIGTERM.                                                                *)
SetDraining ==
  /\ OutsideEvent
  /\ ~draining
  /\ draining' = TRUE
  /\ shutdown' = "waiting"
  /\ UNCHANGED <<Elsewhere, runSignal>>

(* drain_with_grace sees an empty run registry ...                         *)
DrainQuiet ==
  /\ shutdown = "waiting" /\ NoneLeft /\ runReg = {}
  /\ shutdown' = "quiet"
  /\ UNCHANGED <<Elsewhere, runSignal, draining, events>>

(* ... or its grace expires and it signals every registered run.           *)
GraceExpires ==
  /\ shutdown = "waiting" /\ NoneLeft /\ runReg # {}
  /\ shutdown' = "forced"
  /\ runSignal' = runSignal \cup {j \in Jobs : RunListens(j)}
  /\ UNCHANGED <<Elsewhere, draining, events>>

(* The process dies at any point and a new one starts: it aborts the rows  *)
(* left in flight in one transaction, inserts the boards of boards.toml it *)
(* does not know, and starts with empty registries and a full slot pool.   *)
Restart ==
  /\ OutsideEvent
  /\ jobState' = [j \in Jobs |-> IF jobState[j] \in InFlight THEN "aborted"
                                 ELSE jobState[j]]
  /\ health' = [b \in Boards |-> IF health[b] = "absent" /\ b \in BoardsToml
                                 THEN "healthy" ELSE health[b]]
  /\ Goto("top")
  /\ freeSlots' = Slots
  /\ buildPc' = [j \in Jobs |-> "idle"]
  /\ buildSlot' = [j \in Jobs |-> None]
  /\ buildResult' = [j \in Jobs |-> None]
  /\ buildReg' = {}
  /\ buildKill' = {}
  /\ runPc' = [j \in Jobs |-> "idle"]
  /\ runResult' = [j \in Jobs |-> None]
  /\ runReg' = {}
  /\ runSignal' = {}
  /\ posting' = {}
  /\ cancelling' = [j \in Jobs |-> None]
  /\ draining' = FALSE
  /\ shutdown' = "serving"
  /\ announced' = {}
  /\ UNCHANGED <<jobBoard, infra, cache>>

-----------------------------------------------------------------------------

Init ==
  /\ jobState = [j \in Jobs |-> "absent"]
  /\ jobBoard = [j \in Jobs |-> None]
  /\ health = [b \in Boards |-> IF b \in BoardsToml THEN "healthy" ELSE "absent"]
  /\ infra = [b \in Boards |-> 0]
  /\ cache = {}
  /\ loopPc = "top" /\ pickJob = None /\ pickBoard = None /\ pickSlot = None
  /\ freeSlots = Slots
  /\ buildPc = [j \in Jobs |-> "idle"]
  /\ buildSlot = [j \in Jobs |-> None]
  /\ buildResult = [j \in Jobs |-> None]
  /\ buildReg = {}
  /\ buildKill = {}
  /\ runPc = [j \in Jobs |-> "idle"]
  /\ runResult = [j \in Jobs |-> None]
  /\ runReg = {}
  /\ runSignal = {}
  /\ posting = {}
  /\ cancelling = [j \in Jobs |-> None]
  /\ announced = {}
  /\ draining = FALSE
  /\ shutdown = "serving"
  /\ events = 0

Next ==
  \/ LoopStep
  \/ \E j \in Jobs : \/ BuildStep(j)
                     \/ RunStep(j)
                     \/ AcceptPost(j)
                     \/ EnqueueJob(j)
                     \/ CancelLookup(j)
                     \/ CancelSignal(j)
  \/ \E b \in Boards : \/ AddBoard(b)
                       \/ QuarantineBoard(b)
                       \/ UnquarantineBoard(b)
                       \/ DeleteBoard(b)
  \/ \E withBoards \in BOOLEAN : Purge(withBoards)
  \/ SetDraining
  \/ DrainQuiet
  \/ GraceExpires
  \/ Restart

Spec == Init /\ [][Next]_vars

(* The loop and the tasks are threads that run until they block: cargo and *)
(* the worker are taken to end (the worker by its hard maximum).  Requests,*)
(* operators, signals and crashes need never happen.                       *)
FairSpec ==
  /\ Spec
  /\ WF_vars(LoopStep)
  /\ \A j \in Jobs : WF_vars(BuildStep(j) \/ RunStep(j))
-----------------------------------------------------------------------------
(* Properties.                                                             *)

TypeOK ==
  /\ jobState \in [Jobs -> JobStates]
  /\ jobBoard \in [Jobs -> Boards \cup {None}]
  /\ health \in [Boards -> {"absent", "healthy", "quarantined"}]
  /\ infra \in [Boards -> Nat]
  /\ cache \subseteq Tars
  /\ loopPc \in LoopPcs
  /\ pickJob \in Jobs \cup {None}
  /\ pickBoard \in Boards \cup {None}
  /\ pickSlot \in Slots \cup {None}
  /\ freeSlots \subseteq Slots
  /\ buildPc \in [Jobs -> BuildPcs]
  /\ buildSlot \in [Jobs -> Slots \cup {None}]
  /\ buildResult \in [Jobs -> {None, "advanced", "failed", "aborted"}]
  /\ buildReg \subseteq Jobs
  /\ buildKill \subseteq Jobs
  /\ runPc \in [Jobs -> RunPcs]
  /\ runResult \in [Jobs -> RunOutcomes \cup {None}]
  /\ runReg \subseteq Jobs
  /\ runSignal \subseteq Jobs
  /\ posting \subseteq Jobs
  /\ cancelling \in [Jobs -> {None, "build", "run"}]
  /\ announced \subseteq Jobs
  /\ draining \in BOOLEAN
  /\ shutdown \in {"serving", "waiting", "quiet", "forced"}
  /\ events \in 0..MaxEvents

(* A board never serves two jobs: neither two Running rows, nor two run     *)
(* tasks that have its probe, although picking a board and claiming it are  *)
(* two lock scopes.                                                         *)
HasProbe(j) == runPc[j] \in OnBoardPcs
BoardExclusive ==
  \A i, j \in Jobs :
    i # j /\ jobBoard[i] = jobBoard[j] /\ jobBoard[i] # None =>
      /\ ~(jobState[i] = "running" /\ jobState[j] = "running")
      /\ ~(HasProbe(i) /\ HasProbe(j))

(* Every slot is in exactly one place: the channel, the hands of the loop,  *)
(* or one build task; so no two builds share a CARGO_TARGET_DIR and no slot *)
(* is ever lost, on whatever path a build ends.                             *)
SlotHolders(s) == {j \in Jobs : buildSlot[j] = s}
SlotsAccounted ==
  \A s \in Slots :
    \/ s \in freeSlots /\ pickSlot # s /\ SlotHolders(s) = {}
    \/ s \notin freeSlots /\ pickSlot = s /\ SlotHolders(s) = {}
    \/ s \notin freeSlots /\ pickSlot # s /\ \E j \in Jobs : SlotHolders(s) = {j}

(* Single flight: the same tar is never built twice at once, so two builds  *)
(* never write one content-addressed ELF at the same time.                  *)
SingleFlight ==
  \A i, j \in Jobs :
    i # j /\ TarOf[i] = TarOf[j] =>
      ~(buildPc[i] \in InnerPcs /\ buildPc[j] \in InnerPcs)

(* A row in flight always has somebody who will take it further: the task   *)
(* that works on it, or the loop that is about to spawn that task.  A row   *)
(* that lost its task would keep its board until the next restart.          *)
InFlightOwned ==
  \A j \in Jobs :
    /\ jobState[j] = "building" =>
         \/ loopPc = "build_register" /\ pickJob = j
         \/ buildPc[j] \in InnerPcs \cup {"finalize"}
         \/ buildPc[j] \in {"release", "unregister"} /\ buildResult[j] # "advanced"
    /\ jobState[j] = "running" =>
         \/ loopPc = "run_register" /\ pickJob = j
         \/ runPc[j] \in OnBoardPcs \cup {"finalize"}

(* And a task never works on a row that somebody else has moved on, so what *)
(* it writes at its end is never dropped by the guard of finalize.          *)
TaskOwnsRow ==
  \A j \in Jobs :
    /\ buildPc[j] \in InnerPcs \cup {"finalize"} => jobState[j] = "building"
    /\ runPc[j] \in OnBoardPcs \cup {"finalize"} =>
         jobState[j] = "running" /\ jobBoard[j] # None

(* A board whose failures reached the threshold is out of rotation, whatever*)
(* operators do between the run and its accounting.                         *)
QuarantineHolds ==
  \A b \in Boards :
    infra[b] <= InfraThreshold /\ (health[b] = "healthy" => infra[b] < InfraThreshold)

(* Foreign key: no job row names a board that has no row.                   *)
BoardsReferenced ==
  \A j \in Rows : jobBoard[j] # None => health[jobBoard[j]] # "absent"

(* A viewer told of the end of a job finds a terminal row (or none).        *)
AnnouncedIsOver == \A j \in announced : jobState[j] \in Terminal \cup {"purged"}

(* The job table implements the abstract life cycle of a job, the Running   *)
(* row that names a board being the lock on it.                             *)
OwnerOf(b) == IF Busy(b) THEN CHOOSE j \in Jobs : jobState[j] = "running" /\ jobBoard[j] = b
              ELSE None
Owner     == [b \in Boards |-> OwnerOf(b)]
Lifecycle == INSTANCE JobLifecycle WITH phase <- jobState, owner <- Owner
ImplementsLifecycle == Lifecycle!Spec

(* Every claimed job reaches its end, or the board queue.                   *)
ClaimedJobsEnd ==
  \A j \in Jobs : (jobState[j] \in InFlight) ~> (jobState[j] \notin InFlight)

(* A drained loop always leaves (unless the process restarts first).        *)
DrainEnds == draining ~> (loopPc = "exited" \/ ~draining)
=============================================================================
