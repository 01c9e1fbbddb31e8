------------------------------ MODULE Scheduler ------------------------------
(***************************************************************************)
(* Who is next: the order in which the dispatcher serves the waiting jobs  *)
(* and gives out the boards.  Dispatch leaves both choices open; here they *)
(* are the code's, and the handlers around them are reduced to arrivals    *)
(* and departures.  Submission times are replaced by the order they induce *)
(* (submissions in one millisecond are taken in their order), a job's age  *)
(* by whether it has passed the starvation threshold, and a board's        *)
(* last_used_at by its rank.  A job id stands for a series of submissions: *)
(* it may be used again once its job has left.                             *)
(***************************************************************************)
EXTENDS Naturals, FiniteSets, SequencesExt

CONSTANTS
  Jobs, Boards, Tars,
  TarOf,         (* job -> tar                                             *)
  Eligible,      (* job -> the boards its selector matches                 *)
  Scheduled,     (* the jobs of Scheduled priority; others are Interactive *)
  BoardOrder,    (* the boards by id                                       *)
  ScanLimit,     (* MAX_SUBMITTED_SCAN                                     *)
  MaxBuilds,     (* scheduler.max_concurrent_builds                        *)
  None

ASSUME SchedulerAssumption ==
  /\ None \notin Jobs \cup Boards
  /\ TarOf \in [Jobs -> Tars]
  /\ Eligible \in [Jobs -> SUBSET Boards]
  /\ Scheduled \subseteq Jobs
  /\ BoardOrder \in Seq(Boards) /\ ToSet(BoardOrder) = Boards /\ IsInjective(BoardOrder)
  /\ ScanLimit \in Nat \ {0} /\ MaxBuilds \in Nat \ {0}

VARIABLES
  state,      (* job.state, "absent" when the id has no live job           *)
  boardOf,    (* job.board_id of the running jobs                          *)
  order,      (* the live jobs by submitted_at                             *)
  starved,    (* the Scheduled jobs older than the starvation threshold    *)
  lru,        (* the boards by last_used_at, never used first              *)
  healthy,    (* the boards in rotation                                    *)
  stage,      (* the stage the dispatch loop is in                         *)
  heldJob, heldBoard   (* what the loop picked and has not yet claimed     *)

vars == <<state, boardOf, order, starved, lru, healthy, stage, heldJob, heldBoard>>

-----------------------------------------------------------------------------
(* Choices.                                                                *)

(* The elements of seq that are in S, in their order: SelectSeq with a set *)
(* for the test, so that it can be reasoned about.                         *)
Filter[S \in SUBSET (Jobs \cup Boards)] ==
  [seq \in Seq(Jobs \cup Boards) |->
     LET kept[n \in 0 .. Len(seq)] ==
           IF n = 0 THEN <<>>
           ELSE IF seq[n] \in S THEN Append(kept[n - 1], seq[n]) ELSE kept[n - 1]
     IN kept[Len(seq)]]

In(s) == {j \in Jobs : state[j] = s}

(* Mutant: no starvation rule.                                             *)
UrgentNever(j) == j \notin Scheduled

Urgent(j) == j \notin Scheduled \/ j \in starved

(* list_submitted, list_awaiting_board: the first ScanLimit rows by stored *)
(* priority, then age; what is done with them does not depend on the order *)
(* they come in.                                                           *)
Limit[seq \in Seq(Jobs)] == {seq[n] : n \in {m \in 1 .. Len(seq) : m <= ScanLimit}}

Listed(s) == Limit[Filter[In(s) \ Scheduled][order] \o Filter[In(s) \cap Scheduled][order]]

(* Mutant: the sort looks at the stored priority.                          *)
PromotedLate(rows) == Filter[rows \ Scheduled][order] \o Filter[rows \cap Scheduled][order]

(* The starvation rule applied to the rows of a scan: by effective         *)
(* priority, then age.                                                     *)
Promoted(rows) ==
  LET urgent == {j \in Jobs : Urgent(j)}
  IN Filter[rows \cap urgent][order] \o Filter[rows \ urgent][order]

(* find_healthy_for_selector *)
FreeFor(j) == {b \in Eligible[j] \cap healthy :
                 \A i \in In("running") : boardOf[i] # b}
Runnable == {j \in In("awaiting_board") : FreeFor(j) # {}}

PickRunnable == Filter[Runnable][Promoted(Listed("awaiting_board"))]

(* building_tar_blake3s: no two jobs of one tar are built at a time.       *)
Building  == In("building")
Buildable == {j \in In("submitted") : \A i \in Building : TarOf[i] # TarOf[j]}

PickBuildable == Filter[Buildable][Promoted(Listed("submitted"))]

(* Mutant: the first board by id.                                          *)
LruPickById(boards) == Head(Filter[boards][BoardOrder])

(* lru_pick *)
LruPick(boards) == Head(Filter[boards][lru])

-----------------------------------------------------------------------------
(* The dispatch loop: each stage picks and claims until it finds nothing,  *)
(* loses a race or, for builds, is at the cap.                             *)

Hold(j, b) == heldJob' = j /\ heldBoard' = b /\ UNCHANGED stage
NextStage(s) == stage' = s /\ heldJob' = None /\ heldBoard' = None

RunPick ==
  /\ stage = "run" /\ heldJob = None
  /\ \/ PickRunnable = <<>> /\ NextStage("build")
     \/ PickRunnable # <<>> /\ \E j \in {Head(PickRunnable)} : Hold(j, LruPick(FreeFor(j)))
  /\ UNCHANGED <<state, boardOf, order, starved, lru, healthy>>

(* The claim also stamps the board with touch_last_used.                   *)
RunClaim ==
  /\ stage = "run" /\ heldJob # None
  /\ \/ /\ state[heldJob] = "awaiting_board"
        /\ state' = [state EXCEPT ![heldJob] = "running"]
        /\ boardOf' = [boardOf EXCEPT ![heldJob] = heldBoard]
        /\ lru' = Append(Filter[Boards \ {heldBoard}][lru], heldBoard)
        /\ NextStage("run")
     \/ /\ state[heldJob] # "awaiting_board"
        /\ NextStage("build")
        /\ UNCHANGED <<state, boardOf, lru>>
  /\ UNCHANGED <<order, starved, healthy>>

(* The cap is a pool of slots, and a slot is given back just before the    *)
(* row leaves building (Dispatch has the two apart); here it is the number *)
(* of rows.                                                                *)
BuildPick ==
  /\ stage = "build" /\ heldJob = None
  /\ IF PickBuildable = <<>> \/ Cardinality(Building) >= MaxBuilds
     THEN NextStage("run")
     ELSE Hold(Head(PickBuildable), None)
  /\ UNCHANGED <<state, boardOf, order, starved, lru, healthy>>

BuildClaim ==
  /\ stage = "build" /\ heldJob # None
  /\ \/ /\ state[heldJob] = "submitted"
        /\ state' = [state EXCEPT ![heldJob] = "building"]
        /\ NextStage("build")
     \/ /\ state[heldJob] # "submitted"
        /\ NextStage("run")
        /\ UNCHANGED state
  /\ UNCHANGED <<boardOf, order, starved, lru, healthy>>

Dispatch == RunPick \/ RunClaim \/ BuildPick \/ BuildClaim

-----------------------------------------------------------------------------
(* Arrivals, departures and time.                                          *)

(* Mutant: the age of a job outlives it.                                   *)
LeavesItsAge(j) ==
  /\ state' = [state EXCEPT ![j] = "absent"]
  /\ boardOf' = [boardOf EXCEPT ![j] = None]
  /\ order' = Filter[Jobs \ {j}][order]
  /\ UNCHANGED starved

Leaves(j) ==
  /\ state' = [state EXCEPT ![j] = "absent"]
  /\ boardOf' = [boardOf EXCEPT ![j] = None]
  /\ order' = Filter[Jobs \ {j}][order]
  /\ starved' = starved \ {j}

(* enqueue_job.  An id the loop still holds is not reused.                 *)
Enqueue(j) ==
  /\ state[j] = "absent" /\ j # heldJob
  /\ state' = [state EXCEPT ![j] = "submitted"]
  /\ order' = Append(order, j)
  /\ UNCHANGED <<boardOf, starved, lru, healthy, stage, heldJob, heldBoard>>

(* A Scheduled job passes the threshold, the oldest first.                 *)
Age(j) ==
  /\ LET young == Filter[Scheduled \ starved][order]
     IN young # <<>> /\ j = Head(young)
  /\ starved' = starved \cup {j}
  /\ UNCHANGED <<state, boardOf, order, lru, healthy, stage, heldJob, heldBoard>>

BuildEnds(j) ==
  /\ state[j] = "building"
  /\ \/ /\ state' = [state EXCEPT ![j] = "awaiting_board"]
        /\ UNCHANGED <<boardOf, order, starved>>
     \/ Leaves(j)
  /\ UNCHANGED <<lru, healthy, stage, heldJob, heldBoard>>

RunEnds(j) ==
  /\ state[j] = "running"
  /\ Leaves(j)
  /\ UNCHANGED <<lru, healthy, stage, heldJob, heldBoard>>

(* cancel_if_pending *)
Cancel(j) ==
  /\ state[j] \in {"submitted", "awaiting_board"}
  /\ Leaves(j)
  /\ UNCHANGED <<lru, healthy, stage, heldJob, heldBoard>>

(* A board is quarantined or put back.                                     *)
SetHealth(b) ==
  /\ healthy' \in {healthy \ {b}, healthy \cup {b}} \ {healthy}
  /\ UNCHANGED <<state, boardOf, order, starved, lru, stage, heldJob, heldBoard>>

-----------------------------------------------------------------------------

Init ==
  /\ state = [j \in Jobs |-> "absent"]
  /\ boardOf = [j \in Jobs |-> None]
  /\ order = <<>>
  /\ starved = {}
  /\ lru = BoardOrder
  /\ healthy = Boards
  /\ stage = "run" /\ heldJob = None /\ heldBoard = None

Next ==
  \/ Dispatch
  \/ \E j \in Jobs : Enqueue(j) \/ Age(j) \/ BuildEnds(j) \/ RunEnds(j) \/ Cancel(j)
  \/ \E b \in Boards : SetHealth(b)

Spec == Init /\ [][Next]_vars

(* Builds and runs end; clients, operators and the clock owe nothing.  The *)
(* last conjunct is an assumption on the clients: they do not keep the     *)
(* build stage busy for ever with jobs whose builds end at once.           *)
FairSpec ==
  /\ Spec
  /\ WF_vars(Dispatch)
  /\ \A j \in Jobs : WF_vars(BuildEnds(j)) /\ WF_vars(RunEnds(j))
  /\ []<>(stage = "run")

-----------------------------------------------------------------------------
(* Properties.                                                             *)

TypeOK ==
  /\ state \in [Jobs -> {"absent", "submitted", "building", "awaiting_board", "running"}]
  /\ boardOf \in [Jobs -> Boards \cup {None}]
  /\ ToSet(order) = Jobs \ In("absent") /\ IsInjective(order)
  /\ starved \subseteq Scheduled \cap ToSet(order)
  /\ ToSet(lru) = Boards /\ IsInjective(lru)
  /\ healthy \subseteq Boards
  /\ stage \in {"run", "build"}
  /\ heldJob \in Jobs \cup {None}
  /\ heldBoard \in Boards \cup {None}

(* The reference order: i is served before j when it is urgent and j is    *)
(* not, or when it is the older of two that are equally urgent.            *)
Earlier(seq, a, b) ==
  \E m, n \in 1 .. Len(seq) : m < n /\ seq[m] = a /\ seq[n] = b
Outranks(i, j) ==
  \/ Urgent(i) /\ ~Urgent(j)
  \/ (Urgent(i) <=> Urgent(j)) /\ Earlier(order, i, j)

(* While no more jobs wait than the scan reads, the scan, the promotion    *)
(* and the sort together pick a job whenever one can go on, and one that   *)
(* nobody who can go on outranks: the orders by stored and by effective    *)
(* priority are never mixed up.  To run it is given, of the boards it can  *)
(* have, the one that has waited longest.                                  *)
PicksAreBest ==
  [][/\ RunPick /\ Cardinality(In("awaiting_board")) <= ScanLimit =>
          \A i \in Runnable :
            /\ heldJob' \in Runnable /\ ~Outranks(i, heldJob')
            /\ heldBoard' \in FreeFor(heldJob')
            /\ \A b \in FreeFor(heldJob') : ~Earlier(lru, b, heldBoard')
     /\ /\ BuildPick /\ Cardinality(In("submitted")) <= ScanLimit
        /\ Cardinality(Building) < MaxBuilds
        => \A i \in Buildable : heldJob' \in Buildable /\ ~Outranks(i, heldJob')]_vars

(* scheduler.rs:6-10 says that the scan may stop at its limit because no   *)
(* job beyond it can outrank the rows it has.                              *)
ScanHoldsTheBest ==
  \A s \in {"submitted", "awaiting_board"} :
    \A j \in Listed(s), i \in In(s) \ Listed(s) : ~Outranks(i, j)

(* However many interactive jobs keep coming, a starved job is not passed  *)
(* over for ever: it is built, and it gets a board unless one of its       *)
(* boards is out of rotation.                                              *)
StarvedAreServed ==
  \A j \in Scheduled :
    /\ (j \in starved /\ state[j] = "submitted") ~> (state[j] # "submitted")
    /\ (j \in starved /\ state[j] = "awaiting_board")
         ~> (state[j] # "awaiting_board" \/ ~(Eligible[j] \subseteq healthy))

(* Boards take turns: a board in rotation that could have run jobs again   *)
(* and again gets one.                                                     *)
Serves(b) == \E j \in Jobs : state[j] = "running" /\ boardOf[j] = b
BoardsTakeTurns ==
  \A b \in Boards :
    [](b \in healthy) /\ []<>(\E j \in Jobs : state[j] = "running" /\ b \in Eligible[j])
      => []<>Serves(b)
=============================================================================
