------------------------------- MODULE LiveIndex ------------------------------
(***************************************************************************)
(* The live pages of paavo-web.  paavod changes the database; a poller in  *)
(* paavo-web fingerprints each table once a second and bumps a revision    *)
(* when the fingerprint moved; every /api/events connection is told the    *)
(* revisions that moved; the page in the browser refetches on every event  *)
(* it is told and shows the answer.  A request is several queries, each    *)
(* under its own short lock, so the database may move between them.        *)
(*                                                                         *)
(* A job is its position in the order of submission, which is also the     *)
(* time it was submitted at; the browser's clock agrees with the server's. *)
(* A job stays submitted until its build ends: the state building is left  *)
(* out, and so are the debounce of the search box, the choice of a page    *)
(* size, changes of the fleet and a restart of paavod.  A search is for a  *)
(* state.  The page takes no notice of the other page's table, whose       *)
(* fingerprint is not followed.                                            *)
(* A revision is only the fact that it moved since the connection was last *)
(* told: the page refetches whatever the number.                           *)
(***************************************************************************)
EXTENDS Integers, FiniteSetsExt, SequencesExt

CONSTANTS
  MaxJobs,         (* bound: jobs submitted                                *)
  Outcomes,        (* bound: the outcomes of a run                         *)
  PageSize,        (* per_page                                             *)
  QuarantineAfter, (* consecutive_infra_failures of the configuration      *)
  MaxSteps         (* bound: what the operator and the user do and what    *)
                   (* fails: purges, health edits, clicks, searches,       *)
                   (* restarts, broken connections, lost answers            *)

ASSUME LiveIndexAssumption ==
  /\ {MaxJobs, PageSize, QuarantineAfter} \subseteq Nat \ {0}
  /\ MaxSteps \in Nat
  /\ Outcomes \subseteq {"passed", "failed", "timedout", "aborted"}

VARIABLES
  (* The database *)
  jobs,    (* job -> its state, "none" when there is no row                *)
  clock,   (* jobs submitted so far, which is the time                     *)
  board,   (* the row of the board                                         *)
  (* paavo-web *)
  fp,      (* LiveState.fp: <<>> until the first successful read           *)
  (* The /api/events connection *)
  conn,    (* whether it is open                                           *)
  untold,  (* tables of the page that moved since it was last told         *)
  (* The page *)
  route,   (* which page is open                                           *)
  view,    (* query, page number and pin                                   *)
  fetch,   (* the queries of the request in flight still to be run         *)
  got,     (* what the others answered                                     *)
  shown,   (* what the page shows                                          *)
  (* Bound and history *)
  steps,   (* counted by MaxSteps                                          *)
  polled,  (* the job table the fingerprint was taken from                 *)
  between  (* whether a query of the last request read its table while it  *)
           (* was not what the poller saw last, and the poller has not     *)
           (* seen the table move since                                    *)

database == <<jobs, clock, board>>
stream   == <<conn, untold>>
browser  == <<route, view, fetch, got, shown>>
vars     == <<database, fp, stream, browser, steps, polled, between>>

Bounded == steps < MaxSteps /\ steps' = steps + 1

InFlight  == {"awaiting_board", "running"}
JobStates == {"submitted", "passed", "failed", "timedout", "aborted"} \cup InFlight
Failed    == <<"failed to load">>
Routes    == {"jobs", "boards"}
NoPin     == -1

Present == {j \in 1 .. MaxJobs : jobs[j] # "none"}

-----------------------------------------------------------------------------
(* The queries.                                                            *)

Newest(S) == SetToSortSeq(S, LAMBDA a, b : a > b)
Rows(ids) == [i \in DOMAIN ids |-> <<ids[i], jobs[ids[i]]>>]
PageOf(ids, p) == SubSeq(ids, (p - 1) * PageSize + 1, Min({p * PageSize, Len(ids)}))

(* Jobs submitted up to the pin; a search ignores it.                      *)
Window == {j \in Present : view.pin = NoPin \/ j <= view.pin}
Listed == IF view.q = "" THEN Window ELSE {j \in Present : jobs[j] = view.q}

InState(s) == {j \in Present : jobs[j] = s}

(* Mutant: the newest submission of each state is left out.                *)
CountsOnly ==
  {<<s, Cardinality(InState(s)), 0>> : s \in {t \in JobStates : InState(t) # {}}}

Digest ==
  {<<s, Cardinality(InState(s)), Max(InState(s))>> :
     s \in {t \in JobStates : InState(t) # {}}}

BoardKey == <<board.health, board.used>>

Answer(query) ==
  CASE query = "items"  -> Rows(PageOf(Newest(Listed), view.page))
    [] query = "total"  -> Cardinality(Listed)
    [] query = "new"    -> Cardinality(Present \ Window)
    [] query = "boards" -> 1
    [] query = "rows"   -> board

(* The queries of a request, in the order its handler runs them: of the    *)
(* list, of a search, for which nothing is new, and of the fleet.          *)
ListQueries   == <<"items", "total", "new">>
SearchQueries == <<"items", "total">>
BoardsQueries == <<"boards", "rows">>

Queries == IF route = "boards" THEN BoardsQueries
           ELSE IF view.q = "" THEN ListQueries ELSE SearchQueries

(* What the poller fingerprints of the table the page shows.               *)
Key == IF route = "jobs" THEN Digest ELSE BoardKey

-----------------------------------------------------------------------------
(* paavod.                                                                 *)

Submit ==
  /\ clock < MaxJobs
  /\ clock' = clock + 1
  /\ jobs' = [jobs EXCEPT ![clock + 1] = "submitted"]
  /\ UNCHANGED <<board, fp, stream, browser, steps, polled, between>>

Moves(j, from, to) ==
  /\ jobs[j] = from
  /\ jobs' = [jobs EXCEPT ![j] = to]

EndBuild(j) ==
  /\ \E s \in {"awaiting_board", "failed"} : Moves(j, "submitted", s)
  /\ UNCHANGED <<clock, board, fp, stream, browser, steps, polled, between>>

(* transition_awaiting_to_running and touch_last_used.                     *)
StartRun(j) ==
  /\ InState("running") = {} /\ board.health = "healthy"
  /\ Moves(j, "awaiting_board", "running")
  /\ board' = [board EXCEPT !.used = @ + 1]
  /\ UNCHANGED <<clock, fp, stream, browser, steps, polled, between>>

(* The outcome and the board's failure count, in one critical section.  An *)
(* infrastructure failure counts, and a timeout whose probe could not be   *)
(* released; every other outcome resets the count.                         *)
Finish(j, s, counts) ==
  /\ counts => s \in {"failed", "timedout"}
  /\ Moves(j, "running", s)
  /\ board' = IF ~counts THEN [board EXCEPT !.fails = 0]
              ELSE IF board.fails + 1 >= QuarantineAfter
              THEN [board EXCEPT !.fails = @ + 1, !.health = "quarantined",
                                 !.reason = "automatic"]
              ELSE [board EXCEPT !.fails = @ + 1]
  /\ UNCHANGED <<clock, fp, stream, browser, steps, polled, between>>

(* Of a job that waits, or whose build it stops.                           *)
CancelPending(j) ==
  /\ Bounded
  /\ \E s \in {"submitted", "awaiting_board"} : Moves(j, s, "aborted")
  /\ UNCHANGED <<clock, board, fp, stream, browser, polled, between>>

(* POST /admin/purge, boards kept.                                         *)
Purge ==
  /\ Bounded
  /\ \A s \in InFlight : InState(s) = {}
  /\ Present # {}
  /\ jobs' = [j \in 1 .. MaxJobs |-> "none"]
  /\ UNCHANGED <<clock, board, fp, stream, browser, polled, between>>

EditHealth ==
  /\ Bounded
  /\ \/ board' = [board EXCEPT !.health = "quarantined", !.reason = "operator"]
     \/ board' = [board EXCEPT !.health = "healthy", !.reason = "", !.fails = 0]
  /\ UNCHANGED <<jobs, clock, fp, stream, browser, polled, between>>

-----------------------------------------------------------------------------
(* The poller.                                                             *)

(* The tick reads one table after the other and publishes the revisions    *)
(* that moved at its end; nothing between can lose them, so each is        *)
(* published with its read here.  A read that fails is tried again by the  *)
(* next tick.                                                              *)
Publish(table) == untold' = IF conn THEN untold \cup ({table} \cap {route}) ELSE {}

PollJobs ==
  /\ route = "jobs"
  /\ fp.jobs # <<Digest>>
  /\ fp' = [fp EXCEPT !.jobs = <<Digest>>]
  /\ polled' = <<jobs>>
  /\ Publish("jobs")
  /\ between' = (between /\ route # "jobs")
  /\ UNCHANGED <<database, conn, browser, steps>>

PollBoards ==
  /\ route = "boards"
  /\ fp.boards # <<BoardKey>>
  /\ fp' = [fp EXCEPT !.boards = <<BoardKey>>]
  /\ Publish("boards")
  /\ between' = (between /\ route # "boards")
  /\ UNCHANGED <<database, conn, browser, steps, polled>>

(* paavo-web starts again: revisions count from 0, the connection breaks.  *)
WebRestart ==
  /\ Bounded
  /\ fp' = [jobs |-> <<>>, boards |-> <<>>]
  /\ conn' = FALSE /\ untold' = {}
  /\ fetch' = <<>> /\ got' = <<>>
  /\ shown' = IF fetch # <<>> THEN Failed ELSE shown
  /\ polled' = <<>> /\ between' = FALSE
  /\ UNCHANGED <<database, route, view>>

-----------------------------------------------------------------------------
(* The event stream.                                                       *)

(* Setting a signal runs the request again, whatever the number; a request *)
(* in flight is abandoned.                                                 *)
Request == fetch' = Queries' /\ got' = <<>> /\ between' = FALSE

(* Mutant: a new connection is told only what moves from now on.           *)
ConnectSilently ==
  /\ ~conn
  /\ conn' = TRUE
  /\ UNCHANGED <<database, fp, untold, browser, steps, polled, between>>

(* A new connection gets a snapshot of every revision.                     *)
Connect ==
  /\ ~conn
  /\ conn' = TRUE
  /\ UNCHANGED <<database, fp, untold, route, view, shown, steps, polled>>
  /\ Request

(* One event per revision that moved; a slow connection misses the values  *)
(* in between.                                                             *)
Tell ==
  /\ untold # {}
  /\ untold' = {}
  /\ UNCHANGED <<database, fp, conn, route, view, shown, steps, polled>>
  /\ Request

(* Mutant: what was not told before the connection broke is kept.          *)
BreakKeeping ==
  /\ Bounded
  /\ conn
  /\ conn' = FALSE
  /\ UNCHANGED <<database, fp, untold, browser, polled, between>>

Break ==
  /\ Bounded
  /\ conn
  /\ conn' = FALSE /\ untold' = {}
  /\ UNCHANGED <<database, fp, browser, polled, between>>

-----------------------------------------------------------------------------
(* The page.                                                               *)

(* One query of the request; the last one's answer completes it.           *)
RunQuery ==
  /\ fetch # <<>>
  /\ LET answers == Append(got, Answer(Head(fetch)))
     IN IF Len(fetch) = 1 THEN shown' = answers /\ got' = <<>>
        ELSE got' = answers /\ UNCHANGED shown
  /\ fetch' = Tail(fetch)
  /\ between' = (between \/ fp[route] # <<Key>>)
  /\ UNCHANGED <<database, fp, stream, route, view, steps, polled>>

RequestFails ==
  /\ Bounded
  /\ fetch # <<>>
  /\ fetch' = <<>> /\ got' = <<>> /\ shown' = Failed
  /\ UNCHANGED <<database, fp, stream, route, view, polled, between>>

Loaded == route = "jobs" /\ Len(shown) >= 2

(* The pager offers the pages of what is shown.                            *)
TurnPage(p) ==
  /\ Bounded
  /\ Loaded /\ p # view.page /\ p <= (shown[2] + PageSize - 1) \div PageSize
  /\ view' = [view EXCEPT !.page = p]
  /\ UNCHANGED <<database, fp, stream, route, shown, polled>>
  /\ Request

(* "N new": the list is pinned to the present.                             *)
PullNew ==
  /\ Bounded
  /\ Loaded /\ Len(shown) = 3 /\ shown[3] > 0
  /\ view' = [view EXCEPT !.page = 1, !.pin = clock]
  /\ UNCHANGED <<database, fp, stream, route, shown, polled>>
  /\ Request

(* A committed query: back to page 1, unpinned while it is not blank.      *)
Search(q) ==
  /\ Bounded
  /\ route = "jobs"
  /\ view' = [q |-> q, page |-> 1, pin |-> IF q = "" THEN clock ELSE NoPin]
  /\ UNCHANGED <<database, fp, stream, route, shown, polled>>
  /\ Request

-----------------------------------------------------------------------------
(* The page is opened when some jobs wait already.                         *)
Init ==
  /\ clock \in 0 .. MaxJobs
  /\ jobs = [j \in 1 .. MaxJobs |-> IF j <= clock THEN "submitted" ELSE "none"]
  /\ board = [health |-> "healthy", reason |-> "", fails |-> 0, used |-> 0]
  /\ fp = [jobs |-> <<>>, boards |-> <<>>]
  /\ conn = FALSE /\ untold = {}
  /\ route \in Routes
  /\ view = [q |-> "", page |-> 1, pin |-> clock]
  /\ fetch = Queries /\ got = <<>> /\ shown = <<>>
  /\ steps = 0
  /\ polled = <<>> /\ between = FALSE

Paavod ==
  \/ Submit \/ Purge \/ EditHealth
  \/ \E j \in 1 .. MaxJobs :
       \/ EndBuild(j) \/ StartRun(j) \/ CancelPending(j)
       \/ \E s \in Outcomes, counts \in BOOLEAN : Finish(j, s, counts)

Pipeline == PollJobs \/ PollBoards \/ Connect \/ Tell \/ RunQuery

User ==
  \/ PullNew
  \/ \E p \in 1 .. MaxJobs : TurnPage(p)
  \/ \E q \in {"", "passed"} : Search(q)

Failure == WebRestart \/ Break \/ RequestFails

Next == Paavod \/ Pipeline \/ User \/ Failure

(* The poller ticks, an EventSource connects again, and what is sent or    *)
(* asked for arrives: one of them moves while one of them can.  Nothing is *)
(* assumed of paavod, the user or failures.                                *)
Spec == Init /\ [][Next]_vars /\ WF_vars(Pipeline)

-----------------------------------------------------------------------------
(* Types of every variable.                                                *)
TypeOK ==
  /\ jobs \in [1 .. MaxJobs -> JobStates \cup {"none"}]
  /\ clock \in 0 .. MaxJobs
  /\ board \in [health : {"healthy", "quarantined"}, fails : Nat, used : Nat,
                reason : {"", "automatic", "operator"}]
  /\ untold \subseteq {route}
  /\ DOMAIN fp = {"jobs", "boards"}
  /\ conn \in BOOLEAN /\ (~conn => untold = {}) /\ between \in BOOLEAN
  /\ view \in [q : {"", "passed"}, page : 1 .. MaxJobs, pin : NoPin .. MaxJobs]
  /\ IsSuffix(fetch, Queries) /\ Len(got) <= Len(Queries)

(* A poll that finds the digest it found before finds the job table        *)
(* unchanged: no combination of submissions, transitions and purges within *)
(* a tick leaves every count and every newest submission as it was         *)
(* (activity_digest's comment expects some to).                            *)
DigestTellsTables ==
  fp.jobs = <<Digest>> => polled = <<jobs>>

(* What a request would answer now, of what the page is keyed on.          *)
Fresh ==
  /\ Len(shown) = Len(Queries)
  /\ IF route = "boards" THEN <<shown[2].health, shown[2].used>> = BoardKey
     ELSE \A i \in DOMAIN Queries : shown[i] = Answer(Queries[i])

(* The one way a page stays stale: a query of its last request read its    *)
(* table in the middle of a change and its reversal, and the poller, which *)
(* looked before and after, saw neither.                                   *)
ReadBetween == between /\ fp[route] = <<Key>>

(* Whatever broke on the way, an open page ends up showing what is there,  *)
(* of the jobs, of the boards' health and of their last use, or that its   *)
(* request failed, unless it was misled by ReadBetween: the snapshot of a  *)
(* new connection, the refetch on every event and the fingerprints         *)
(* together lose no other change.  (A board quarantined and released, or a *)
(* job submitted to an empty table and purged, within a tick in which the  *)
(* page happens to ask is never corrected.)                                *)
PageCatchesUp == []<>(Fresh \/ shown = Failed \/ ReadBetween)
=============================================================================
