-------------------------------- MODULE Intake --------------------------------
(***************************************************************************)
(* How work and boards get into paavod: operators who edit the board       *)
(* table, the inventory cache that is refreshed after each edit, people    *)
(* who submit with paavo-cli, the nightly corpus run, purges, and the      *)
(* daemon's start, which seeds the table from boards.toml.                 *)
(*                                                                         *)
(* A selector is the set of boards it can match.  An edit is two critical  *)
(* sections, the table's and the cache's; a submission checks the cache    *)
(* before it keeps the tar and again under the lock it inserts under; the  *)
(* nightly run takes its copy of the cache before it takes that lock.      *)
(* Health plays no part in selection here: a quarantined board is one that *)
(* may come back.  What becomes of a job is Dispatch's; of its tar,        *)
(* ArtifactStore's.  A fire of the schedule finds the one before it over.  *)
(***************************************************************************)
EXTENDS Integers, FiniteSets

CONSTANTS
  Boards,
  Operators,  (* who edits the table                                       *)
  Selectors,  (* what jobs ask for: sets of boards                         *)
  Crates,     (* the corpus                                                *)
  CorpusFor,  (* the selector of the corpus' kind                          *)
  Seeds,      (* the boards of boards.toml                                 *)
  MaxJobs,    (* bound: jobs that wait with the same selector              *)
  MaxEdits,   (* bound: requests that edit the table                       *)
  MaxFires,   (* bound: fires of the schedule                              *)
  MaxFaults   (* bound: restarts, and refreshes that fail                  *)

ASSUME IntakeAssumption ==
  /\ Selectors \subseteq SUBSET Boards /\ CorpusFor \in Selectors
  /\ Seeds \subseteq Boards /\ IsFiniteSet(Crates)
  /\ {MaxJobs, MaxEdits, MaxFires, MaxFaults} \subseteq Nat

VARIABLES
  (* The database *)
  table,      (* board -> its health, "absent" when there is no row        *)
  waiting,    (* selector -> jobs that wait for a board                    *)
  used,       (* boards a job row names                                    *)
  triggered,  (* the nightly row: the fire its stamps are of, of the last  *)
  completed,  (* trigger and of the last completion                        *)
  (* paavod *)
  cache,      (* AppState.inventory                                        *)
  draining,
  edit,       (* operator -> the request it has open                       *)
  submission, (* the submission under way                                  *)
  (* The corpus run under way *)
  night,      (* "over", or "corpus" while there is one                    *)
  left,       (* crates it has yet to come to                              *)
  crate,      (* the crate that is in its tar                              *)
  copy,       (* the cache as it was copied for it                         *)
  enqueued,   (* jobs it has enqueued                                      *)
  (* Bounds and history *)
  edits,
  faults,
  fires,      (* fires that were not skipped                               *)
  stale,      (* a refresh failed and none succeeded since                 *)
  lastNight   (* how the last fire went                                    *)

database == <<table, waiting, used, triggered, completed>>
nightly  == <<night, left, crate, copy, enqueued>>
history  == <<edits, faults, fires, stale, lastNight>>
vars     == <<database, cache, draining, edit, submission, nightly, history>>

Listed == {b \in Boards : table[b] # "absent"}

(* selector_matches_any                                                    *)
Matches(sel, boards) == sel \cap boards # {}

NoEdit  == [at |-> "none", op |-> "none", on |-> {}]
Nobody  == [at |-> "none", sel |-> {}]

Insert(sel) ==
  /\ waiting[sel] < MaxJobs
  /\ waiting' = [waiting EXCEPT ![sel] = @ + 1]

-----------------------------------------------------------------------------
(* Edits of the fleet.                                                     *)

Ops == {"add", "quarantine", "unquarantine", "delete", "purge"}

Ask(o, op, on) ==
  /\ edits < MaxEdits /\ edits' = edits + 1
  /\ edit[o] = NoEdit
  /\ edit' = [edit EXCEPT ![o] = [at |-> "asked", op |-> op, on |-> on]]
  /\ UNCHANGED <<database, cache, draining, submission, nightly, faults, fires, stale, lastNight>>

(* What the table makes of it; FALSE when the request is refused.          *)
Allowed(op, b) ==
  CASE op = "add"                             -> table[b] = "absent"
    [] op \in {"quarantine", "unquarantine"} -> table[b] # "absent"
    [] op = "delete"                          -> table[b] = "quarantined" /\ b \notin used
    [] op = "purge"                           -> TRUE

(* POST /admin/purge?boards=true, once the operator has confirmed it.      *)
AskPurge(o) == Ask(o, "purge", Boards)

After(op) ==
  CASE op \in {"add", "unquarantine"} -> "healthy"
    [] op = "quarantine"              -> "quarantined"
    [] op \in {"delete", "purge"}     -> "absent"

Commit(o) ==
  LET e == edit[o] IN
  /\ e.at = "asked"
  /\ \A b \in e.on : Allowed(e.op, b)
  /\ table' = [b \in Boards |-> IF b \in e.on THEN After(e.op) ELSE table[b]]
  /\ IF e.op = "purge" THEN waiting' = [s \in Selectors |-> 0] /\ used' = {}
     ELSE UNCHANGED <<waiting, used>>
  /\ edit' = [edit EXCEPT ![o].at = "committed"]
  /\ UNCHANGED <<triggered, completed, cache, draining, submission, nightly, history>>

Refuse(o) ==
  LET e == edit[o] IN
  /\ e.at = "asked"
  /\ \E b \in e.on : ~Allowed(e.op, b)
  /\ edit' = [edit EXCEPT ![o] = NoEdit]
  /\ UNCHANGED <<database, cache, draining, submission, nightly, history>>

(* Mutant: a deletion does not refresh the cache.                          *)
RefreshUnlessDeleted(o) ==
  /\ edit[o].at = "committed"
  /\ cache' = IF edit[o].op = "delete" THEN cache ELSE Listed
  /\ stale' = FALSE
  /\ edit' = [edit EXCEPT ![o] = NoEdit]
  /\ UNCHANGED <<database, draining, submission, nightly, edits, faults, fires, lastNight>>

(* refresh_inventory reads the table and replaces the cache under both     *)
(* locks, whichever edits were committed by then; the request is answered. *)
Refresh(o) ==
  /\ edit[o].at = "committed"
  /\ cache' = Listed
  /\ stale' = FALSE
  /\ edit' = [edit EXCEPT ![o] = NoEdit]
  /\ UNCHANGED <<database, draining, submission, nightly, edits, faults, fires, lastNight>>

(* It is answered all the same.                                            *)
RefreshFails(o) ==
  /\ faults < MaxFaults /\ faults' = faults + 1
  /\ edit[o].at = "committed"
  /\ stale' = TRUE
  /\ edit' = [edit EXCEPT ![o] = NoEdit]
  /\ UNCHANGED <<database, cache, draining, submission, nightly, edits, fires, lastNight>>

-----------------------------------------------------------------------------
(* Submissions.                                                            *)

(* resolve_board_selector: an instance is one GET /boards lists, a kind    *)
(* is taken as it is given.                                                *)
Resolved(sel) == Cardinality(sel) = 1 => sel \subseteq Listed

(* The crate is resolved and tarred, and uploaded unless paavod drains.    *)
Upload(sel) ==
  /\ submission = Nobody
  /\ Resolved(sel)
  /\ ~draining
  /\ submission' = [at |-> "uploading", sel |-> sel]
  /\ UNCHANGED <<database, cache, draining, edit, nightly, history>>

(* Before the tar is kept.                                                 *)
PreCheck ==
  /\ submission.at = "uploading"
  /\ submission' = IF Matches(submission.sel, cache)
                   THEN [submission EXCEPT !.at = "kept"] ELSE Nobody
  /\ UNCHANGED <<database, cache, draining, edit, nightly, history>>

Enqueue ==
  /\ submission.at = "kept"
  /\ IF Matches(submission.sel, cache) THEN Insert(submission.sel)
     ELSE UNCHANGED waiting
  /\ submission' = Nobody
  /\ UNCHANGED <<table, used, triggered, completed, cache, draining, edit, nightly, history>>

(* A healthy board takes a waiting job, whose row names it from then on.   *)
Run(sel, b) ==
  /\ waiting[sel] > 0 /\ b \in sel /\ table[b] = "healthy"
  /\ waiting' = [waiting EXCEPT ![sel] = @ - 1]
  /\ used' = used \cup {b}
  /\ UNCHANGED <<table, triggered, completed, cache, draining, edit, submission, nightly, history>>

-----------------------------------------------------------------------------
(* The nightly corpus run.                                                 *)

NightOver == night' = "over" /\ left' = {} /\ crate' = {} /\ copy' = {} /\ enqueued' = 0

(* A fire while paavod drains is skipped and leaves the row alone.         *)
Fire ==
  /\ fires < MaxFires
  /\ night = "over" /\ ~draining
  /\ fires' = fires + 1
  /\ triggered' = fires + 1
  /\ night' = "corpus" /\ left' = Crates
  /\ lastNight' = "cut"
  /\ UNCHANGED <<table, completed, waiting, used, cache, draining, edit, submission, crate, copy, enqueued,
                 edits, faults, stale>>

(* The corpus directory cannot be read.                                    *)
CorpusFails ==
  /\ night = "corpus" /\ left = Crates /\ crate = {}
  /\ left' = {}
  /\ UNCHANGED <<database, cache, draining, edit, submission, night, crate, copy, enqueued, history>>

(* The crate is in its tar, and the cache copied.                          *)
TarCrate(c) ==
  /\ c \in left /\ crate = {}
  /\ left' = left \ {c} /\ crate' = {c} /\ copy' = cache
  /\ UNCHANGED <<database, cache, draining, edit, submission, night, enqueued, history>>

(* No Cargo.toml, or its directory cannot be tarred.                       *)
SkipCrate(c) ==
  /\ c \in left /\ crate = {}
  /\ left' = left \ {c}
  /\ UNCHANGED <<database, cache, draining, edit, submission, night, crate, copy, enqueued, history>>

EnqueueCrate ==
  /\ crate # {}
  /\ crate' = {} /\ copy' = {}
  /\ IF Matches(CorpusFor, copy) THEN Insert(CorpusFor) /\ enqueued' = enqueued + 1
     ELSE UNCHANGED <<waiting, enqueued>>
  /\ UNCHANGED <<table, used, triggered, completed, cache, draining, edit, submission, night, left, history>>

(* Mutant: the stamp does not ask whether anything was enqueued.           *)
EndNightAlways ==
  /\ night = "corpus" /\ left = {} /\ crate = {}
  /\ completed' = triggered
  /\ lastNight' = IF enqueued > 0 THEN "whole" ELSE "empty"
  /\ NightOver
  /\ UNCHANGED <<table, triggered, waiting, used, cache, draining, edit, submission, edits, faults, fires, stale>>

EndNight ==
  /\ night = "corpus" /\ left = {} /\ crate = {}
  /\ completed' = IF enqueued > 0 THEN triggered ELSE completed
  /\ lastNight' = IF enqueued > 0 THEN "whole" ELSE "empty"
  /\ NightOver
  /\ UNCHANGED <<table, triggered, waiting, used, cache, draining, edit, submission, edits, faults, fires, stale>>

-----------------------------------------------------------------------------
(* Drain and start.                                                        *)

Drain ==
  /\ ~draining
  /\ draining' = TRUE
  /\ UNCHANGED <<database, cache, edit, submission, nightly, history>>

(* Mutant: boards.toml has the last word.                                  *)
SeededOver == [b \in Boards |-> IF b \in Seeds THEN "healthy" ELSE table[b]]

(* Boards that are known already are left alone.                           *)
Seeded ==
  [b \in Boards |-> IF b \in Seeds /\ table[b] = "absent" THEN "healthy" ELSE table[b]]

(* paavod dies or stops, and starts: requests and the corpus run are gone. *)
Restart ==
  /\ faults < MaxFaults /\ faults' = faults + 1
  /\ table' = Seeded
  /\ cache' = {b \in Boards : Seeded[b] # "absent"}
  /\ draining' = FALSE
  /\ edit' = [o \in Operators |-> NoEdit]
  /\ submission' = Nobody /\ NightOver
  /\ stale' = FALSE
  /\ UNCHANGED <<waiting, used, triggered, completed, edits, fires, lastNight>>

-----------------------------------------------------------------------------
Init ==
  /\ table = [b \in Boards |-> IF b \in Seeds THEN "healthy" ELSE "absent"]
  /\ waiting = [s \in Selectors |-> 0] /\ used = {}
  /\ triggered = 0 /\ completed = 0
  /\ cache = Seeds
  /\ draining = FALSE
  /\ edit = [o \in Operators |-> NoEdit]
  /\ submission = Nobody
  /\ night = "over" /\ left = {} /\ crate = {} /\ copy = {} /\ enqueued = 0
  /\ edits = 0 /\ faults = 0 /\ fires = 0 /\ stale = FALSE /\ lastNight = "none"

Fleet(o) ==
  \/ Commit(o) \/ Refuse(o) \/ Refresh(o) \/ RefreshFails(o)
  \/ AskPurge(o)
  \/ \E b \in Boards, op \in Ops \ {"purge"} : Ask(o, op, {b})

Nightly ==
  \/ Fire \/ CorpusFails \/ EnqueueCrate \/ EndNight
  \/ \E c \in Crates : TarCrate(c) \/ SkipCrate(c)

Next ==
  \/ \E o \in Operators : Fleet(o)
  \/ \E sel \in Selectors : Upload(sel) \/ \E b \in Boards : Run(sel, b)
  \/ PreCheck \/ Enqueue
  \/ Nightly \/ Drain \/ Restart

Spec == Init /\ [][Next]_vars

-----------------------------------------------------------------------------
(* Types of every variable.                                                *)
TypeOK ==
  /\ table \in [Boards -> {"absent", "healthy", "quarantined"}]
  /\ waiting \in [Selectors -> 0 .. MaxJobs]
  /\ used \subseteq Listed /\ cache \subseteq Boards
  /\ triggered \in 0 .. MaxFires /\ completed \in 0 .. MaxFires
  /\ {draining, stale} \subseteq BOOLEAN
  /\ edit \in [Operators -> [at : {"none", "asked", "committed"},
                             op : Ops \cup {"none"}, on : SUBSET Boards]]
  /\ submission \in [at : {"none", "uploading", "kept"}, sel : Selectors \cup {{}}]
  /\ night \in {"over", "corpus"} /\ left \subseteq Crates /\ crate \subseteq Crates
  /\ copy \subseteq Boards /\ enqueued \in 0 .. Cardinality(Crates)
  /\ edits \in 0 .. MaxEdits /\ faults \in 0 .. MaxFaults /\ fires \in 0 .. MaxFires

(* Once every edit of a board has been answered, a submission is checked   *)
(* against what the edits made of the table, however they overlapped,      *)
(* unless a refresh failed and none succeeded since.                       *)
CacheTellsEdits ==
  ~stale => \A b \in Boards :
    (\A o \in Operators : ~(edit[o].at = "committed" /\ b \in edit[o].on)) =>
      (b \in cache <=> b \in Listed)

(* A quarantined board is healthy again only when an operator asked for    *)
(* it: not through boards.toml at a start, nor through being added again.  *)
QuarantineSticks ==
  [][\A b \in Boards :
       table[b] = "quarantined" /\ table'[b] = "healthy" =>
         \E o \in Operators : edit[o].op = "unquarantine" /\ b \in edit[o].on]_vars

(* The schedule page tells how the last night went: it names the last fire *)
(* that was not skipped, and tells it complete exactly when the run went   *)
(* through the whole corpus and enqueued something, across restarts.       *)
NightTells ==
  night = "over" /\ fires > 0 =>
    /\ triggered = fires
    /\ (completed = fires) <=> (lastNight = "whole")
=============================================================================
