# A TLA+ model of paavo

paavo is a hardware-in-the-loop test runner: developers and a nightly corpus
submit crates, the daemon `paavod` builds each into an ELF, waits for a board of
the right kind, flashes it through a debug probe, streams the board's log and
records a verdict. This directory models the parts of it in which several
actors share state (the dispatcher above all), checks them with TLC on small
instances, and proves every safety property the runs check with TLAPS: of the dispatcher
and the scheduler, of the artifact store, the builds, a run and its watchdog, of the log
stream, the intake of work and the live index, for every number of jobs, boards, tars, slots,
operators, crates, pages and lines, every firmware and every timeout. Liveness is model-checked.

`PROJECT.json` is the index: for every definition the source lines it stands
for, for every property the mutated definition that breaks it, and the list of
hazards the properties were written for.

## 1. The system

| Part | Source (under `src/crates/`) | State it keeps | Operations | Talks to |
|---|---|---|---|---|
| Dispatch loop | `paavod/src/dispatch.rs` | what it has picked and not yet claimed | tick, run stage, build stage | database, registries, slot channel, broker |
| Build tasks | `dispatch.rs:158-305` | slot, result | lookup, build, store, advance, epilogue | builder, database, broker |
| Run tasks | `dispatch.rs:307-460`, `paavo-runner/` | result | start, run, finalize, epilogue | board worker, database, broker |
| Registries | `paavod/src/cancellation.rs` | job -> sender, one for builds, one for runs | register, signal, unregister | handlers signal, tasks listen |
| Job table | `paavo-db/src/job.rs` | `job` rows | insert, three claims, cancel, finalize, reconcile | everybody, under one mutex |
| Fleet | `paavo-db/src/board.rs`, `paavo-core/src/quarantine.rs`, `routes/boards.rs`, `app_state.rs` | `board` rows, an in-memory copy of them | add, delete, (un)quarantine, account an outcome, refresh the copy | scheduler, run tasks, submission |
| Scheduler | `paavo-core/src/scheduler.rs` | none | `pick_runnable`, `pick_buildable` | called by the loop under the lock |
| Artifact store | `paavo-core/src/build_cache.rs`, `state_dir.rs` | `build_cache` rows, ELF and tar files | lookup, store, evict, wipe | build tasks, purge |
| Submission | `routes/jobs.rs`, `paavo-core/src/enqueue.rs` | half-written uploads | drain check, selector check, upload, rename, insert | job table, inventory copy |
| Purge | `routes/admin.rs` | none | delete rows, wipe directories, refresh the copy | job table, fleet, store |
| Nightly corpus | `paavod/src/cron.rs` | `schedule` rows | fire, tar and enqueue crate by crate, stamp | job table, inventory copy |
| Shutdown, restart | `shutdown.rs`, `main.rs` | drain flag, grace | drain, force, reconcile, seed boards | loop, run registry, fleet |
| Log stream | `log_sink.rs`, `job_logs.rs`, `routes/jobs.rs:450-670`, `paavo-web/src/proxy.rs`, `paavo-web-ui/.../job_detail.rs` | batch, `log_frame` rows, broadcast channels, the page | push, flush, publish, subscribe, replay, tail | sinks -> broker -> handler -> proxy -> page |
| Board worker | `paavo-runner/src/{worker,watchdog}.rs`, `paavo-probe/src/session.rs` | decoder, clocks, stop reason | connect, drain a frame, read RTT, read status, time out | firmware, run registry |
| cargo builds | `paavo-build/`, `paavod/src/builder.rs` | a child process, two readers, the slot's target directory | unpack, update, build, kill, find the ELF | build tasks, log sink |
| Web API, live index | `paavo-web/src/index.rs`, `paavo-web/src/api/` | fingerprints and revisions of three tables | poll, notify, query | database (read only), pages |
| Pages | `paavo-web-ui/` | query, page number, pin, what is shown | fetch, refetch on an event, search, turn a page | web API |
| CLI | `paavo-cli/` | none | submit, follow, cancel, edit boards, purge | HTTP |

Every database access is under one mutex (`paavo_db::Db` behind
`parking_lot::Mutex`), so a lock scope is atomic and nothing is between two of
them. Rows survive a crash; loop, tasks, registries, slot channel, broker
and drain flag do not.

### What is hard in it, and what has to be true

* **Two lock scopes where one is meant.** The run stage picks a board in one
  scope and claims it in the next (`dispatch.rs:69-97`), the build stage takes a
  slot in between (`dispatch.rs:113-156`), a cancel reads a state and signals a
  registry afterwards (`routes/jobs.rs:400-436`). A board must not serve two
  jobs, a slot must not be lost, a tar must not be built twice at once, and no
  task may write a row that has moved on.
* **Every path out of a task.** Success, failure, kill, panic, cancel, force
  and crash must each release the slot, the registry entry, the row and the board.
* **Shutdown and restart.** The drained loop must leave; a restarted daemon must
  own no row in flight.
* **Operators.** Boards are quarantined, restored, deleted, added and purged
  while jobs run on them: a failing board must stay out of rotation, a row
  must not name a board that has gone.
* **Files beside rows.** A tar, an ELF and the row that vouches for the ELF are
  written at different moments by uploads, builds and the purge, and read again
  much later: a job must have its tar, a row must not vouch for half an ELF, a run must
  flash and decode the same one.
* **The choice of the next job.** Two orders (stored and effective priority), a
  truncated scan and an LRU rule: nobody is overtaken wrongly or for ever.
* **Three reads make one page.** A log page is composed of persisted frames,
  history and a live tail while the job goes on, over a connection that may
  break and a channel that may overflow: no frame twice, none out of order, none
  lost but for those the code gives up, and every page is told the end.
* **A child process and its pipes.** cargo blocks on a full pipe, prints what is not
  UTF-8, dies, hangs, leaves a helper that holds its pipes, and is killed between two of
  its runs: a build must end, and its log must hold all it said before the outcome is written.
* **A directory that outlives its job.** A slot keeps its target directory; a job must get
  the ELF of its own crate.
* **A copy of a table.** Submissions and the nightly look at a copy of the boards that
  is refreshed after the edit's lock is gone: overlapping edits must not leave an old copy.
* **A page that is told of changes.** A fingerprint is compared once a second, events are
  coalesced and lost, a request is several queries: an open page must not stay behind.
* **A target that runs while it is read.** RTT and core status are two reads;
  the watchdog decides on a clock it shares with the worker: a pass must be
  earned, a run must end in time, and for the reason recorded.

## 2. The modules

| Module | What it is |
|---|---|
| `JobLifecycle` | The abstract specification: what the job table promises. A job moves along its phases; a board is a lock with at most one owner. |
| `Dispatch` | Loop, tasks, handlers, fleet edits, purge, shutdown, restart: one action per lock scope. Refines `JobLifecycle`. |
| `DispatchInvariant` | The inductive invariant of `Dispatch`. |
| `DispatchProofs` | The theorems about `Dispatch`. |
| `Scheduler` | The two choices `Dispatch` leaves open, as the code makes them, with their fairness. |
| `SchedulerProofs` | Its invariant, lemmas about filtered sequences, and the theorems. |
| `Intake` | How work and boards get in: operators, submissions, the nightly corpus, the start, and the copy of the inventory between them. |
| `IntakeProofs` | Its inductive invariant and the theorems about it. |
| `Build` | One build slot: `build_inner` and cargo with its pipes, readers and kill, in the slot's target directory. |
| `BuildProofs` | Its inductive invariant and the theorems about it. |
| `ArtifactStore` | Tars, ELFs, cache rows and temporary files, from the upload to the run. |
| `ArtifactStoreProofs` | Its inductive invariant and the theorems about it. |
| `Worker` | One run: the stages of the attach, firmware, board worker, watchdog. |
| `WorkerProofs` | Its inductive invariants and the theorems about it. |
| `LogStream` | One job's log from the sinks to the pages. |
| `LogStreamProofs` | Its inductive invariant and the theorems about it. |
| `LiveIndex` | A jobs or boards page, from the database through poller and event stream to what it shows. |
| `LiveIndexProofs` | Its inductive invariant and the theorems about it. |
| `MC*` | The small instances. |

`Dispatch` and `Scheduler` share one interface: the guards `Runnable` and
`Buildable` of the first are the sets the second chooses from
(`FreeFor`, `PickBuildable`). `Worker` is the inside of the action
`WorkerEnds` of `Dispatch`, and its `Send` the receiver `RunListens` stands for.
`LogStream` follows one job through the phases `Dispatch` moves it along.
`ArtifactStore` is what `posting`, `cache`, `BuildStore` and `Purge` of `Dispatch`
stand for, file by file, with the single flight of `Dispatch` as the guard of its `Claim`.
`Build` is the inside of a build task of `Dispatch`, from its `BuildLookup` to its
`BuildStore`, job after job in one slot; what it pushes to the log is the input of `LogStream`.
`Intake` is what comes before a row of `Dispatch` is `submitted`, and the second half of each of
its fleet edits. `LiveIndex` looks at the rows from outside.

### How `Dispatch` corresponds to the code

| TLA+ | Code |
|---|---|
| `jobState`, `jobBoard` | `job.state`, `job.board_id`; `"absent"` and `"purged"` are rows that are not there |
| `health`, `infra` | `board.health`, `board.consecutive_infra_failures` |
| `cache` | tars with a `build_cache` row whose ELF is on disk (a lookup checks both) |
| `loopPc`, `pick*` | the loop's place in `dispatch.rs:40-156` and its locals there |
| `buildPc`, `buildSlot`, `buildResult` | the locals of `run_one_build` and `build_inner` |
| `runPc`, `runResult` | the locals of `run_one_board` |
| `buildReg`, `runReg` | the keys of the two registries |
| `buildKill`, `runSignal` | what has been sent to the channel of an entry |
| `posting`, `cancelling` | handlers between their two steps |
| `announced` | jobs whose `Terminal` event was published |
| `draining`, `shutdown` | `DrainState`, progress of `drain_with_grace` |

The loop is `Tick`, `RunPick`, `RunClaim`, `RunRegister`, `BuildPick`,
`BuildTakeSlot`, `BuildClaim`, `BuildRegister`. A build task is `BuildLookup`,
`BuildHit` or `BuildEnds` and `BuildStore`, and then the epilogue `ReleaseSlot`,
`UnregisterBuild`, `FinalizeBuild`, `PublishBuild`, in the code's order: the slot
and the registry entry go before the row. A run task is `RunStart`,
`WorkerEnds` or `WatchdogStops` and `WorkerStops`, `FinalizeRun` (row and quarantine in one
scope), `PublishRun`, `UnregisterRun`. `CancelLookup` and `CancelSignal` are the
two halves of the cancel handler. `Restart` is a crash at any point together
with the start of `main.rs`: reconciliation of the rows in flight, the boards of
`boards.toml`, a full slot pool.

### How `ArtifactStore` corresponds to the code

| TLA+ | Code |
|---|---|
| `tmp`, `tar` | `uploads/.tmp-<id>.tar`, `uploads/<blake3>.tar` |
| `elf` | `cache/elf/<blake3>.elf`: missing, half written, or whose build wrote it |
| `row` | the `build_cache` rows |
| `job` | where a job is between `POST /jobs` and the end of its run |
| `flashed`, `decoded` | what the two reads of `RealSession::connect` found |
| `purge` | the next step of `purge`: rows, uploads, ELFs |
| `torn`, `disturbed` | history for the properties, which no action reads in a guard |

An upload is `Upload`, `Check`, `Rename` and `Insert`, with the temporary file's guard in each
of its ends; a build is `Claim`, `Lookup`, and then `Hit` or `Unpack`, `CopyBegins`, `CopyEnds`
(`fs::copy` truncates and fills the file in place) and `Store`; a run is `Flash`
and `Decode`. `disturbed` is the set of jobs that had a file wiped or replaced
under them: the properties hold for all the others, which is exactly what the code can promise.

### How `Intake` corresponds to the code

| TLA+ | Code |
|---|---|
| `table`, `used` | `board` rows and their health; boards that a `job` row names (a foreign key) |
| `waiting` | jobs inserted and not yet on a board, by selector; a selector is the set of boards it can match |
| `cache` | `AppState.inventory` |
| `edit` | an operator's open request: asked, or committed and not yet refreshed |
| `submission` | a `paavo run` or `POST /jobs` under way: uploading, or its tar kept |
| `triggered`, `completed` | the `schedule` row's two stamps, as the number of the fire |
| `night`, `left`, `crate`, `copy`, `enqueued` | the locals of the corpus run |
| `stale`, `lastNight` | history for the properties, which no action reads in a guard |

An edit is `Ask`, `Commit` or `Refuse` (the handler's lock scope), then `Refresh`, which reads
the table under the database lock and the copy's lock and answers, or `RefreshFails`. A submission is
`Upload` (the CLI resolves the selector, the handler looks at the drain flag), `PreCheck` and
`Enqueue`, each against the copy as it is then. A night is `Fire`, per crate
`TarCrate` (and the copy of the copy) or `SkipCrate` and `EnqueueCrate`, and `EndNight`.
`Restart` seeds the table from `boards.toml` and loads the copy.

### How `Build` corresponds to the code

| TLA+ | Code |
|---|---|
| `at`, `run`, `result`, `picked` | the build thread's place in `build_inner`, `build`, `run_cargo_streaming`, and its locals |
| `cancel` | the kill channel of the build registry's entry, one for all runs of cargo of the job |
| `child`, `pending`, `wrote`, `helper`, `linked` | cargo: its status, the write it blocks on, what it printed, a process it left behind, whether it wrote the ELF |
| `pipe`, `reader`, `cut` | the two pipes and their reader threads; `cut` is history |
| `tail`, `channel`, `log` | `StderrTail`, the `mpsc` channel, the lines the forwarder pushed |
| `target` | ELFs in the release directories of the slot, by their place in `try_pick_elf`'s order |
| `files`, `rows` | `cache-elfs/<hash>.elf`, `build_cache` |

`Poll`, `ReceiveTimesOut` and `Kill` are `wait_or_kill`; `AfterCargo` follows the joins of
both readers; `JoinForwarder` is the join before the outcome is written. A reader that meets
bytes that are not UTF-8 ends (`lines().map_while(Result::ok)`) and closes its pipe.

### How `LiveIndex` corresponds to the code

| TLA+ | Code |
|---|---|
| `jobs`, `clock`, `board` | the rows the pages show; a job is its place in the order of submission |
| `fp` | `LiveState.fp`, the digests last read |
| `conn`, `untold` | an `/api/events` connection, and the tables whose revision moved since it was last told |
| `route`, `view` | which page is open; its query, page number and pin |
| `fetch`, `got`, `shown` | the queries of the request in flight still to run, their answers, the page |
| `polled`, `between` | history for the properties: the table the digest was taken from; whether a query of the last request read its table while it was not what the poller saw last |

A job is in one of seven of the eight states of `JobState`: `building` is part of `submitted`. `PollJobs` and `PollBoards` are the poller's comparisons, `Connect` and `Tell` the snapshot
and the events of a connection, each of which makes the page request again (`Request`);
`RunQuery` is one query of a request under its own lock: rows, count and newer rows of the list, rows and
count of a search, count and rows of the boards.

### How `LogStream` corresponds to the code

| TLA+ | Code |
|---|---|
| `job`, `row` | where the job's task is; its row: open, terminal or purged |
| `emitted`, `nextSeq`, `batch`, `stored` | frames published so far, `log_seq`, the sink's batch, `log_frame` |
| `channel`, `attached`, `queue`, `missed` | the broker's entry, the receivers that belong to it, what each can still read, its lag |
| `conn` | a page's place in its request: the steps of `stream_job`, then `closed`, or `refused` with an error status |
| `seen`, `cut`, `told` | the page's lines, its `since_seq`, how it was told that the stream is over |
| `faults`, `breaks` | kinds of database accesses that have failed, connections that broke |

`Recheck` and `DropChannel` are step 4 with all its arms: a row that is over leads to a replay, one that is
gone or cannot be read to an error status, and all of them finalize the broker's entry. `HistoryFails` is the
error arm of `historical_lines`. An access in `faults` may fail again at any time.

### How `Worker` corresponds to the code

`Open`, `Load`, `Boot`, `Parse`, `Settled`, `AttachRtt` and `SetMode` are the stages of
`RealSession::connect`; the firmware runs from `Boot` on, and until `SetMode` what does not
fit its RTT ring is trimmed. `CheckCommand` and `CheckStop` are the head of the worker's loop,
`DrainFrame`, `ReadRtt` and `ReadStatus` one call of `next_event`, `WakeUp` its slice of sleep;
`Tick`, `Clock` and `Fire` are the watchdog.

### What the models leave out

* Log text, timestamps, names, revisions: no property tells them apart. Ages
  and submission times are replaced by the order they induce; two submissions in
  one millisecond are taken in their order.
* A database access that fails, but for these: `LogStream` has a failed batch and every failing read of
  the page and of `stream_job`, `LiveIndex` a request and a poll that fail, `Dispatch` a failed
  `cache_store` and a failed copy of the ELF. A write that fails at the end of a task is logged and the code
  goes on (`dispatch.rs:359`); the row stays in flight until the next restart. This
  is in the hazard list without a property. A terminal row without an outcome, which nothing writes, is left out too.
* In `LogStream`: a crash or restart of paavod, which breaks every connection and empties the broker at once; a
  build or a run that panics, which is finalized without the join of its sink, so that its last batch
  may be written after the end (`Dispatch` has the panics); the pages of 1000 in which
  `historical_lines` reads, which are one step, whole or cut at any frame where a read fails; the `Phase` events
  the dispatcher publishes on the same channel: they carry nothing the page's log depends on, but take
  room, so a real channel overflows a little earlier than the model's; and the web server's own `lagged` notice.
* In `Scheduler`: the build slots. The cap is on the rows in `building`, where the code's is a channel of slots, to which a
  build returns its slot just before its row moves (`dispatch.rs:172`); `Dispatch` has both.
* In `Build`: cargo's own idea of what is fresh (external; it is taken to build what it
  is given), a copy that fails half way (`ArtifactStore`'s), and other slots, which share
  nothing with this one but `files` and `rows`. `try_pick_elf` finds an ELF twice, as
  `release/<name>` and as `release/deps/<name>-<hash>`; the model has one place per crate name,
  and `Names` stands for the order the copies induce.
* In `Intake`: two fires of one schedule at a time (a fire finds the one before it over),
  and two submissions at once, which meet in nothing but the table.
* In `LiveIndex`: the dashboard and the schedules page (the same pattern with other
  columns), the debounce of the search box, two submissions in one millisecond, the state `building`,
  boards that come and go, a restart of paavod, and the fingerprint of the table the open page does not show.
* In `Worker`: what probe-rs does inside a stage and which error it names.
* In `ArtifactStore`: the sandboxes and cargo's target directories, whose loss
  fails a build (`BuildFails`); the nightly's uploads, which take the same path
  with a guard less; a tar of which a power cut kept half; two purges at once.
  `evict_lru` is called by nothing in the daemon.

## 3. The runs

| Run | Module, cfg | Asks | Instance |
|---|---|---|---|
| `dispatch` | `MCDispatch` | the safety invariants of the dispatcher | 2 jobs of one tar, 1 board, 2 slots, 2 outside events |
| `dispatch_live` | `MCDispatchLive` | refinement of the life cycle; claimed jobs end, a drain ends | 2 jobs, 1 board, 1 slot, 1 outside event |
| `scheduler` | `MCScheduler` | a pick is best while the scan reads all that wait, board included; the starved are served; boards take turns | 3 jobs on 2 tars, 2 boards, cap 2 |
| `log_stream` | `MCLogStream` | pages: nothing else lost, in order, told; channels reclaimed | 2 pages, 1 frame a phase, channel of 1, a cancel, a purge, 1 break or failing access |
| `worker` | `MCWorker` | passes are earned, a `Test OK` is not lost, runs end, in time and for a reason | 6 firmware sketches, ring of 2, 2 commands, clock of 9 |
| `artifacts` | `MCArtifactStore` | tars are there, rows vouch for wholes, a run reads one ELF, temporary files go | 3 uploads, 2 of one crate, 1 of them `skip_cache`, 2 faults |
| `build` | `MCBuild` | builds end; their log is whole and their ELF their own | 2 jobs of one crate, 1 update, pipes of 1, tail of 1, 2 lines |
| `intake` | `MCIntake` | the copy tells the table; a quarantine sticks; the schedule row tells the night | 2 boards, 2 operators, 2 edits, 2 fires, 2 crates, 1 fault |
| `live` | `MCLiveIndex` | the digest tells tables apart; a page catches up, unless misled by what it read in between | 2 jobs, some there at the start, page of 1, 1 step of user, operator or failure |
| `log_hang`, `build_stale`, `scheduler_scan` | `MCLogStreamHang`, `MCBuildStale`, `MCSchedulerScan` | statements of the documentation that the code does not keep (section 6) | the smallest that shows it |

Every property of a passing run has a mutant: a bug of the size of a dropped
guard or a swapped step, under which TLC finds that property violated in the same instance.

### Why the bounds are enough

* `dispatch`: the races are between the loop, a task of the same job, a task of one
  other job and one or two outsiders. Two jobs compete for one board and share
  one tar, so exclusion and single flight bind; two slots and one tar make the
  slot channel non-empty while a build is refused. `MaxEvents = 2` allows any
  pair of cancels, edits, purges, signals and crashes, at any point, e.g.
  quarantine and delete between a pick and its claim. The
  threshold is 2, so one failure must not and two must quarantine. The jobs are
  alike and so are the slots, hence `SYMMETRY`; the theorems hold without any
  of these bounds. `CHECK_DEADLOCK FALSE`, because a daemon that has left its
  loop, or that has done every job and had its events, stops.
* `dispatch_live`: no symmetry (TLC's is unsound for liveness). Both jobs skip
  the cache, the second finds no board: it waits for ever in `awaiting_board`,
  which is no claim, and must not hold up the drain.
* `scheduler`: ids are reused after a job has left, so arrivals never stop and
  a starved job can be overtaken for ever if the rule is wrong. `ScanLimit` is
  the number of jobs: with more jobs waiting than the limit a starved job need not
  be served (`StarvedAreServed` fails with a limit of one; `scheduler_scan` shows the reason), and
  `PicksAreBest` says nothing. The system never stops: deadlock is checked.
* `log_stream`: one frame in each phase gives a seed, a history and a live tail
  that each hold or lack each of the two frames; `Capacity = 1` makes the second event overflow;
  a batch of two is never full, so that the flush at the end of each phase is the one that counts, the widest
  window between publishing and writing. Two pages, one may find the job over or its row unreadable
  while the other is attached. `MaxFaults = 1`: one connection breaks, or one kind of access fails, as often as it is made;
  the theorems hold for any number.
  `CHECK_DEADLOCK FALSE`: a job ends and its pages are told.
* `worker`: timeouts 2 and 4 with a watchdog period of 2 and up to 2 units of
  idle slices, so that each timeout is passed between two looks of the watchdog;
  the clock stops after both have long passed. The ring holds two messages and settling
  takes a unit, so that firmware of three overflows it before the mode is set.
  The sketches pass, pass after noise, say nothing, fail, and talk after `Test OK`.
  `CHECK_DEADLOCK FALSE`: a run ends. The theorems hold without these bounds.

* `artifacts`: two uploads of one crate race for one tar and one ELF, the third
  shows what a job of another tar does to them: nothing. One of the two skips the cache, since only such a
  build replaces an ELF that has its row. Two faults (crashes, purges, full
  disks, rows that fail) give a purge under way when a crash comes, and a copy cut
  short before the next lookup. A wipe is lossy, so it takes any subset.
  `CHECK_DEADLOCK FALSE`: when every job is over and the faults are used up, nothing is left to do.
  The theorems hold without these bounds.
* `build`: two jobs of one crate name, so that the second finds the first one's leavings.
  A pipe of one line is full at the second line of a run, and a tail of one drops the first; two
  lines can be on both streams or on one, in the update or the build. At most one line per job
  need be broken to end a reader early while cargo still writes. `CHECK_DEADLOCK FALSE`: the jobs run out.
* `intake`: two edits overlap in every order of their four lock scopes, with a submission and a night
  across them, which is what a stale copy takes; two fires and a restart tell a
  night that was cut from one that was whole. A board is seeded and another is not. Operators and
  crates are alike, hence `SYMMETRY`, and no liveness is checked here. `CHECK_DEADLOCK FALSE`: the bounds are used up.
  The theorems hold without these bounds.
* `live`: two submissions and a purge give digests that differ in counts alone, in the newest alone
  and in both. That digests tell tables apart does not depend on more: a submission that is kept, or a purge, moves
  the newest id over all states or empties the table; and every transition raises the sum of the jobs' places
  in the life cycle, which the counts determine, so without a submission equal counts mean that nothing moved. One step is enough because every fault ends in a new
  request or a new connection. Runs pass or fail (`Outcomes`): for digests and pages a
  timeout is one more state at the end, and the theorem has all four. `CHECK_DEADLOCK FALSE`: jobs run out and the page is up to date.

### Fairness, and why the code justifies it

* `Dispatch`: weak fairness of the loop (one thread that ticks for ever) and of
  each task. A task is a thread that runs until it blocks; what it blocks on
  is cargo, which is taken to end, and the worker, which its hard maximum
  ends (`Worker`'s `RunEnds`). Requests, operators, signals and crashes have none.
* `Scheduler`: the loop, and the ends of builds and runs. `[]<>(stage = "run")`
  is an assumption on the clients, not a fact of the code: `build_stage` loops
  while something is buildable and a slot free, so builds that end at once could keep it
  there. It is in the hazard list as such.
* `LogStream`: the job proceeds and connections are served; breaks and failures are bounded, and nobody need cancel or purge.
* `Worker`: both threads, the clock, and the return of each stage of the attach. Nothing is
  assumed of the firmware.
* `Build`: the build thread, the forwarder, each reader, and cargo, which may hang all the
  same (`Hang` is nobody's obligation, and `BuildsEnd` excepts a hung cargo nobody cancels:
  the code has no build timeout). A process cargo left behind ends; the joins wait for it.
* `LiveIndex`: weak fairness of the pipeline as a whole (poller, connection, queries), each of which is a
  timer or a task of its own. Nothing is assumed of paavod or the user.
* `Intake` states no liveness.

## 4. The proofs

`DispatchProofs` proves, from `DispatchAssumption` alone (the types of the
constants, at least one slot, a positive threshold, and that `None` is none of the values it is compared to):

| Theorem | Property |
|---|---|
| `Invariance` | `Spec => []IInv` |
| `TypesHold` | `TypeOK` |
| `BoardsAreExclusive` | `BoardExclusive` |
| `SlotsAreAccounted` | `SlotsAccounted` |
| `BuildsAreSingleFlight` | `SingleFlight` |
| `InFlightHasOwner` | `InFlightOwned` |
| `TasksOwnTheirRows` | `TaskOwnsRow` |
| `QuarantineIsKept` | `QuarantineHolds` |
| `BoardsStayReferenced` | `BoardsReferenced` |
| `AnnouncementsAreTrue` | `AnnouncedIsOver` |
| `Refinement` | `ImplementsLifecycle`: `Spec => Lifecycle!Spec` |

None of the safety properties is inductive. That a board is exclusive when
`RunClaim` writes it rests on what the loop has held since `RunPick`, a lock
scope earlier; that `FinalizeRun` finds its row still `running` rests on where
every other actor is. `IInv` says it in twelve parts:

* `TypeOK`;
* `LoopInv`: what the loop holds at each point. In `run_claim` the picked
  board is not busy, because only the loop makes a row running, which is the
  reason why two lock scopes are enough;
* `FreshInv`: a row that has not reached a stage has no task of it;
* `TaskInv`: a task from its start to `finalize` has a row in its own state
  (cancels touch only waiting rows and purges only terminal or submitted ones);
* `BoardInv`: a running row has a board, and no two the same;
* `SlotInv`: channel, loop and tasks partition the slots;
* `FlightInv`: the tar the loop is about to build is not being built;
* `HealthInv`: a board that is served is below the threshold, since it is only
  served one job at a time and was healthy when it was picked; this is what
  keeps a late un-quarantine from putting a failing board back;
* `AnnounceInv`: a task announces after it has written;
* `InFlightOwned`, `QuarantineHolds`, `BoardsReferenced`.

The proof has one lemma per action for its frame (what `IInv` needs of the
variables it leaves alone), one step per action, under it one step per part the
action can disturb. `Refinement` maps a board's owner to the running row that
names it (a `CHOOSE`, which `BoardInv` makes unique), each action that writes
rows to one of `JobLifecycle`'s, and every other to a stutter.

`ArtifactStoreProofs` proves, from `ArtifactStoreAssumption` alone (types, and that
`None`, `"none"` and `"partial"` are no jobs):

| Theorem | Property |
|---|---|
| `ArtifactInvariance` | `Spec => []AInv` |
| `StoreTypesHold` | `TypeOK` |
| `TarsArePresent` | `TarPresent` |
| `RowsAreTrue` | `RowsVouchForWholes` |
| `RunsReadOneElf` | `ReadsAgree` |
| `TempsAreReclaimed` | `TempsReclaimed` |

Here three parts are added to the properties. `OneBuilder` keeps the guard of
`Claim` through the build: were there two builds of a tar, the row one of them
writes could vouch for the copy the other has just begun. `ElfKnown` says what is at a job's path
at each step from its copy to its run, and so carries what `Flash` read to the `Decode`
that must find the same. `ReadOnce` says that a job has read nothing before its run.
One lemma per action shows that it keeps `AInv`, in the same four steps.

`IntakeProofs` proves, from `IntakeAssumption` alone (selectors are sets of boards, the
corpus is finite, the bounds are numbers):

| Theorem | Property |
|---|---|
| `IntakeInvariance` | `Spec => []IInv` |
| `IntakeTypesHold` | `TypeOK` |
| `CacheIsTrue` | `CacheTellsEdits` |
| `NightsAreTold` | `NightTells` |
| `QuarantineIsSticky` | `QuarantineSticks` |

`CacheTellsEdits` is nearly inductive: a refresh writes the copy from the table as it is
then, whichever edits it overtakes, so only the types of the open requests (`EditsAsk`) are missing. This is
why the code may refresh after the lock. `NightTells` rests on `NightKnown`, which says what
the stamps are while a night goes on, and on `NightCounts`, by cardinalities, for the
type of `enqueued`. `QuarantineSticks` is an action property: of all steps only an
un-quarantine's commit makes a quarantined row healthy; an `add` finds the row, a deletion and a
seeding do not do it in one step.

`WorkerProofs` proves, from the types of the constants:

| Theorem | Property |
|---|---|
| `WorkerInvariance` | `Spec => []WInv` |
| `WorkerTypesHold` | `TypeOK` |
| `PassesAreEarned` | `PassIsEarned` |
| `StopsHaveReasons` | `EndsForAReason` |
| `SentOkIsSeen` | `OkIsNotLost` |
| `RunsEndInTime` | `EndsInTime` |

`WInv` follows a `Test OK` through ring, decoder and `seenOk` in both directions: what is seen was
sent (`SeenWasSent`), what was sent is seen, still to be read or was trimmed
(`SentIsKept`). `OutcomeIsLast` says when there is an outcome, `StopIsTrue` what the reason to
stop was taken from. The time bound needs a second invariant over both threads' clocks,
`TimeInv`: the watchdog looks again before either timeout is exceeded by a period
(`WatchdogIsSoon`); when it is gone the worker has a reason to stop (`StopIsSet`); and the
session looks for that reason after at most a slice of sleep (`SessionIsInTime`). An attach
that takes longer than the hard maximum is why the bound names `liveAt`.

`SchedulerProofs` proves, from `SchedulerAssumption` (the types of the constants, `None` no
job and no board, every board once in the order of ids):

| Theorem | Property |
|---|---|
| `SchedulerInvariance` | `Spec => []SchedInv` |
| `SchedulerTypes` | `TypeOK`: the queue holds each live job once, the order of last use each board once |
| `PicksAreTheBest` | `PicksAreBest` |

`PicksAreBest` compares `pick_runnable`, `pick_buildable` and `lru_pick` with the order they are
meant to compute, stated without a sort. Nearly all of its proof is about `Filter`, the elements of a
sequence that are in a set: that it holds those and no others, in their order and once each
(`FilterAccounts`, `FilterInjective`), so that its head is the first of them (`HeadIsFirst`); the scan
then holds all waiting jobs when they are no more than its limit (`ScanFacts`), the promotion is a
permutation by effective priority (`PromotedFacts`), and a pick is the first who can go on
(`PickFacts`). The invariant adds to the types that the queue and the order of last use are
sequences, and that a job the run stage holds has its board. The hypothesis on the scan is part of the
property, not of the theorem: without it the code does not keep the order (`scheduler_scan`).

`LogStreamProofs` proves, from `LogStreamAssumption` (the types of the constants):

| Theorem | Property |
|---|---|
| `LogInvariance` | `Spec => []LInv` |
| `LogTypes` | `TypeOK` |
| `NothingElseIsEverLost` | `NothingElseIsLost` |
| `PagesStayInOrder` | `PageInOrder` |
| `SeqsStayUnique` | `SeqsAreUnique` |
| `ChannelsAreReclaimed` | `ChannelReclaimed` |
| `StreamsAreNeverCut` | `NeverCutShort` |

`LInv` follows a frame from the sink to the page. `SinkInOrder` has what is written, then the
batch, then the counter, one behind the other, and `AllWritten` says that without a failed
write this is all there is. For each page, `Lines` keeps what it shows in order and its `since_seq`
behind it, `Queued` keeps its receiver's events in order with the end last, `Connected`
says that only the end of the job, or a viewer whose second look at the row failed or found it gone, detaches a receiver, and `NoGap` is the heart of it: up to its
last line a page lacks only what `lost` names, and once it is live the rest is in its queue. The seed, the
history, the live tail, the two cuts, a reconnection, a purge and each failing read have to keep it.
`NeverCutShort` is about pages that are told that the live stream ended before the job did, and says which
failures do that; its proof rests on `Connected`.

`BuildProofs` proves, from `BuildAssumption` (the types of the constants):

| Theorem | Property |
|---|---|
| `BuildInvariance` | `Spec => []BuildInv` |
| `BuildTypes` | `TypeOK` |
| `LogsTellBuilds` | `LogTellsBuild` |
| `ElfsAreOfTheirTar` | `ElfIsOfItsTar`, for crates `InOrder` |

`BuildInv` is `Thread` (in which steps cargo can run, pipes be read and lines be on their way), `Disk`
(what lies in the target directory, and that a build that succeeded has linked) and `Flow`: every
line cargo wrote is in the log, in the channel or in its pipe unless its reader gave up (`Whole`),
these three are in order one behind the other (`InSequence`), and the tail is the end of what was read
of this run's stderr (`TailOfRead`), all of which the joins then turn into `LogTellsBuild`.
`ElfIsOfItsTar` is false in general, as the run `build_stale` shows. The theorem says how far it
holds: when the places of the crates' ELFs in `try_pick_elf`'s order never fall back from one job of the
slot to the next (`InOrder`; the versions of one crate always satisfy it), the last candidate
is the job's own.

`LiveIndexProofs` proves, from `LiveIndexAssumption` (the types of the constants):

| Theorem | Property |
|---|---|
| `LiveInvariance` | `Spec => []LiveInv` |
| `LiveIndexTypes` | `TypeOK` |
| `DigestsTellTables` | `DigestTellsTables` |

`LiveInv` relates the table the poller read last to the one of now (`Polled`, `Since`): either a purge
has emptied what was there then, or each of its rows has gone its way along the life cycle and all
rows since are there. From equal digests it follows that no submission was kept or purged (the newest
id over all states would have moved), and then, state by state along the life cycle, that nobody has
left it (what has left a state cannot come back, and the counts are equal).

Four of these modules reason about sequences and counts of any length. The library's induction
theorems take an operator as a parameter and cannot be used with these provers; where an argument needs
induction over numbers, it is made from the well-foundedness of `<` (`NatLessThanWellFounded`) applied to a
set: a set of numbers with 0 and every successor has them all (`Induction`), a nonempty one has a least
(`Least`). For the same reason the recursive helpers are functions whose recursion is proved
once (`FilterRecurses`).

**Only model-checked:** liveness (`ClaimedJobsEnd`, `DrainEnds`, `StarvedAreServed`,
`BoardsTakeTurns`, `PagesAreTold`, `RunEnds`, `BuildsEnd`, `PageCatchesUp`),
which needs `ENABLED` and is out of this prover's reach.

## 5. What is not modelled

* What probe-rs does inside a stage of the attach, and the selection of a probe by its serial.
* The encoding of the wire types, rendering, themes and layout, configuration parsing: pure
  functions with tests of their own.
* The dashboard and the schedules page, which repeat the pattern of `LiveIndex`.
* `paavo new`, which renders a template; `--follow`, which prints the stream `LogStream` models.
* The retired single-stage picker and the cache's LRU eviction, which the daemon does not call.
* A `finalize` that fails: the row stays in flight until the next restart.
* The demo seeder under `src/dev`.

## 6. Where the documentation and the code disagree

With a run that shows it:

* `log_hang`: the cancel of a waiting job publishes nothing, so a page connected
  to it stays open.
* `build_stale`: `discover_elf` takes the last candidate of whatever lies in the slot's
  release directories. A crate that leaves none, or comes earlier in the order, is given the ELF of a crate
  built in the slot before it, which is then cached under the later crate's hash.
* `scheduler_scan`: `scheduler.rs:6-10` says that the scan may stop at its limit, because a job
  beyond it cannot outrank the rows it has. The rows are cut in the order of the stored priority and the
  starvation rule is applied to what is left: a starved job behind 200 interactive ones is not
  promoted, though it is older than some of them. With no more jobs waiting than
  the limit the claim is a theorem (`PicksAreTheBest`).

Met while modelling, without a run of their own:

* A cancel of a build that was acknowledged with 204 is ignored when the build takes a cache hit or has
  just ended; the design says the job is aborted.
* `cron.rs:255-258` says that `cargo update` gives the nightly fresh revisions on every run; the tar is
  looked up first, and a hit runs no cargo at all. (The comment that follows, `cron.rs:259-263`, wants the hits.)
* A frame that is published and not yet written when a page subscribes is in neither its history nor its live
  tail (`NothingElseIsLost` names it as one of the losses).
* `routes/jobs.rs:554-557` speaks of finalizing "the broker entry we just created". The entry may be older, and
  others may be attached to it. When the second look at the row of a live job fails (562-572), the
  viewer closes the channel under all of them: each is told a truncated log, or, if the job ends before it
  has read its queue out, the outcome without the frames that were published after (`NeverCutShort` and
  `NothingElseIsLost` name it).
* `admin.rs` purges a job that waits without a word to the broker: like the cancel of `log_hang`, this leaves a page
  connected to it open (`PagesAreTold` excepts both).
* A `Test OK` that arrives between the RTT read and the status read is reported as a breakpoint without it;
  one that is trimmed before the mode is set is lost (`OkIsNotLost` names both).
* The build-pool design calls the ELF's path stable, since identical content gives an identical path. A
  `skip_cache` job rebuilds it while another job of its tar waits or runs, and `fs::copy` truncates it in place,
  possibly between that run's two reads.
* `build.rs:245-256` documents that the stderr reader sends a line and then pushes it to the tail; the code does it the
  other way round. The kill reaches cargo alone (`build.rs:345-351`), so a process it leaves
  behind delays the joins.
* `routes/jobs.rs:202-204` says that the second selector check leaves no window to the insert. The copy it checks is
  refreshed after the delete's lock scope, so a job can be accepted whose board has gone; so can the nightly's
  jobs, whose copy is taken before the lock. A job pinned to a deleted board waits for ever.
* `routes/boards.rs:41-43` says that a quarantined row always has a reason; `boards.toml` can seed
  one without. A board that was deleted and is in `boards.toml` returns at the next start.
* The nightly looks at the drain flag only when it fires. It tars a crate's whole directory, `target/` and
  `Cargo.lock` included, which the CLI leaves out, so the same crate has two hashes.
* `cmd_run.rs:14-17` promises a non-zero exit unless the job passed; a stream that ends without a
  terminal line exits 0.
* A cancel taken during an attach that then fails is recorded as an infrastructure error.
* `job.rs:361` says that a digest which misses a change heals at the next tick. It would not, but no change
  is missed (`DigestTellsTables`). What is missed is a table that leaves and comes back within a tick: a board quarantined
  and released, a job submitted to an empty table and purged. A page that happens to ask in between shows
  what was there for a moment until something else moves. `PageCatchesUp` excepts exactly this
  (`ReadBetween`): a query of the page's last request read its table while it was not what the poller saw
  last, and the table is now again what the poller saw last.
* The poller's board fingerprint leaves `consecutive_infra_failures` out (`index.rs:96-100`), so the boards page
  shows an old count until health or last use moves. `events.rs` says that the client compares revisions; it
  refetches on every event. The pin is the browser's clock, where `list_page` speaks of the server's.
* `dispatch.rs:9-10` and its drain check take two empty registries for
  "nothing in flight". A build leaves its registry before it writes its row
  (`dispatch.rs:172-186`), so the loop can exit with a row still `building`.
* `routes/admin.rs:106-109` says that what the wipe finds can never be
  referenced by a row. A job accepted between the lock scope and the wipe loses its tar, and
  one that has been built by then its ELF; it fails in its build or its attach.
* `routes/jobs.rs:189-191` says that a partial tar is replaced at the next submit. The check is
  `is_file()`, which is true of a partial tar.
* `cron.rs:214-230` leaves its temporary tar when streaming or renaming fails;
  `POST /jobs` has a guard for it.
* `shutdown.rs:89` waits for the run registry only; builds may still be running
  when the grace ends early. `shutdown.rs:8-10` says no more claims: the drain flag is read at
  the top of a tick, so the rest of that tick still claims.
* `dispatch.rs:83-90` claims a board without looking at its health again: a
  board quarantined between pick and claim runs one more job.
* Between the claim and the registration (`dispatch.rs:83-97`) a cancel of a running job is
  answered 409.
* After a failed `append_batch` (`log_sink.rs:101-104`) the run may reuse the
  seqs of the build's lost frames, and a page that has seen those drops the run's frames as duplicates.
* `worker.rs:82-85` resets the inactivity clock after the attach, but the
  watchdog runs during it and can fire before.
* The comment in `quarantine.rs:37-39` rests on a single dispatch thread; run
  tasks of several boards account their outcomes concurrently. The database mutex makes it true
  all the same.
* The build-pool design's requeue of a job whose artifact has disappeared is not
  implemented; the flag that a probe was released cleanly is always true
  (`real_runner.rs:264-271`); a cancelled waiting job leaves its broker entry behind.

## 7. Plan

Order: the module that most others depend on first.

1. `JobLifecycle`, `Dispatch`, their refinement, invariant and proofs. *Done.*
2. `Scheduler`, `LogStream`, `Worker`. *Done.*
3. `ArtifactStore`, its invariant and proofs. *Done.*
4. `Intake` (inventory copy, submission, nightly), its invariant and proofs. *Done.*
5. `Build`: cargo, its output threads and the kill, the slot's directory. *Done.*
6. `LiveIndex`. *Done.*
7. `WorkerProofs`: passes, reasons, `Test OK` and time. *Done.*
8. `LogStreamProofs`, `LiveIndexProofs`, `BuildProofs`, `SchedulerProofs`: what the runs of these
   modules check, liveness aside. *Done.*
9. Next: that `Scheduler` implements what `Dispatch` leaves open (each pick is one of `Runnable` or
   `Buildable`, each claim a claim of `Dispatch`); that a held pick of `Scheduler` is still free
   when it is claimed; stronger forms of `ReadsAgree` and `CacheTellsEdits` over several steps.
10. A run of `Dispatch` with two boards and one slot fewer than jobs, if a bound can be found
   under which it ends; the schedules page in `LiveIndex`.

Runs stay few: one per question. New modules get one passing run each, and a disagreement
that is only of historical interest gives up its run to them.
