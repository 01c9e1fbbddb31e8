-------------------------------- MODULE Build ---------------------------------
(***************************************************************************)
(* One build slot of paavod: build_inner with RealBuilder in it.  The jobs *)
(* the dispatcher gives the slot come one after the other; each is looked  *)
(* up in the build cache, unpacked and built by cargo in the target        *)
(* directory the slot keeps for all of them.  For every run of cargo two   *)
(* threads drain its pipes into a channel, a forwarder takes the lines to  *)
(* the job's log, and the build thread waits for cargo, the readers and    *)
(* the forwarder in turn.                                                  *)
(*                                                                         *)
(* A crate is its tar, an ELF is the tar it was built from.  A line is the *)
(* stream and the run it came from and its number.  What FrameSink does    *)
(* with a line is LogStream's, what happens to the artifact files while    *)
(* they are copied is ArtifactStore's.  Cargo builds what it is given: it  *)
(* never takes one crate for another that is fresh.                        *)
(***************************************************************************)
EXTENDS Integers, FiniteSetsExt, SequencesExt

CONSTANTS
  TarOf,     (* the tars of the slot's jobs, in the order they come        *)
  NameOf,    (* tar -> place of the ELF its crate leaves in the release    *)
             (* directories, in try_pick_elf's order; 0 when it leaves none *)
  Updates,   (* packages to `cargo update` before the build                *)
  PipeCap,   (* lines a pipe holds                                         *)
  TailCap,   (* TAIL_MAX_BYTES, in lines                                   *)
  MaxLines   (* bound: lines cargo prints for a job                        *)

Tars    == Range(TarOf)
Names   == Range(NameOf) \ {0}
Streams == {"stdout", "stderr"}

ASSUME BuildAssumption ==
  /\ TarOf \in Seq(Nat \ {0}) /\ Tars \subseteq DOMAIN NameOf
  /\ NameOf \in [DOMAIN NameOf -> Nat]
  /\ {PipeCap, TailCap} \subseteq Nat \ {0}
  /\ {Updates, MaxLines} \subseteq Nat

VARIABLES
  job,     (* the slot's current job, 0 before the first                   *)
  status,  (* its state                                                    *)
  handed,  (* jobs that went on to a board                                 *)
  cancel,  (* the current job's kill channel: "none", "sent", "taken"      *)
  (* The build thread *)
  at,      (* where it is                                                  *)
  run,     (* runs of cargo started for the job; the last is the build     *)
  result,  (* what RealBuilder.build returned                              *)
  picked,  (* the ELF discover_elf found                                   *)
  (* Cargo *)
  child,   (* "none", "running", "hung", "ok", "failed", "killed"          *)
  helper,  (* whether a process it started still holds the pipes           *)
  pending, (* the line it is writing                                       *)
  linked,  (* whether this job's ELF was written                           *)
  wrote,   (* stream -> lines written for the job                          *)
  (* The readers and the forwarder *)
  pipe,    (* stream -> lines not yet read                                 *)
  reader,  (* stream -> "none", "reading", "ended"                         *)
  tail,    (* StderrTail                                                   *)
  cut,     (* streams a reader gave up on                                  *)
  channel, (* lines the readers sent                                       *)
  log,     (* lines pushed to the job's FrameSink                          *)
  (* The disk *)
  target,  (* the slot's target directory: place -> the tar of its ELF     *)
  files,   (* cache-elfs/<hash>.elf: tar -> the tar of its ELF             *)
  rows     (* tars with a build_cache row                                  *)

slot    == <<job, status, handed>>
thread  == <<at, run, result, picked>>
process == <<child, helper, pending, linked, wrote>>
lines   == <<pipe, reader, tail, cut, channel, log>>
disk    == <<target, files, rows>>
vars    == <<slot, cancel, thread, process, lines, disk>>

Ended == {"awaiting_board", "build_err", "aborted", "infra_err"}
Tar   == TarOf[job]

(* The build is over for the job: its slot is free again.                  *)
End(s) ==
  /\ status' = s /\ at' = "idle"
  /\ handed' = IF s = "awaiting_board" THEN handed \cup {job} ELSE handed

-----------------------------------------------------------------------------
(* The build thread.                                                       *)

Claim ==
  /\ at = "idle" /\ job < Len(TarOf)
  /\ job' = job + 1 /\ status' = "building"
  /\ cancel' = "none" /\ at' = "lookup"
  /\ run' = 0 /\ result' = "none" /\ picked' = 0
  /\ child' = "none" /\ linked' = FALSE /\ wrote' = [s \in Streams |-> 0]
  /\ tail' = <<>> /\ cut' = {} /\ log' = <<>>
  /\ UNCHANGED <<handed, helper, pending, pipe, reader, channel, disk>>

(* A row whose file is gone is a miss, and the row goes.                   *)
CacheHit ==
  /\ at = "lookup"
  /\ Tar \in rows /\ files[Tar] # 0
  /\ End("awaiting_board")
  /\ UNCHANGED <<job, cancel, run, result, picked, process, lines, disk>>

(* No row, no file, or the job skips the cache.                            *)
CacheMiss ==
  /\ at = "lookup"
  /\ at' = "unpack"
  /\ UNCHANGED <<slot, cancel, run, result, picked, process, lines, disk>>

Return(r) == result' = r /\ at' = "forward"

(* The tar cannot be read, an entry escapes the sandbox, no Cargo.toml.    *)
UnpackFails ==
  /\ at = "unpack"
  /\ Return("failed")
  /\ UNCHANGED <<slot, cancel, run, picked, process, lines, disk>>

Unpack ==
  /\ at = "unpack"
  /\ at' = "spawn"
  /\ UNCHANGED <<slot, cancel, run, result, picked, process, lines, disk>>

Spawn ==
  /\ at = "spawn"
  /\ at' = "poll" /\ run' = run + 1
  /\ child' = "running" /\ helper' \in BOOLEAN
  /\ pipe' = [s \in Streams |-> <<>>] /\ reader' = [s \in Streams |-> "reading"]
  /\ tail' = <<>>
  /\ UNCHANGED <<slot, cancel, result, picked, pending, linked, wrote, cut, channel, log, disk>>

SpawnFails ==
  /\ at = "spawn"
  /\ Return("failed")
  /\ UNCHANGED <<slot, cancel, run, picked, process, lines, disk>>

(* wait_or_kill: an exit it polls wins over a cancel; a cancel it receives *)
(* wins over an exit since.                                                *)
Exited == child \in {"ok", "failed", "killed"}

Poll ==
  /\ at = "poll"
  /\ at' = IF Exited THEN "join" ELSE "receive"
  /\ UNCHANGED <<slot, cancel, run, result, picked, process, lines, disk>>

(* Only the time-out that the exit is polled after is a step.              *)
ReceiveTimesOut ==
  /\ at = "receive" /\ cancel = "none" /\ Exited
  /\ at' = "poll"
  /\ UNCHANGED <<slot, cancel, run, result, picked, process, lines, disk>>

(* The kill reaches the child alone.                                       *)
Kill ==
  /\ at = "receive" /\ cancel = "sent"
  /\ cancel' = "taken" /\ at' = "join"
  /\ child' = IF Exited THEN child ELSE "killed"
  /\ pending' = <<>>
  /\ UNCHANGED <<slot, run, result, picked, helper, linked, wrote, lines, disk>>

Joined == \A s \in Streams : reader[s] = "ended"

(* Mutant: the exit status is not looked at.                               *)
AfterCargoUnchecked ==
  /\ at = "join" /\ Joined
  /\ \/ cancel = "taken" /\ Return("cancelled")
     \/ cancel # "taken" /\ run <= Updates /\ at' = "spawn" /\ UNCHANGED result
     \/ cancel # "taken" /\ run > Updates /\ at' = "discover" /\ UNCHANGED result
  /\ UNCHANGED <<slot, cancel, run, picked, process, lines, disk>>

AfterCargo ==
  /\ at = "join" /\ Joined
  /\ \/ cancel = "taken" /\ Return("cancelled")
     \/ cancel # "taken" /\ child # "ok" /\ Return("failed")
     \/ cancel # "taken" /\ child = "ok" /\ run <= Updates /\ at' = "spawn" /\ UNCHANGED result
     \/ cancel # "taken" /\ child = "ok" /\ run > Updates /\ at' = "discover" /\ UNCHANGED result
  /\ UNCHANGED <<slot, cancel, run, picked, process, lines, disk>>

(* Whatever lies in the release directories is a candidate; the last in    *)
(* the order is taken.  An ELF stands for the two copies the walk finds,   *)
(* release/<name> and release/deps/<name>-<hash>, and Names for the order  *)
(* they induce.                                                            *)
Candidates == {n \in Names : target[n] # 0}

DiscoverElf ==
  /\ at = "discover"
  /\ IF Candidates = {} THEN Return("failed") /\ UNCHANGED picked
     ELSE Return("ok") /\ picked' = Max(Candidates)
  /\ UNCHANGED <<slot, cancel, run, process, lines, disk>>

(* Mutant: the forwarder is not joined.                                    *)
JoinForwarderNot ==
  /\ at = "forward"
  /\ at' = "outcome"
  /\ UNCHANGED <<slot, cancel, run, result, picked, process, lines, disk>>

(* The forwarder ends once every sender is dropped and every line taken.   *)
JoinForwarder ==
  /\ at = "forward"
  /\ channel = <<>>
  /\ at' = "outcome"
  /\ UNCHANGED <<slot, cancel, run, result, picked, process, lines, disk>>

BuildErr ==
  /\ at = "outcome" /\ result = "failed"
  /\ End("build_err")
  /\ UNCHANGED <<job, cancel, run, result, picked, process, lines, disk>>

BuildCancelled ==
  /\ at = "outcome" /\ result = "cancelled"
  /\ End("aborted")
  /\ UNCHANGED <<job, cancel, run, result, picked, process, lines, disk>>

(* cache_store may fail: the row is left as it was.                        *)
Store ==
  /\ at = "outcome" /\ result = "ok"
  /\ files' = [files EXCEPT ![Tar] = target[picked]]
  /\ rows' \in {rows, rows \cup {Tar}}
  /\ End("awaiting_board")
  /\ UNCHANGED <<job, cancel, run, result, picked, process, lines, target>>

CopyFails ==
  /\ at = "outcome" /\ result = "ok"
  /\ End("infra_err")
  /\ UNCHANGED <<job, cancel, run, result, picked, process, lines, disk>>

-----------------------------------------------------------------------------
(* Cargo, and who cancels.                                                 *)

(* POST /jobs/:id/cancel, and the drain's deadline.                        *)
Cancel ==
  /\ at # "idle" /\ cancel = "none"
  /\ cancel' = "sent"
  /\ UNCHANGED <<slot, thread, process, lines, disk>>

(* A write fails when nobody reads the pipe, which cargo may survive.      *)
Put(line) ==
  LET s == line.stream
  IN  /\ wrote' = [wrote EXCEPT ![s] = @ + 1]
      /\ IF reader[s] = "reading"
         THEN pipe' = [pipe EXCEPT ![s] = Append(@, line)] /\ UNCHANGED child
         ELSE child' \in {"running", "failed"} /\ UNCHANGED pipe

Full(s) == reader[s] = "reading" /\ Len(pipe[s]) >= PipeCap

(* A line may be one that is not UTF-8; while the pipe is full, writing it *)
(* blocks.                                                                 *)
Emit(s) ==
  /\ child = "running" /\ pending = <<>>
  /\ wrote["stdout"] + wrote["stderr"] < MaxLines
  /\ \E utf8 \in BOOLEAN :
       LET line == [stream |-> s, run |-> run, n |-> wrote[s] + 1, utf8 |-> utf8]
       IN IF Full(s) THEN pending' = <<line>> /\ UNCHANGED <<wrote, pipe, child>>
          ELSE Put(line) /\ UNCHANGED pending
  /\ UNCHANGED <<slot, cancel, thread, helper, linked, reader, tail, cut, channel, log, disk>>

Unblock ==
  /\ pending # <<>> /\ ~Full(pending[1].stream)
  /\ Put(pending[1])
  /\ pending' = <<>>
  /\ UNCHANGED <<slot, cancel, thread, helper, linked, reader, tail, cut, channel, log, disk>>

Link ==
  /\ child = "running" /\ run > Updates /\ ~linked
  /\ linked' = TRUE
  /\ target' = IF NameOf[Tar] = 0 THEN target ELSE [target EXCEPT ![NameOf[Tar]] = Tar]
  /\ UNCHANGED <<slot, cancel, thread, child, helper, pending, wrote, lines, files, rows>>

Exit ==
  /\ child = "running" /\ pending = <<>>
  /\ child' \in {"ok", "failed"}
  /\ child' = "ok" => run <= Updates \/ linked
  /\ UNCHANGED <<slot, cancel, thread, helper, pending, linked, wrote, lines, disk>>

Hang ==
  /\ child = "running"
  /\ child' = "hung"
  /\ pending' = <<>>
  /\ UNCHANGED <<slot, cancel, thread, helper, linked, wrote, lines, disk>>

HelperEnds ==
  /\ helper
  /\ helper' = FALSE
  /\ UNCHANGED <<slot, cancel, thread, child, pending, linked, wrote, lines, disk>>

-----------------------------------------------------------------------------
(* The readers and the forwarder.                                          *)

LastOf(seq, k) == SubSeq(seq, Max({1, Len(seq) - k + 1}), Len(seq))

(* Mutant: stderr is read once stdout has ended.                           *)
ReadingInTurn(s) == reader[s] = "reading" /\ (s = "stderr" => reader["stdout"] = "ended")

Reading(s) == reader[s] = "reading"

(* A line that is not UTF-8 ends its reader, which closes the pipe.        *)
Read(s) ==
  /\ Reading(s) /\ pipe[s] # <<>>
  /\ LET line == Head(pipe[s])
     IN IF ~line.utf8
        THEN /\ reader' = [reader EXCEPT ![s] = "ended"]
             /\ pipe' = [pipe EXCEPT ![s] = <<>>]
             /\ cut' = cut \cup {s}
             /\ UNCHANGED <<tail, channel>>
        ELSE /\ pipe' = [pipe EXCEPT ![s] = Tail(@)]
             /\ channel' = Append(channel, line)
             /\ tail' = IF s = "stderr" THEN LastOf(Append(tail, line), TailCap) ELSE tail
             /\ UNCHANGED <<reader, cut>>
  /\ UNCHANGED <<slot, cancel, thread, process, log, disk>>

(* The pipe is at its end when no process holds it open.                   *)
EndOfFile(s) ==
  /\ Reading(s) /\ pipe[s] = <<>>
  /\ Exited /\ ~helper
  /\ reader' = [reader EXCEPT ![s] = "ended"]
  /\ UNCHANGED <<slot, cancel, thread, process, pipe, tail, cut, channel, log, disk>>

Forward ==
  /\ channel # <<>>
  /\ log' = Append(log, Head(channel)) /\ channel' = Tail(channel)
  /\ UNCHANGED <<slot, cancel, thread, process, pipe, reader, tail, cut, disk>>

-----------------------------------------------------------------------------
(* paavod starts: the slot directory is new, the cache what it was.        *)
Init ==
  /\ job = 0 /\ status = "none" /\ handed = {} /\ cancel = "none"
  /\ at = "idle" /\ run = 0 /\ result = "none" /\ picked = 0
  /\ child = "none" /\ helper = FALSE /\ pending = <<>> /\ linked = FALSE
  /\ wrote = [s \in Streams |-> 0]
  /\ pipe = [s \in Streams |-> <<>>] /\ reader = [s \in Streams |-> "none"]
  /\ tail = <<>> /\ cut = {} /\ channel = <<>> /\ log = <<>>
  /\ target = [n \in Names |-> 0]
  /\ rows \in {{}, Tars}
  /\ files = [t \in Tars |-> IF t \in rows THEN t ELSE 0]

BuildThread ==
  \/ Claim \/ CacheHit \/ CacheMiss \/ UnpackFails \/ Unpack \/ Spawn \/ SpawnFails
  \/ Poll \/ ReceiveTimesOut \/ Kill \/ AfterCargo \/ DiscoverElf \/ JoinForwarder
  \/ BuildErr \/ BuildCancelled \/ Store \/ CopyFails

Cargo  == (\E s \in Streams : Emit(s)) \/ Unblock \/ Link \/ Exit
Reader(s) == Read(s) \/ EndOfFile(s)

Next ==
  \/ BuildThread \/ Cargo \/ Hang \/ Cancel \/ HelperEnds \/ Forward
  \/ \E s \in Streams : Reader(s)

(* The threads and cargo run, unless cargo hangs; what cargo started ends. *)
(* Nobody need cancel.                                                     *)
Spec ==
  /\ Init /\ [][Next]_vars
  /\ WF_vars(BuildThread) /\ WF_vars(Forward) /\ WF_vars(HelperEnds)
  /\ WF_vars(Cargo)
  /\ \A s \in Streams : WF_vars(Reader(s))

-----------------------------------------------------------------------------
(* Types of every variable, and what holds between two jobs.               *)
TypeOK ==
  /\ job \in 0 .. Len(TarOf) /\ run \in 0 .. Updates + 1
  /\ status \in {"none", "building"} \cup Ended /\ handed \subseteq 1 .. job
  /\ cancel \in {"none", "sent", "taken"}
  /\ picked \in Names \cup {0} /\ rows \subseteq Tars
  /\ target \in [Names -> Tars \cup {0}] /\ files \in [Tars -> Tars \cup {0}]
  /\ at = "idle" => channel = <<>> /\ child \notin {"running", "hung"}

(* Lines in the order each stream wrote them.                              *)
InTurn(seq) ==
  \A i, k \in 1 .. Len(seq) : i < k /\ seq[i].stream = seq[k].stream => seq[i].n < seq[k].n

Logged(s) == {l.n : l \in {m \in ToSet(log) : m.stream = s}}
Reported  == {l \in ToSet(log) : l.stream = "stderr" /\ l.run = run}

(* When a build is over its log is complete: each stream's lines in the    *)
(* order cargo wrote them, all of them unless a reader gave up, and the    *)
(* stderr tail the outcome carries is the end of what the log holds of     *)
(* that run, all of it or the last TailCap lines (the ordering invariant   *)
(* run_cargo_streaming documents, carried to the log).                     *)
LogTellsBuild ==
  (job # 0 /\ at = "idle" /\ run # 0) =>
    /\ InTurn(log) /\ \A s \in Streams \ cut : Logged(s) = 1 .. wrote[s]
    /\ ToSet(tail) \subseteq Reported /\ InTurn(tail)
    /\ ToSet(tail) = Reported \/ Len(tail) = TailCap
    /\ \A l \in Reported \ ToSet(tail), m \in ToSet(tail) : l.n < m.n

(* The artifact of a job that goes on to a board was built from that job's *)
(* tar, whatever the slot built before, failed to build or was stopped     *)
(* from building.                                                          *)
ElfIsOfItsTar ==
  \A j \in handed : files[TarOf[j]] = TarOf[j]

(* Every build ends, with its slot, unless cargo hangs and nobody cancels: *)
(* no pipe fills up behind a reader that waits or gave up, and a cancel is *)
(* never lost between two runs of cargo.                                   *)
BuildsEnd ==
  status = "building" ~> (status \in Ended \/ (child = "hung" /\ cancel = "none"))
=============================================================================
