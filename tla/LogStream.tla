------------------------------- MODULE LogStream -------------------------------
(***************************************************************************)
(* The log of one job on its way to the browsers: the frame sink of the    *)
(* build and of the run, which publishes every frame to the broker at once *)
(* and writes it to the database in batches; the broker's bounded channel; *)
(* paavod's stream handler, which sends the persisted frames and then the  *)
(* live ones; the web proxy's since_seq cut; and the job page, which seeds *)
(* itself from the persisted frames, drops what is not newer than its last *)
(* line, and reconnects when its connection breaks.  Every read of the     *)
(* database on the way may fail, and a purge may delete the job's row and  *)
(* its frames under the page.                                              *)
(*                                                                         *)
(* A frame is <<phase, seq>>: its text is left out, and the phase tells    *)
(* apart two frames that were given the same seq.                          *)
(***************************************************************************)
EXTENDS Integers, FiniteSets, SequencesExt

CONSTANTS
  Viewers,      (* job pages open in browsers                              *)
  MaxFrames,    (* bound: frames a phase of the job emits                  *)
  BatchMax,     (* BATCH_MAX of the sink                                   *)
  Capacity,     (* capacity of the broker's channel                        *)
  SeedLimit,    (* frames the page loads before it connects                *)
  MaxFaults,    (* bound: connections that break and kinds of database     *)
                (* accesses that fail; see Accesses                        *)
  CancelPending (* whether a client may cancel the job while it waits      *)

ASSUME LogStreamAssumption ==
  /\ {MaxFrames, BatchMax, Capacity, SeedLimit} \subseteq Nat \ {0}
  /\ MaxFaults \in Nat
  /\ CancelPending \in BOOLEAN

VARIABLES
  (* The job and its sink *)
  job,        (* where the job is; see JobPcs                              *)
  row,        (* the row of the job: "open", "over" (terminal) or "gone"   *)
  emitted,    (* frames published so far                                   *)
  nextSeq,    (* the seq counter of the phase                              *)
  batch,      (* published, not yet written                                *)
  stored,     (* log_frame                                                 *)
  (* The broker *)
  channel,    (* whether the broker has an entry for the job               *)
  attached,   (* viewers whose receiver belongs to that entry              *)
  queue,      (* viewer -> what its receiver can still read                *)
  missed,     (* viewer -> events dropped since its last read              *)
  (* The pages and their connections *)
  conn,       (* viewer -> where its connection is; see ConnPcs            *)
  seen,       (* viewer -> the lines of the page                           *)
  cut,        (* viewer -> since_seq, -1 when absent                       *)
  told,       (* viewer -> how the page was told that the stream is over   *)
  breaks,     (* connections that broke, bounded by MaxFaults              *)
  faults,     (* kinds of accesses that failed, bounded by MaxFaults       *)
  (* History, for the properties only *)
  lost        (* viewer -> frames its connections could not get            *)

sink   == <<job, row, emitted, nextSeq, batch, stored>>
broker == <<channel, attached, queue, missed>>
pages  == <<conn, seen, cut, told, breaks>>
vars   == <<sink, broker, pages, lost, faults>>

JobPcs  == {"submitted", "building", "awaiting_board", "running",
            "publish", "close", "done", "cancelled"}
ConnPcs == {"seed", "read", "subscribe", "recheck", "drop", "abandon", "history", "live",
            "replay", "closed", "refused"}

(* How a page is told: the outcome, or that its stream was truncated since *)
(* its connection broke, its history could not be read, or the live stream *)
(* ended before a terminal event.                                          *)
Ends == {"terminal", "broken", "unread", "ended"}

(* The writes of the sink; the reads of a page and of its connection.      *)
Accesses == {"write", "seed", "row", "recheck", "history", "end"}

Fails(access) ==
  /\ breaks + Cardinality(faults \cup {access}) <= MaxFaults
  /\ faults' = faults \cup {access}

(* A batch could not be written.                                           *)
unwritten == "write" \in faults

(* LiveEvent::Terminal                                                     *)
Terminal == <<"terminal", 0>>

-----------------------------------------------------------------------------
(* The broker.                                                             *)

(* Every attached receiver gets the event; one that has Capacity unread    *)
(* events loses the oldest, one whose channel was closed under it the new. *)
Publish(e) ==
  LET full   == {v \in attached : Len(queue[v]) = Capacity}
      closed == {v \in Viewers \ attached : conn[v] = "live"}
  IN /\ queue' = [v \in Viewers |->
                    IF v \notin attached THEN queue[v]
                    ELSE Append(IF v \in full THEN Tail(queue[v]) ELSE queue[v], e)]
     /\ missed' = [v \in Viewers |-> missed[v] + IF v \in full THEN 1 ELSE 0]
     /\ lost' = [v \in Viewers |-> lost[v] \cup
                   (IF v \in full THEN {Head(queue[v])} ELSE IF v \in closed THEN {e} ELSE {})]
     /\ UNCHANGED <<channel, attached>>

(* Dropping the entry closes its receivers once they have read what is     *)
(* queued.                                                                 *)
CloseChannel ==
  channel' = FALSE /\ attached' = {}

-----------------------------------------------------------------------------
(* The job.                                                                *)

Phase == IF job = "building" THEN "build" ELSE "run"

StartBuild ==
  /\ job = "submitted" /\ row = "open"
  /\ job' = "building"
  /\ nextSeq' = 0
  /\ UNCHANGED <<row, emitted, batch, stored, broker, pages, lost, faults>>

(* Mutant: the run counts from 0 again.                                    *)
StartRunAtZero ==
  /\ job = "awaiting_board"
  /\ job' = "running"
  /\ nextSeq' = 0
  /\ UNCHANGED <<row, emitted, batch, stored, broker, pages, lost, faults>>

(* next_log_seq: one more than the largest seq in the database.            *)
StartRun ==
  /\ job = "awaiting_board"
  /\ job' = "running"
  /\ nextSeq' = IF stored = <<>> THEN 0 ELSE Last(stored)[2] + 1
  /\ UNCHANGED <<row, emitted, batch, stored, broker, pages, lost, faults>>

(* FrameSink::push up to its flush; a full batch is flushed before the     *)
(* next push.                                                              *)
Push ==
  /\ job \in {"building", "running"}
  /\ Cardinality({f \in emitted : f[1] = Phase}) < MaxFrames
  /\ Len(batch) < BatchMax
  /\ LET f == <<Phase, nextSeq>>
     IN /\ emitted' = emitted \cup {f}
        /\ batch' = Append(batch, f)
        /\ Publish(f)
  /\ nextSeq' = nextSeq + 1
  /\ UNCHANGED <<job, row, stored, pages, faults>>

(* A batch is flushed when it is full, when its time has come, and at the  *)
(* end of the phase; a failed write drops it.                              *)
Flush ==
  /\ batch # <<>>
  /\ \/ stored' = stored \o batch /\ UNCHANGED <<lost, faults>>
     \/ /\ Fails("write")
        /\ UNCHANGED stored
        /\ lost' = [v \in Viewers |-> lost[v] \cup
                      IF v \in attached THEN {} ELSE ToSet(batch)]
  /\ batch' = <<>>
  /\ UNCHANGED <<job, row, emitted, nextSeq, broker, pages>>

(* Mutant: the channel is closed at the end of the build already.          *)
BuildAdvancesClosing ==
  /\ job = "building" /\ batch = <<>>
  /\ job' = "awaiting_board"
  /\ CloseChannel
  /\ UNCHANGED <<row, emitted, nextSeq, batch, stored, queue, missed, pages, lost, faults>>

(* The forwarder has been joined, so the last batch is written.            *)
BuildAdvances ==
  /\ job = "building" /\ batch = <<>>
  /\ job' = "awaiting_board"
  /\ UNCHANGED <<row, emitted, nextSeq, batch, stored, broker, pages, lost, faults>>

(* finalize_terminal and finalize_run, database part.  The sink was joined *)
(* and its last batch written; a build or a run that panicked, which ends  *)
(* without the join, is left out ...                                       *)
FinalizeRow ==
  /\ job \in {"building", "running"} /\ batch = <<>>
  /\ job' = "publish"
  /\ row' = "over"
  /\ UNCHANGED <<emitted, nextSeq, batch, stored, broker, pages, lost, faults>>

(* ... the Terminal event ...                                              *)
PublishTerminal ==
  /\ job = "publish"
  /\ job' = "close"
  /\ Publish(Terminal)
  /\ UNCHANGED <<row, emitted, nextSeq, batch, stored, pages, faults>>

(* ... and the end of the channel.                                         *)
FinalizeBroker ==
  /\ job = "close"
  /\ job' = "done"
  /\ CloseChannel
  /\ UNCHANGED <<row, emitted, nextSeq, batch, stored, queue, missed, pages, lost, faults>>

(* cancel_if_pending touches the database only.                            *)
CancelWaiting ==
  /\ CancelPending
  /\ job \in {"submitted", "awaiting_board"} /\ row = "open"
  /\ job' = "cancelled"
  /\ row' = "over"
  /\ UNCHANGED <<emitted, nextSeq, batch, stored, broker, pages, lost, faults>>

(* What v's receiver holds for it.                                         *)
Held(v) == IF conn[v] \in {"history", "live"} THEN ToSet(queue[v]) ELSE {}

(* POST /admin/purge, refused while a job is in flight: the row and its    *)
(* frames go, the broker is left alone.                                    *)
Purge ==
  /\ job \notin {"building", "awaiting_board", "running"} /\ row # "gone"
  /\ row' = "gone"
  /\ stored' = <<>>
  /\ lost' = [v \in Viewers |-> lost[v] \cup (ToSet(stored) \ (ToSet(seen[v]) \cup Held(v)))]
  /\ UNCHANGED <<job, emitted, nextSeq, batch, broker, pages, faults>>

JobStep == StartBuild \/ StartRun \/ Push \/ Flush \/ BuildAdvances \/ FinalizeRow
           \/ PublishTerminal \/ FinalizeBroker

-----------------------------------------------------------------------------
(* A page: the lines a connection delivers to it.                          *)

LastSeq(lines) == IF lines = <<>> THEN -1 ELSE Last(lines)[2]

(* Mutant: the page does not drop what it shows already.                   *)
ShownTwice(v, lines, frames) == lines \o SelectSeq(frames, LAMBDA f : f[2] > cut[v])

(* The proxy drops what since_seq covers, the page what is not newer than  *)
(* its last line.                                                          *)
Shown(v, lines, frames) ==
  LET show[n \in 0 .. Len(frames)] ==
        IF n = 0 THEN lines
        ELSE LET f == frames[n]
             IN IF f[2] > cut[v] /\ f[2] > LastSeq(show[n - 1])
                THEN Append(show[n - 1], f) ELSE show[n - 1]
  IN show[Len(frames)]

Moves(v, from, to) == conn[v] = from /\ conn' = [conn EXCEPT ![v] = to]

(* Mutant: since_seq is the number of lines, not the last of their seqs.   *)
SeedCounts(v) ==
  /\ Moves(v, "seed", "read")
  /\ LET n == IF Len(stored) < SeedLimit THEN Len(stored) ELSE SeedLimit
     IN /\ seen' = [seen EXCEPT ![v] = SubSeq(stored, 1, n)]
        /\ cut' = [cut EXCEPT ![v] = n]
  /\ UNCHANGED <<sink, broker, told, breaks, lost, faults>>

(* The page seeds itself with the first persisted frames; without them it  *)
(* asks for the stream all the same.                                       *)
Seed(v) ==
  /\ Moves(v, "seed", "read")
  /\ LET n == IF Len(stored) < SeedLimit THEN Len(stored) ELSE SeedLimit
     IN \/ /\ seen' = [seen EXCEPT ![v] = SubSeq(stored, 1, n)]
           /\ cut' = [cut EXCEPT ![v] = LastSeq(SubSeq(stored, 1, n))]
           /\ UNCHANGED faults
        \/ Fails("seed") /\ UNCHANGED <<seen, cut>>
  /\ UNCHANGED <<sink, broker, told, breaks, lost>>

(* stream_job, steps 1 and 2.  A row that is not there or cannot be read   *)
(* (or a paavod that cannot be reached) is an error status: the page's     *)
(* EventSource gives up, and the page is told nothing.                     *)
ReadRow(v) ==
  /\ \/ /\ Moves(v, "read", CASE row = "open" -> "subscribe"
                              [] row = "over" -> "replay"
                              [] row = "gone" -> "refused")
        /\ UNCHANGED faults
     \/ Moves(v, "read", "refused") /\ Fails("row")
  /\ UNCHANGED <<sink, broker, seen, cut, told, breaks, lost>>

(* Step 3: subscribe, which makes the channel if there is none.            *)
Subscribe(v) ==
  /\ Moves(v, "subscribe", "recheck")
  /\ channel' = TRUE
  /\ attached' = attached \cup {v}
  /\ queue' = [queue EXCEPT ![v] = <<>>]
  /\ missed' = [missed EXCEPT ![v] = 0]
  /\ UNCHANGED <<sink, seen, cut, told, breaks, lost, faults>>

(* Mutant: the row is not read again.                                      *)
RecheckSkipped(v) ==
  /\ Moves(v, "recheck", "history")
  /\ UNCHANGED <<sink, broker, seen, cut, told, breaks, lost, faults>>

(* Step 4: read the row again.                                             *)
Recheck(v) ==
  /\ \/ /\ Moves(v, "recheck", CASE row = "open" -> "history"
                                 [] row = "over" -> "drop"
                                 [] row = "gone" -> "abandon")
        /\ UNCHANGED faults
     \/ Moves(v, "recheck", "abandon") /\ Fails("recheck")
  /\ UNCHANGED <<sink, broker, seen, cut, told, breaks, lost>>

(* Mutant: the receiver is dropped and the channel is not.                 *)
DropReceiver(v) ==
  /\ Moves(v, "drop", "replay") \/ Moves(v, "abandon", "refused")
  /\ attached' = attached \ {v}
  /\ queue' = [queue EXCEPT ![v] = <<>>]
  /\ UNCHANGED <<sink, channel, missed, seen, cut, told, breaks, lost, faults>>

(* The job ended meanwhile, or its row is gone or could not be read: drop  *)
(* the receiver and the channel with it, whoever else is attached to it.   *)
DropChannel(v) ==
  /\ Moves(v, "drop", "replay") \/ Moves(v, "abandon", "refused")
  /\ CloseChannel
  /\ queue' = [queue EXCEPT ![v] = <<>>]
  /\ UNCHANGED <<sink, missed, seen, cut, told, breaks, lost, faults>>

(* terminal_response: everything persisted, then the outcome of the row.   *)
Replay(v) ==
  /\ Moves(v, "replay", "closed")
  /\ seen' = [seen EXCEPT ![v] = Shown(v, @, stored)]
  /\ told' = [told EXCEPT ![v] = "terminal"]
  /\ UNCHANGED <<sink, broker, cut, breaks, lost, faults>>

(* Step 5: the persisted frames first.  What was published before the      *)
(* subscription and is not written yet is in neither half.                 *)
SendHistory(v) ==
  /\ Moves(v, "history", "live")
  /\ seen' = [seen EXCEPT ![v] = Shown(v, @, stored)]
  /\ lost' = [lost EXCEPT ![v] = @ \cup ((emitted \ ToSet(stored)) \ ToSet(queue[v]))]
  /\ UNCHANGED <<sink, broker, cut, told, breaks, faults>>

(* historical_lines, a page of which cannot be read: what was read before  *)
(* it and a truncation mark, after which the proxy hangs up.               *)
HistoryFails(v) ==
  /\ conn[v] \in {"history", "replay"} /\ Fails("history")
  /\ \E n \in 0 .. Len(stored) : seen' = [seen EXCEPT ![v] = Shown(v, @, SubSeq(stored, 1, n))]
  /\ told' = [told EXCEPT ![v] = "unread"]
  /\ conn' = [conn EXCEPT ![v] = "closed"]
  /\ attached' = attached \ {v}
  /\ queue' = [queue EXCEPT ![v] = <<>>]
  /\ UNCHANGED <<sink, channel, missed, cut, breaks, lost>>

(* Mutant: the Terminal event is taken for a line of the log.              *)
SendLiveRaw(v) ==
  /\ conn[v] = "live" /\ missed[v] = 0 /\ queue[v] # <<>>
  /\ seen' = [seen EXCEPT ![v] = Shown(v, @, <<Head(queue[v])>>)]
  /\ queue' = [queue EXCEPT ![v] = Tail(@)]
  /\ UNCHANGED <<sink, channel, attached, missed, conn, told, cut, breaks, lost, faults>>

(* Then the live ones.                                                     *)
SendLive(v) ==
  /\ conn[v] = "live" /\ missed[v] = 0 /\ queue[v] # <<>>
  /\ LET e == Head(queue[v])
     IN IF e = Terminal
        THEN /\ told' = [told EXCEPT ![v] = "terminal"]
             /\ conn' = [conn EXCEPT ![v] = "closed"]
             /\ attached' = attached \ {v}
             /\ queue' = [queue EXCEPT ![v] = <<>>]
             /\ UNCHANGED seen
        ELSE /\ seen' = [seen EXCEPT ![v] = Shown(v, @, <<e>>)]
             /\ queue' = [queue EXCEPT ![v] = Tail(@)]
             /\ UNCHANGED <<told, conn, attached>>
  /\ UNCHANGED <<sink, channel, missed, cut, breaks, lost, faults>>

(* A lagging receiver is told how much it missed and goes on.              *)
SendLagged(v) ==
  /\ conn[v] = "live" /\ missed[v] > 0
  /\ missed' = [missed EXCEPT ![v] = 0]
  /\ UNCHANGED <<sink, channel, attached, queue, pages, lost, faults>>

(* The channel is gone and nothing is queued: the outcome of the row, or a *)
(* truncation mark when the row has none, is gone or cannot be read.       *)
SendEnd(v) ==
  /\ conn[v] = "live" /\ v \notin attached /\ missed[v] = 0 /\ queue[v] = <<>>
  /\ \/ /\ told' = [told EXCEPT ![v] = IF row = "over" THEN "terminal" ELSE "ended"]
        /\ UNCHANGED faults
     \/ told' = [told EXCEPT ![v] = "ended"] /\ Fails("end")
  /\ conn' = [conn EXCEPT ![v] = "closed"]
  /\ UNCHANGED <<sink, broker, seen, cut, breaks, lost>>

(* The browser's connection breaks and EventSource opens the same url      *)
(* again; or the connection to paavod breaks and the proxy says so.        *)
Break(v) ==
  /\ conn[v] \in {"history", "live", "replay"} /\ breaks + Cardinality(faults) < MaxFaults
  /\ breaks' = breaks + 1
  /\ \/ conn' = [conn EXCEPT ![v] = "read"] /\ UNCHANGED told
     \/ /\ conn' = [conn EXCEPT ![v] = "closed"]
        /\ told' = [told EXCEPT ![v] = "broken"]
  /\ attached' = attached \ {v}
  /\ queue' = [queue EXCEPT ![v] = <<>>]
  /\ missed' = [missed EXCEPT ![v] = 0]
  /\ UNCHANGED <<sink, channel, seen, cut, lost, faults>>

PageStep(v) ==
  Seed(v) \/ ReadRow(v) \/ Subscribe(v) \/ Recheck(v) \/ DropChannel(v) \/ Replay(v)
  \/ SendHistory(v) \/ HistoryFails(v) \/ SendLive(v) \/ SendLagged(v) \/ SendEnd(v)

-----------------------------------------------------------------------------

Init ==
  /\ job = "submitted" /\ row = "open"
  /\ emitted = {} /\ nextSeq = 0 /\ batch = <<>> /\ stored = <<>>
  /\ channel = FALSE /\ attached = {}
  /\ queue = [v \in Viewers |-> <<>>]
  /\ missed = [v \in Viewers |-> 0]
  /\ conn = [v \in Viewers |-> "seed"]
  /\ seen = [v \in Viewers |-> <<>>]
  /\ cut = [v \in Viewers |-> -1]
  /\ told = [v \in Viewers |-> "open"]
  /\ breaks = 0 /\ faults = {}
  /\ lost = [v \in Viewers |-> {}]

Next ==
  \/ JobStep
  \/ CancelWaiting
  \/ Purge
  \/ \E v \in Viewers : PageStep(v) \/ Break(v)

Spec == Init /\ [][Next]_vars

(* Jobs proceed and connections are served.                                *)
FairSpec == Spec /\ WF_vars(JobStep) /\ \A v \in Viewers : WF_vars(PageStep(v))

-----------------------------------------------------------------------------
(* Properties.                                                             *)

Frames == {"build", "run"} \X Nat

TypeOK ==
  /\ job \in JobPcs /\ row \in {"open", "over", "gone"}
  /\ emitted \subseteq Frames /\ nextSeq \in Nat
  /\ batch \in Seq(Frames) /\ Len(batch) <= BatchMax
  /\ stored \in Seq(Frames)
  /\ channel \in BOOLEAN /\ attached \subseteq Viewers
  /\ queue \in [Viewers -> Seq(Frames \cup {Terminal})]
  /\ missed \in [Viewers -> Nat]
  /\ conn \in [Viewers -> ConnPcs]
  /\ seen \in [Viewers -> Seq(Frames)]
  /\ cut \in [Viewers -> Nat \cup {-1}]
  /\ told \in [Viewers -> {"open"} \cup Ends]
  /\ breaks \in Nat /\ faults \subseteq Accesses
  /\ lost \in [Viewers -> SUBSET (Frames \cup {Terminal})]

(* While every batch is written, a page that was told the outcome shows    *)
(* every frame of the job, save those its connections could not get:       *)
(* dropped by a full channel, published and unwritten when its history was *)
(* read, purged before it, or published after its channel was closed by    *)
(* another viewer.  Nothing else falls between the seed, the history, the  *)
(* live tail, the two cuts, the reads that failed, and the connections     *)
(* that broke and were opened again.                                       *)
NothingElseIsLost ==
  ~unwritten => \A v \in Viewers :
                  told[v] = "terminal" => emitted \subseteq ToSet(seen[v]) \cup lost[v]

(* A page shows its lines once each, by seq, and, while every batch is     *)
(* written, in the order they were emitted.                                *)
PageInOrder ==
  \A v \in Viewers : \A m, n \in DOMAIN seen[v] : m < n =>
    /\ seen[v][m][2] < seen[v][n][2]
    /\ seen[v][m][1] = "run" /\ seen[v][n][1] = "build" => unwritten

(* Two frames of a job never share a seq, across the two phases and their  *)
(* separate counters, while every batch is written.  (The run counts from  *)
(* what is in the database, so a lost batch gives its seqs away again.)    *)
SeqsAreUnique == unwritten \/ \A f, g \in emitted : f[2] = g[2] => f = g

(* A channel whose job was finalized and that nobody is about to look at   *)
(* again has been dropped from the broker.  (A job cancelled or purged     *)
(* while it waited is not finalized: its channel stays.)                   *)
ChannelReclaimed ==
  job = "done" /\ (\A v \in Viewers : conn[v] \notin {"recheck", "drop", "abandon"}) => ~channel

(* No page is told that its live stream ended before the job did, whoever  *)
(* comes, goes and breaks: the channel of a live job is closed under its   *)
(* viewers only by one whose second look at the row fails, and a closed    *)
(* stream whose job is over gives the outcome unless that cannot be read.  *)
(* (A purge takes the row and the outcome away.)                           *)
NeverCutShort ==
  \A v \in Viewers : told[v] = "ended" => row = "gone" \/ faults \cap {"recheck", "end"} # {}

(* The job ended while it waited, by a cancel or a purge.                  *)
EndedWaiting == job = "cancelled" \/ (job = "submitted" /\ row = "gone")

(* Every page is told that its stream is over, however its connection      *)
(* interleaves with the end of the job, failing reads and a purge.  Two    *)
(* are not: a page whose request was refused, since its row was gone or    *)
(* could not be read, and one whose stream is live when the job, still     *)
(* waiting, is cancelled or purged, neither of which the broker hears of.  *)
PagesAreTold ==
  \A v \in Viewers :
    <>(told[v] # "open" \/ conn[v] = "refused" \/ (conn[v] = "live" /\ EndedWaiting))

-----------------------------------------------------------------------------
(* A statement of the documentation that the code does not keep.           *)

(* jobs.rs: exactly one terminal line before the stream closes.             *)
StreamsEnd == \A v \in Viewers : conn[v] = "live" ~> told[v] # "open"
=============================================================================
