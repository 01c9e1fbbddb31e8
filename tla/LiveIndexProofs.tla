---------------------------- MODULE LiveIndexProofs ---------------------------
(***************************************************************************)
(* That the fingerprint of the job table tells two tables of one history   *)
(* apart, for any number of jobs.  The invariant relates the table the     *)
(* poller read last to the table of now: what can have happened to each    *)
(* row in between, whatever was submitted, run, cancelled and purged.      *)
(***************************************************************************)
EXTENDS LiveIndex, FiniteSetTheorems, WellFoundedInduction, TLAPS

-----------------------------------------------------------------------------
(* The invariant.                                                          *)

Tables == [1 .. MaxJobs -> JobStates \cup {"none"}]

(* InState and Digest, of any table.                                       *)
InStateOf(J, s) == {j \in 1 .. MaxJobs : J[j] = s}
DigestOf(J) ==
  {<<s, Cardinality(InStateOf(J, s)), Max(InStateOf(J, s))>> :
     s \in {t \in JobStates : InStateOf(J, t) # {}}}

(* What a row in state a can be later, the table not having been purged.   *)
Later(a, b) ==
  \/ a = b
  \/ a = "submitted" /\ b \in JobStates
  \/ a = "awaiting_board" /\ b \in JobStates \ {"submitted"}
  \/ a = "running" /\ b \in JobStates \ {"submitted", "awaiting_board"}

(* The table was J when c jobs had been submitted: either none of those is *)
(* left, or each has gone its way and all the jobs since are there.        *)
Since(J, c) ==
  /\ \A j \in 1 .. MaxJobs : j > c => J[j] = "none"
  /\ \/ \A j \in 1 .. MaxJobs : j <= c => jobs[j] = "none"
     \/ \A j \in 1 .. MaxJobs :
          /\ j <= c => Later(J[j], jobs[j])
          /\ c < j /\ j <= clock => jobs[j] # "none"

(* What the fingerprint says and what it was taken from.                   *)
Polled ==
  \/ polled = <<>> /\ fp.jobs = <<>>
  \/ \E J \in Tables : /\ polled = <<J>> /\ fp.jobs = <<DigestOf(J)>>
                       /\ \E c \in 0 .. clock : Since(J, c)

(* How far the request in flight is.                                       *)
Requested ==
  \/ fetch \in {<<>>, Queries} /\ got = <<>>
  \/ Queries = ListQueries /\ \/ fetch = <<"total", "new">> /\ \E a : got = <<a>>
                              \/ fetch = <<"new">> /\ Len(got) = 2
  \/ Queries = SearchQueries /\ fetch = <<"total">> /\ \E a : got = <<a>>
  \/ Queries = BoardsQueries /\ fetch = <<"rows">> /\ \E a : got = <<a>>

BoardRows == [health : {"healthy", "quarantined"}, fails : Nat, used : Nat,
              reason : {"", "automatic", "operator"}]
Views     == [q : {"", "passed"}, page : 1 .. MaxJobs, pin : NoPin .. MaxJobs]

(* Job ids are given out in order.                                         *)
Numbered ==
  /\ jobs \in Tables /\ clock \in 0 .. MaxJobs
  /\ \A j \in 1 .. MaxJobs : j > clock => jobs[j] = "none"

Streamed ==
  /\ untold \subseteq {route}
  /\ conn \in BOOLEAN /\ (~conn => untold = {})

LiveInv ==
  /\ Numbered /\ board \in BoardRows
  /\ DOMAIN fp = {"jobs", "boards"} /\ Polled
  /\ Streamed
  /\ view \in Views /\ Requested
  /\ between \in BOOLEAN

-----------------------------------------------------------------------------
(* Largest elements.                                                       *)

(* Every nonempty set of numbers has a least.                              *)
LEMMA Least ==
  ASSUME NEW T \in SUBSET Nat, T # {}
  PROVE  \E n \in T : \A m \in T : n <= m
<1>1. IsWellFoundedOn(OpToRel(<, Nat), Nat)
  BY NatLessThanWellFounded
<1>2. PICK n \in T : \A m \in T : ~(<<m, n>> \in OpToRel(<, Nat))
  BY <1>1, WFMin
<1>3. \A m \in T : ~(m < n)
  BY <1>2 DEF OpToRel
<1> QED BY <1>3

(* A nonempty set of jobs has a newest: its least upper bound.             *)
LEMMA MaxFacts ==
  ASSUME NEW S \in SUBSET (1 .. MaxJobs), S # {}
  PROVE  Max(S) \in S /\ \A y \in S : Max(S) >= y
<1> DEFINE T == {n \in Nat : \A m \in S : m <= n}
<1>1. MaxJobs \in T
  BY LiveIndexAssumption
<1>2. PICK n \in T : \A m \in T : n <= m
  BY <1>1, Least
<1>3. n \in S
  <2> SUFFICES ASSUME n \notin S PROVE FALSE
    OBVIOUS
  <2>1. PICK m \in S : m \in 1 .. MaxJobs
    OBVIOUS
  <2>2. n \in Nat /\ n # 0
    BY <1>2, <2>1
  <2>3. \A k \in S : k <= n - 1
    BY <1>2, <2>2
  <2>4. n - 1 \in T
    BY <2>2, <2>3
  <2> QED BY <1>2, <2>2, <2>4
<1>4. \E x \in S : \A y \in S : x >= y
  BY <1>2, <1>3
<1> QED BY <1>4 DEF Max

-----------------------------------------------------------------------------
(* What a digest tells.                                                    *)

LEMMA DigestIsOfJobs ==
  ASSUME jobs \in Tables
  PROVE  Digest = DigestOf(jobs)
<1>1. \A s \in JobStates : InState(s) = InStateOf(jobs, s)
  BY DEF InState, InStateOf, Present, JobStates, InFlight
<1>2. {t \in JobStates : InState(t) # {}} = {t \in JobStates : InStateOf(jobs, t) # {}}
  BY <1>1
<1> QED BY <1>1, <1>2 DEF Digest, DigestOf

LEMMA DigestTells ==
  ASSUME NEW J \in Tables, NEW K \in Tables, DigestOf(J) = DigestOf(K), NEW s \in JobStates,
         InStateOf(J, s) # {}
  PROVE  /\ InStateOf(K, s) # {}
         /\ Cardinality(InStateOf(J, s)) = Cardinality(InStateOf(K, s))
         /\ Max(InStateOf(J, s)) = Max(InStateOf(K, s))
<1>1. <<s, Cardinality(InStateOf(J, s)), Max(InStateOf(J, s))>> \in DigestOf(K)
  BY DEF DigestOf
<1>2. PICK t \in {u \in JobStates : InStateOf(K, u) # {}} :
        <<s, Cardinality(InStateOf(J, s)), Max(InStateOf(J, s))>>
          = <<t, Cardinality(InStateOf(K, t)), Max(InStateOf(K, t))>>
  BY <1>1 DEF DigestOf
<1>3. s = t
  BY <1>2
<1> QED BY <1>2, <1>3

(* Two tables with one digest that are so far alike that one has no more   *)
(* rows of a state than the other have the same rows of it.                *)
LEMMA SameRows ==
  ASSUME NEW J \in Tables, NEW K \in Tables, DigestOf(J) = DigestOf(K), NEW s \in JobStates,
         InStateOf(K, s) \subseteq InStateOf(J, s)
  PROVE  InStateOf(K, s) = InStateOf(J, s)
<1>1. CASE InStateOf(J, s) = {}
  BY <1>1
<1>2. CASE InStateOf(J, s) # {}
  <2>1. Cardinality(InStateOf(J, s)) = Cardinality(InStateOf(K, s))
    BY <1>2, DigestTells
  <2>2. IsFiniteSet(1 .. MaxJobs)
    BY LiveIndexAssumption, FS_Interval
  <2>3. IsFiniteSet(InStateOf(J, s))
    BY <2>2, FS_Subset DEF InStateOf
  <2> QED BY <2>1, <2>3, FS_Subset
<1> QED BY <1>1, <1>2

LEMMA LiveTypes ==
  ASSUME LiveInv
  PROVE  jobs \in Tables /\ clock \in Nat /\ clock <= MaxJobs /\ MaxJobs \in Nat
<1>1. MaxJobs \in Nat
  BY LiveIndexAssumption
<1>2. jobs \in Tables /\ clock \in 0 .. MaxJobs
  BY DEF LiveInv, Numbered
<1> QED BY <1>1, <1>2

LEMMA SameTable ==
  ASSUME NEW J \in Tables, NEW K \in Tables, \A j \in 1 .. MaxJobs : J[j] = K[j]
  PROVE  J = K
<1> DEFINE D == 1 .. MaxJobs
           R == JobStates \cup {"none"}
<1> HIDE DEF D, R
<1>1. J \in [D -> R] /\ K \in [D -> R] /\ \A j \in D : J[j] = K[j]
  BY DEF Tables, D, R
<1> QED BY <1>1

(* The newest row of each state shows a purge and a submission; the number *)
(* of rows submitted, awaiting a board and running shows the rest.         *)
LEMMA SinceIsTold ==
  ASSUME LiveInv, NEW J \in Tables, NEW c \in 0 .. clock, Since(J, c), DigestOf(J) = DigestOf(jobs)
  PROVE  J = jobs
<1>1. jobs \in Tables /\ c \in Nat /\ clock \in Nat
  BY LiveTypes
<1>2. ASSUME NEW s \in JobStates, NEW j \in InStateOf(jobs, s)
      PROVE  j <= c
  <2>1. Max(InStateOf(jobs, s)) = Max(InStateOf(J, s)) /\ InStateOf(J, s) # {}
    BY <1>1, <1>2, DigestTells
  <2>2. Max(InStateOf(J, s)) \in InStateOf(J, s)
    BY <2>1, MaxFacts DEF InStateOf
  <2>3. Max(InStateOf(jobs, s)) >= j
    BY <1>2, MaxFacts DEF InStateOf
  <2>4. Max(InStateOf(J, s)) \in 1 .. MaxJobs /\ Max(InStateOf(J, s)) <= c
    BY <1>1, <2>2 DEF InStateOf, Since, JobStates, InFlight
  <2> QED BY <1>1, <1>2, <2>1, <2>3, <2>4 DEF InStateOf
<1>3. ASSUME NEW j \in 1 .. MaxJobs, j > c
      PROVE  J[j] = "none" /\ jobs[j] = "none"
  <2>1. jobs[j] \in JobStates => j \in InStateOf(jobs, jobs[j])
    BY DEF InStateOf
  <2> QED BY <1>1, <1>2, <1>3, <2>1 DEF Since, Tables
<1>4. CASE \A j \in 1 .. MaxJobs : j <= c => jobs[j] = "none"
  <2>1. \A j \in 1 .. MaxJobs : jobs[j] = "none"
    BY <1>1, <1>3, <1>4
  <2>2. ASSUME NEW j \in 1 .. MaxJobs, J[j] # "none"
        PROVE  FALSE
    <3>1. J[j] \in JobStates /\ InStateOf(J, J[j]) # {}
      BY <2>2 DEF Tables, InStateOf
    <3>2. InStateOf(jobs, J[j]) # {}
      BY <1>1, <3>1, DigestTells
    <3> QED BY <2>1, <2>2, <3>2 DEF InStateOf
  <2>3. \A j \in 1 .. MaxJobs : J[j] = jobs[j]
    BY <2>1, <2>2
  <2> QED BY <1>1, <2>3, SameTable
<1>5. CASE \A j \in 1 .. MaxJobs : j <= c => Later(J[j], jobs[j])
  <2>1. \A j \in 1 .. MaxJobs : Later(J[j], jobs[j])
    BY <1>1, <1>3, <1>5 DEF Later
  <2>2. InStateOf(jobs, "submitted") = InStateOf(J, "submitted")
    <3>1. InStateOf(jobs, "submitted") \subseteq InStateOf(J, "submitted")
      BY <2>1 DEF InStateOf, Later
    <3> QED BY <1>1, <3>1, SameRows DEF JobStates, InFlight
  <2>3. InStateOf(jobs, "awaiting_board") = InStateOf(J, "awaiting_board")
    <3>1. InStateOf(jobs, "awaiting_board") \subseteq InStateOf(J, "awaiting_board")
      BY <2>1, <2>2 DEF InStateOf, Later
    <3> QED BY <1>1, <3>1, SameRows DEF JobStates, InFlight
  <2>4. InStateOf(jobs, "running") = InStateOf(J, "running")
    <3>1. InStateOf(jobs, "running") \subseteq InStateOf(J, "running")
      BY <2>1, <2>2, <2>3 DEF InStateOf, Later
    <3> QED BY <1>1, <3>1, SameRows DEF JobStates, InFlight
  <2>5. ASSUME NEW j \in 1 .. MaxJobs
        PROVE  J[j] = jobs[j]
    <3>1. CASE J[j] = "submitted"
      BY <2>2, <3>1 DEF InStateOf
    <3>2. CASE J[j] = "awaiting_board"
      BY <2>3, <3>2 DEF InStateOf
    <3>3. CASE J[j] = "running"
      BY <2>4, <3>3 DEF InStateOf
    <3>4. CASE J[j] \notin {"submitted", "awaiting_board", "running"}
      BY <2>1, <3>4 DEF Later
    <3> QED BY <3>1, <3>2, <3>3, <3>4
  <2> QED BY <1>1, <2>5, SameTable
<1>6. \/ \A j \in 1 .. MaxJobs : j <= c => jobs[j] = "none"
      \/ \A j \in 1 .. MaxJobs : j <= c => Later(J[j], jobs[j])
  BY DEF Since
<1> QED BY <1>4, <1>5, <1>6

-----------------------------------------------------------------------------
(* The steps.                                                              *)

(* A step that leaves the poller alone, and what it makes of the table.    *)
LEMMA StillPolled ==
  ASSUME LiveInv, UNCHANGED <<polled, fp>>, jobs' \in Tables,
         clock' \in Nat, clock <= clock',
         \/ \A j \in 1 .. MaxJobs : jobs'[j] = "none"
         \/ \A j \in 1 .. MaxJobs : IF j <= clock THEN Later(jobs[j], jobs'[j])
                                    ELSE j <= clock' => jobs'[j] # "none"
  PROVE  Polled'
<1> USE LiveIndexAssumption
<1>1. CASE polled = <<>> /\ fp.jobs = <<>>
  BY <1>1 DEF Polled
<1>2. ASSUME NEW J \in Tables, polled = <<J>>, fp.jobs = <<DigestOf(J)>>,
             NEW c \in 0 .. clock, Since(J, c)
      PROVE  Polled'
  <2>1. c \in 0 .. clock' /\ c \in Nat /\ clock \in Nat
    BY LiveTypes
  <2>2. CASE \A j \in 1 .. MaxJobs : jobs'[j] = "none"
    <3>1. Since(J, c)'
      BY <1>2, <2>2 DEF Since
    <3> QED BY <1>2, <2>1, <3>1 DEF Polled
  <2>3. CASE \A j \in 1 .. MaxJobs : IF j <= clock THEN Later(jobs[j], jobs'[j])
                                     ELSE j <= clock' => jobs'[j] # "none"
    <3>1. CASE \A j \in 1 .. MaxJobs : j <= c => jobs[j] = "none"
      <4>1. \A j \in 1 .. MaxJobs : j <= c => jobs'[j] = "none"
        BY <2>1, <2>3, <3>1 DEF Later
      <4>2. Since(J, c)'
        BY <1>2, <4>1 DEF Since
      <4> QED BY <1>2, <2>1, <4>2 DEF Polled
    <3>2. CASE \A j \in 1 .. MaxJobs :
                 /\ j <= c => Later(J[j], jobs[j])
                 /\ c < j /\ j <= clock => jobs[j] # "none"
      <4>1. ASSUME NEW j \in 1 .. MaxJobs, j <= c
            PROVE  Later(J[j], jobs'[j])
        BY <2>1, <2>3, <3>2, <4>1 DEF Later
      <4>2. ASSUME NEW j \in 1 .. MaxJobs, c < j, j <= clock'
            PROVE  jobs'[j] # "none"
        BY <2>1, <2>3, <3>2, <4>2 DEF Later, JobStates, InFlight
      <4>3. Since(J, c)'
        BY <1>2, <4>1, <4>2 DEF Since
      <4> QED BY <1>2, <2>1, <4>3 DEF Polled
    <3> QED BY <1>2, <3>1, <3>2 DEF Since
  <2> QED BY <2>2, <2>3
<1> QED BY <1>1, <1>2 DEF LiveInv, Polled

LEMMA SamePolled ==
  ASSUME Polled, jobs' = jobs, clock' = clock, polled' = polled, fp'.jobs = fp.jobs
  PROVE  Polled'
<1>1. \A J, c : Since(J, c) => Since(J, c)'
  BY DEF Since
<1> QED BY <1>1 DEF Polled

LEMMA SameNumbered ==
  ASSUME Numbered, jobs' = jobs, clock' = clock
  PROVE  Numbered'
BY DEF Numbered

LEMMA SameRequested ==
  ASSUME Requested, fetch' = fetch, got' = got, route' = route, view' = view
  PROVE  Requested'
BY DEF Requested, Queries

LEMMA SameStreamed ==
  ASSUME Streamed, route' = route, untold' = untold, conn' = conn
  PROVE  Streamed'
BY DEF Streamed

(* What leaves the page and the stream alone.                              *)
LEMMA PaavodKeeps ==
  ASSUME LiveInv, Numbered', board' \in BoardRows, Polled',
         UNCHANGED <<fp, stream, browser, between>>
  PROVE  LiveInv'
<1>1. /\ fp' = fp /\ untold' = untold /\ conn' = conn /\ route' = route /\ view' = view
      /\ fetch' = fetch /\ got' = got /\ between' = between
  BY DEF stream, browser
<1> QED BY <1>1, SameRequested, SameStreamed DEF LiveInv

LEMMA SubmitKeeps ==
  ASSUME LiveInv, Submit
  PROVE  LiveInv'
<1>1. /\ jobs \in Tables /\ clock \in Nat /\ MaxJobs \in Nat /\ clock < MaxJobs
      /\ clock' = clock + 1 /\ jobs' = [jobs EXCEPT ![clock + 1] = "submitted"]
      /\ UNCHANGED <<board, fp, stream, browser, polled, between>>
  BY LiveTypes DEF Submit
<1>2. clock + 1 \in 1 .. MaxJobs /\ clock + 1 \in 0 .. MaxJobs
  BY <1>1
<1>3. /\ jobs' \in Tables
      /\ \A j \in 1 .. MaxJobs : jobs'[j] = IF j = clock + 1 THEN "submitted" ELSE jobs[j]
  BY <1>1, <1>2 DEF Tables, JobStates
<1>4. Polled'
  <2>1. \A j \in 1 .. MaxJobs : IF j <= clock THEN Later(jobs[j], jobs'[j])
                                ELSE j <= clock' => jobs'[j] # "none"
    BY <1>1, <1>3 DEF Later
  <2>2. clock' \in Nat /\ clock <= clock'
    BY <1>1
  <2> QED BY <1>1, <1>3, <2>1, <2>2, StillPolled
<1>5. Numbered'
  <2>1. \A j \in 1 .. MaxJobs : j > clock' => jobs'[j] = "none"
    BY <1>1, <1>3 DEF LiveInv, Numbered
  <2> QED BY <1>1, <1>2, <1>3, <2>1 DEF Numbered
<1> QED BY <1>1, <1>4, <1>5, PaavodKeeps DEF LiveInv

(* A transition of one row.                                                *)
LEMMA TransitionKeeps ==
  ASSUME LiveInv, NEW j \in 1 .. MaxJobs, NEW s \in JobStates, Later(jobs[j], s),
         jobs[j] # "none", jobs' = [jobs EXCEPT ![j] = s],
         UNCHANGED <<clock, fp, stream, browser, polled, between>>, board' \in BoardRows
  PROVE  LiveInv'
<1>1. jobs \in Tables /\ clock \in Nat /\ clock <= clock
  BY LiveTypes
<1>2. jobs' \in Tables /\ \A i \in 1 .. MaxJobs : jobs'[i] = IF i = j THEN s ELSE jobs[i]
  BY <1>1 DEF Tables
<1>3. \A i \in 1 .. MaxJobs : i > clock => jobs[i] = "none" /\ i # j
  BY DEF LiveInv, Numbered
<1>4. Polled'
  <2>1. \A i \in 1 .. MaxJobs : IF i <= clock THEN Later(jobs[i], jobs'[i])
                                ELSE i <= clock' => jobs'[i] # "none"
    BY <1>1, <1>2 DEF Later
  <2> QED BY <1>1, <1>2, <2>1, StillPolled
<1>5. Numbered'
  BY <1>2, <1>3 DEF LiveInv, Numbered
<1> QED BY <1>4, <1>5, PaavodKeeps

LEMMA JobStepKeeps ==
  ASSUME LiveInv, NEW j \in 1 .. MaxJobs,
         \/ EndBuild(j) \/ StartRun(j) \/ CancelPending(j)
         \/ \E s \in Outcomes, counts \in BOOLEAN : Finish(j, s, counts)
  PROVE  LiveInv'
<1>1. board \in BoardRows /\ board.used + 1 \in Nat /\ board.fails + 1 \in Nat
  <2>1. board \in BoardRows
    BY DEF LiveInv
  <2>2. board.used \in Nat /\ board.fails \in Nat
    BY <2>1 DEF BoardRows
  <2> QED BY <2>1, <2>2
<1>2. CASE EndBuild(j)
  <2>1. PICK s \in {"awaiting_board", "failed"} : Moves(j, "submitted", s)
    BY <1>2 DEF EndBuild
  <2>2. Later(jobs[j], s) /\ jobs[j] # "none" /\ s \in JobStates
    BY <2>1 DEF Moves, Later, JobStates, InFlight
  <2> QED BY <1>1, <1>2, <2>1, <2>2, TransitionKeeps DEF EndBuild, Moves
<1>3. CASE StartRun(j)
  <2>1. [board EXCEPT !.used = @ + 1] \in BoardRows
    BY <1>1 DEF BoardRows
  <2>2. Later(jobs[j], "running") /\ jobs[j] # "none" /\ "running" \in JobStates
    BY <1>3 DEF StartRun, Moves, Later, JobStates, InFlight
  <2> QED BY <1>3, <2>1, <2>2, TransitionKeeps DEF StartRun, Moves
<1>4. CASE CancelPending(j)
  <2>1. PICK s \in {"submitted", "awaiting_board"} : Moves(j, s, "aborted")
    BY <1>4 DEF CancelPending
  <2>2. Later(jobs[j], "aborted") /\ jobs[j] # "none" /\ "aborted" \in JobStates
    BY <2>1 DEF Moves, Later, JobStates
  <2> QED BY <1>1, <1>4, <2>1, <2>2, TransitionKeeps DEF CancelPending, Moves
<1>5. ASSUME NEW s \in Outcomes, NEW counts \in BOOLEAN, Finish(j, s, counts)
      PROVE  LiveInv'
  <2>1. board' \in BoardRows
    <3>1. /\ [board EXCEPT !.fails = 0] \in BoardRows
          /\ [board EXCEPT !.fails = @ + 1] \in BoardRows
          /\ [board EXCEPT !.fails = @ + 1, !.health = "quarantined",
                           !.reason = "automatic"] \in BoardRows
      BY <1>1 DEF BoardRows
    <3> QED BY <1>5, <3>1 DEF Finish
  <2>2. Later(jobs[j], s) /\ jobs[j] # "none" /\ s \in JobStates
    BY <1>5, LiveIndexAssumption DEF Finish, Moves, Later, JobStates, InFlight
  <2> QED BY <1>5, <2>1, <2>2, TransitionKeeps DEF Finish, Moves
<1> QED BY <1>2, <1>3, <1>4, <1>5

LEMMA PurgeKeeps ==
  ASSUME LiveInv, Purge
  PROVE  LiveInv'
<1>1. jobs' \in Tables /\ \A j \in 1 .. MaxJobs : jobs'[j] = "none"
  BY DEF Purge, Tables
<1>2. /\ clock \in Nat /\ clock <= clock
      /\ UNCHANGED <<clock, board, fp, stream, browser, polled, between>>
  BY LiveTypes DEF Purge
<1>3. Polled'
  BY <1>1, <1>2, StillPolled
<1>4. Numbered'
  BY <1>1, <1>2 DEF LiveInv, Numbered
<1> QED BY <1>2, <1>3, <1>4, PaavodKeeps DEF LiveInv

LEMMA EditHealthKeeps ==
  ASSUME LiveInv, EditHealth
  PROVE  LiveInv'
<1>1. board' \in BoardRows
  <2>1. board \in BoardRows
    BY DEF LiveInv
  <2>2. /\ [board EXCEPT !.health = "quarantined", !.reason = "operator"] \in BoardRows
        /\ [board EXCEPT !.health = "healthy", !.reason = "", !.fails = 0] \in BoardRows
    BY <2>1 DEF BoardRows
  <2> QED BY <2>2 DEF EditHealth
<1>2. UNCHANGED <<jobs, clock, fp, stream, browser, polled, between>>
  BY DEF EditHealth
<1> QED BY <1>1, <1>2, SamePolled, SameNumbered, PaavodKeeps DEF LiveInv

LEMMA PollJobsKeeps ==
  ASSUME LiveInv, PollJobs
  PROVE  LiveInv'
<1>1. jobs \in Tables /\ clock \in Nat /\ Digest = DigestOf(jobs)
  BY LiveTypes, DigestIsOfJobs
<1>2. /\ fp' = [fp EXCEPT !.jobs = <<DigestOf(jobs)>>] /\ polled' = <<jobs>>
      /\ UNCHANGED <<jobs, clock, board, conn, route, view, fetch, got>>
      /\ between' \in BOOLEAN
      /\ untold' = IF conn THEN untold \cup ({"jobs"} \cap {route}) ELSE {}
  BY <1>1 DEF PollJobs, Publish, database, browser
<1>3. DOMAIN fp' = {"jobs", "boards"} /\ fp'.jobs = <<DigestOf(jobs)>>
  BY <1>2 DEF LiveInv
<1>4. Polled'
  <2>1. Since(jobs, clock)'
    BY <1>1, <1>2 DEF LiveInv, Numbered, Since, Later
  <2>2. jobs \in Tables /\ clock \in 0 .. clock' /\ clock' = clock /\ jobs' = jobs
    BY <1>1, <1>2
  <2>3. \E c \in 0 .. clock' : Since(jobs, c)'
    BY <2>1, <2>2
  <2>4. DigestOf(jobs)' = DigestOf(jobs)
    BY <2>2
  <2> QED BY <1>2, <1>3, <2>2, <2>3, <2>4 DEF Polled
<1>5. Streamed'
  BY <1>2 DEF LiveInv, Streamed
<1> QED BY <1>2, <1>3, <1>4, <1>5, SameNumbered, SameRequested DEF LiveInv

LEMMA PollBoardsKeeps ==
  ASSUME LiveInv, PollBoards
  PROVE  LiveInv'
<1>1. /\ fp' = [fp EXCEPT !.boards = <<BoardKey>>]
      /\ UNCHANGED <<jobs, clock, board, conn, route, view, fetch, got, polled>>
      /\ between' \in BOOLEAN
      /\ untold' = IF conn THEN untold \cup ({"boards"} \cap {route}) ELSE {}
  BY DEF PollBoards, Publish, database, browser
<1>2. DOMAIN fp' = {"jobs", "boards"} /\ fp'.jobs = fp.jobs
  BY <1>1 DEF LiveInv
<1>3. Streamed'
  BY <1>1 DEF LiveInv, Streamed
<1> QED BY <1>1, <1>2, <1>3, SamePolled, SameNumbered, SameRequested DEF LiveInv

LEMMA RestartKeeps ==
  ASSUME LiveInv, WebRestart
  PROVE  LiveInv'
<1>1. /\ fp' = [jobs |-> <<>>, boards |-> <<>>] /\ polled' = <<>>
      /\ conn' = FALSE /\ untold' = {} /\ fetch' = <<>> /\ got' = <<>>
      /\ UNCHANGED <<jobs, clock, board, view>> /\ between' = FALSE
  BY DEF WebRestart, database
<1>2. Polled' /\ Requested' /\ Streamed' /\ DOMAIN fp' = {"jobs", "boards"}
  BY <1>1 DEF Polled, Requested, Streamed
<1> QED BY <1>1, <1>2, SameNumbered DEF LiveInv

(* What leaves the database and the poller alone.                          *)
LEMMA WebKeeps ==
  ASSUME LiveInv, UNCHANGED <<database, fp, polled>>, Streamed', Requested', view' \in Views,
         between' \in BOOLEAN
  PROVE  LiveInv'
<1>1. jobs' = jobs /\ clock' = clock /\ board' = board /\ fp' = fp /\ polled' = polled
  BY DEF database
<1> QED BY <1>1, SamePolled, SameNumbered DEF LiveInv

LEMMA StreamKeeps ==
  ASSUME LiveInv, Connect \/ Tell \/ Break \/ RequestFails
  PROVE  LiveInv'
<1>1. UNCHANGED <<database, fp, polled>> /\ view' = view /\ route' = route
      /\ between' \in BOOLEAN
  BY DEF LiveInv, Connect, Tell, Break, RequestFails, Request, browser
<1>2. Requested'
  <2>1. \/ fetch' \in {Queries, <<>>} /\ got' = <<>>
        \/ fetch' = fetch /\ got' = got
    <3>1. CASE Connect \/ Tell
      <4>1. fetch' = Queries' /\ got' = <<>>
        BY <3>1, Zenon DEF Connect, Tell, Request
      <4>2. Queries' = Queries
        BY <1>1 DEF Queries
      <4> QED BY <4>1, <4>2
    <3>2. CASE Break
      BY <3>2 DEF Break, browser
    <3>3. CASE RequestFails
      <4>1. fetch' = <<>> /\ got' = <<>>
        BY <3>3, Zenon DEF RequestFails
      <4> QED BY <4>1
    <3> QED BY <3>1, <3>2, <3>3
  <2>2. Queries' = Queries
    BY <1>1 DEF Queries
  <2> QED BY <1>1, <2>1, <2>2, SameRequested DEF LiveInv, Requested
<1>3. Streamed'
  <2>1. \/ untold' = {} /\ conn' \in BOOLEAN
        \/ untold' = untold /\ conn' = conn
        \/ untold' = untold /\ conn' = TRUE
    BY DEF LiveInv, Streamed, Connect, Tell, Break, RequestFails, stream
  <2> QED BY <1>1, <2>1 DEF LiveInv, Streamed
<1> QED BY <1>1, <1>2, <1>3, WebKeeps DEF LiveInv

(* The requests told apart by what is left of them.                        *)
LEMMA QueriesFacts ==
  /\ Queries \in {ListQueries, SearchQueries, BoardsQueries}
  /\ Len(Queries) # 1
  /\ SearchQueries # ListQueries /\ SearchQueries # BoardsQueries /\ ListQueries # BoardsQueries
  /\ Len(ListQueries) = 3 /\ Tail(ListQueries) = <<"total", "new">>
  /\ Len(SearchQueries) = 2 /\ Tail(SearchQueries) = <<"total">>
  /\ Len(BoardsQueries) = 2 /\ Tail(BoardsQueries) = <<"rows">>
  /\ Len(<<"total", "new">>) = 2 /\ Tail(<<"total", "new">>) = <<"new">>
  /\ \A q \in {"new", "total", "rows"} : Len(<<q>>) = 1 /\ Tail(<<q>>) = <<>>
<1>1. Queries \in {ListQueries, SearchQueries, BoardsQueries}
  BY DEF Queries
<1>2. /\ Len(ListQueries) = 3 /\ Tail(ListQueries) = <<"total", "new">>
      /\ Len(SearchQueries) = 2 /\ Tail(SearchQueries) = <<"total">>
      /\ Len(BoardsQueries) = 2 /\ Tail(BoardsQueries) = <<"rows">>
  BY DEF ListQueries, SearchQueries, BoardsQueries
<1>3. Len(<<"total", "new">>) = 2 /\ Tail(<<"total", "new">>) = <<"new">>
  OBVIOUS
<1>4. \A q \in {"new", "total", "rows"} : Len(<<q>>) = 1 /\ Tail(<<q>>) = <<>>
  OBVIOUS
<1>5. SearchQueries # ListQueries /\ SearchQueries # BoardsQueries /\ ListQueries # BoardsQueries
  <2>1. Tail(SearchQueries) # Tail(BoardsQueries)
    <3>1. <<"total">>[1] # <<"rows">>[1]
      OBVIOUS
    <3> QED BY <1>2, <3>1
  <2>2. Len(SearchQueries) # Len(ListQueries) /\ Len(ListQueries) # Len(BoardsQueries)
    BY <1>2
  <2> QED BY <2>1, <2>2, Zenon
<1>6. Len(Queries) # 1
  <2>1. Len(ListQueries) # 1 /\ Len(SearchQueries) # 1 /\ Len(BoardsQueries) # 1
    BY <1>2
  <2> QED BY <1>1, <2>1, Zenon
<1> QED BY <1>1, <1>2, <1>3, <1>4, <1>5, <1>6

LEMMA RunQueryKeeps ==
  ASSUME LiveInv, RunQuery
  PROVE  LiveInv'
<1>1. UNCHANGED <<database, fp, conn, untold, route, view, polled>> /\ between' \in BOOLEAN
  BY DEF LiveInv, RunQuery, stream
<1>2. Requested'
  <2>1. Queries' = Queries
    BY <1>1 DEF Queries
  <2>2. fetch # <<>> /\ fetch' = Tail(fetch)
    BY DEF RunQuery
  <2>3. Len(fetch) = 1 => got' = <<>>
    BY DEF RunQuery
  <2>4. Len(fetch) # 1 => got' = Append(got, Answer(Head(fetch)))
    BY DEF RunQuery
  <2>5. CASE fetch = Queries /\ got = <<>>
    <3>1. Len(fetch) # 1
      BY <2>5, QueriesFacts, Zenon
    <3>2. \E a : got' = <<a>>
      <4>1. \A x : Append(<<>>, x) = <<x>>
        OBVIOUS
      <4> QED BY <2>4, <2>5, <3>1, <4>1
    <3> QED BY <2>1, <2>2, <2>5, <3>2, QueriesFacts DEF Requested
  <2>6. ASSUME NEW a, Queries = ListQueries, fetch = <<"total", "new">>, got = <<a>>
        PROVE  Requested'
    <3>1. Len(fetch) # 1
      BY <2>6, QueriesFacts
    <3>2. Len(got') = 2
      <4>1. \A x : Len(Append(<<a>>, x)) = 2
        OBVIOUS
      <4> QED BY <2>4, <2>6, <3>1, <4>1
    <3> QED BY <2>1, <2>2, <2>6, <3>2, QueriesFacts DEF Requested
  <2>7. CASE Len(fetch) = 1 /\ Tail(fetch) = <<>>
    BY <2>2, <2>3, <2>7 DEF Requested
  <2>8. Requested
    BY DEF LiveInv
  <2> QED BY <2>2, <2>5, <2>6, <2>7, <2>8, QueriesFacts DEF Requested
<1>3. Streamed'
  BY <1>1, SameStreamed DEF LiveInv
<1> QED BY <1>1, <1>2, <1>3, WebKeeps DEF LiveInv

LEMMA UserKeeps ==
  ASSUME LiveInv, User
  PROVE  LiveInv'
<1>1. /\ UNCHANGED <<database, fp, conn, untold, route, polled>>
      /\ fetch' = Queries' /\ got' = <<>> /\ between' \in BOOLEAN
  BY DEF User, PullNew, TurnPage, Search, Request, stream
<1>2. view' \in Views
  <2>1. clock \in NoPin .. MaxJobs /\ NoPin \in NoPin .. MaxJobs /\ 1 \in 1 .. MaxJobs
    BY LiveTypes, LiveIndexAssumption DEF NoPin
  <2>2. CASE PullNew
    <3>1. [view EXCEPT !.page = 1, !.pin = clock] \in Views
      BY <2>1 DEF LiveInv, Views
    <3> QED BY <2>2, <3>1 DEF PullNew
  <2>3. ASSUME NEW p \in 1 .. MaxJobs, TurnPage(p)
        PROVE  view' \in Views
    <3>1. [view EXCEPT !.page = p] \in Views
      BY DEF LiveInv, Views
    <3> QED BY <2>3, <3>1 DEF TurnPage
  <2>4. ASSUME NEW q \in {"", "passed"}, Search(q)
        PROVE  view' \in Views
    <3>1. [q |-> q, page |-> 1, pin |-> IF q = "" THEN clock ELSE NoPin] \in Views
      BY <2>1 DEF Views
    <3> QED BY <2>4, <3>1 DEF Search
  <2> QED BY <2>2, <2>3, <2>4 DEF User
<1>3. Requested'
  BY <1>1 DEF Requested
<1>4. Streamed'
  BY <1>1, SameStreamed DEF LiveInv
<1> QED BY <1>1, <1>2, <1>3, <1>4, WebKeeps

-----------------------------------------------------------------------------
(* The theorems.                                                           *)

LEMMA LiveInit ==
  ASSUME Init
  PROVE  LiveInv
<1>0. MaxJobs \in Nat \ {0}
  BY LiveIndexAssumption
<1>1. clock \in 0 .. MaxJobs /\ MaxJobs \in Nat /\ 1 \in 1 .. MaxJobs
      /\ jobs = [j \in 1 .. MaxJobs |-> IF j <= clock THEN "submitted" ELSE "none"]
  <2>1. clock \in 0 .. MaxJobs
        /\ jobs = [j \in 1 .. MaxJobs |-> IF j <= clock THEN "submitted" ELSE "none"]
    BY Zenon DEF Init
  <2> QED BY <1>0, <2>1
<1>2. Numbered
  <2>1. jobs \in Tables
    BY <1>1 DEF Tables, JobStates
  <2>2. \A j \in 1 .. MaxJobs : j > clock => jobs[j] = "none"
    BY <1>1
  <2> QED BY <1>1, <2>1, <2>2 DEF Numbered
<1>3. view \in Views
  <2>1. clock \in NoPin .. MaxJobs
    BY <1>1 DEF NoPin
  <2> QED BY <1>1, <2>1 DEF Init, Views
<1>4. Requested /\ Polled /\ Streamed
  BY DEF Init, Requested, Polled, Streamed
<1>5. board \in BoardRows /\ DOMAIN fp = {"jobs", "boards"} /\ between \in BOOLEAN
  BY DEF Init, BoardRows
<1> QED BY <1>2, <1>3, <1>4, <1>5 DEF LiveInv

LEMMA LiveStep ==
  ASSUME LiveInv, [Next]_vars
  PROVE  LiveInv'
<1>1. ASSUME Paavod
      PROVE  LiveInv'
  <2>1. \/ Submit \/ Purge \/ EditHealth
        \/ \E j \in 1 .. MaxJobs :
             \/ EndBuild(j) \/ StartRun(j) \/ CancelPending(j)
             \/ \E s \in Outcomes, counts \in BOOLEAN : Finish(j, s, counts)
    BY <1>1 DEF Paavod
  <2> QED BY <2>1, SubmitKeeps, PurgeKeeps, EditHealthKeeps, JobStepKeeps
<1>2. ASSUME Pipeline
      PROVE  LiveInv'
  BY <1>2, PollJobsKeeps, PollBoardsKeeps, StreamKeeps, RunQueryKeeps DEF Pipeline
<1>3. ASSUME Failure
      PROVE  LiveInv'
  BY <1>3, RestartKeeps, StreamKeeps DEF Failure
<1>4. ASSUME UNCHANGED vars
      PROVE  LiveInv'
  <2>1. UNCHANGED <<database, fp, stream, browser, polled, between>>
    BY <1>4 DEF vars
  <2>2. UNCHANGED <<jobs, clock, board, fp, polled>>
    BY <2>1 DEF database
  <2> QED BY <2>1, <2>2, SamePolled, SameNumbered, PaavodKeeps DEF LiveInv
<1> QED BY <1>1, <1>2, <1>3, <1>4, UserKeeps DEF Next

(* The live index keeps its invariant, for any number of jobs and steps.   *)
THEOREM LiveInvariance == Spec => []LiveInv
<1>1. Init => LiveInv
  BY LiveInit
<1>2. LiveInv /\ [Next]_vars => LiveInv'
  BY LiveStep
<1> QED BY <1>1, <1>2, PTL DEF Spec

(* Every variable keeps its type; a request in flight is an end of its     *)
(* queries.                                                                *)
THEOREM LiveIndexTypes == Spec => []TypeOK
<1>1. ASSUME LiveInv
      PROVE  IsSuffix(fetch, Queries) /\ Len(got) <= Len(Queries)
  <2>1. /\ IsSuffix(<<>>, ListQueries) /\ IsSuffix(<<"new">>, ListQueries)
        /\ IsSuffix(<<"total", "new">>, ListQueries) /\ IsSuffix(ListQueries, ListQueries)
    BY DEF IsSuffix, IsPrefix, Reverse, ListQueries
  <2>2. /\ IsSuffix(<<>>, SearchQueries) /\ IsSuffix(<<"total">>, SearchQueries)
        /\ IsSuffix(SearchQueries, SearchQueries)
    BY DEF IsSuffix, IsPrefix, Reverse, SearchQueries
  <2>3. /\ IsSuffix(<<>>, BoardsQueries) /\ IsSuffix(<<"rows">>, BoardsQueries)
        /\ IsSuffix(BoardsQueries, BoardsQueries)
    BY DEF IsSuffix, IsPrefix, Reverse, BoardsQueries
  <2>4. Requested /\ Len(<<>>) = 0 /\ (\A a : Len(<<a>>) = 1)
    BY <1>1 DEF LiveInv
  <2>5. CASE Queries = ListQueries
    BY <2>1, <2>4, <2>5, QueriesFacts DEF Requested
  <2>6. CASE Queries = SearchQueries
    BY <2>2, <2>4, <2>6, QueriesFacts DEF Requested
  <2>7. CASE Queries = BoardsQueries
    BY <2>3, <2>4, <2>7, QueriesFacts DEF Requested
  <2> QED BY <2>5, <2>6, <2>7, QueriesFacts
<1>2. LiveInv => TypeOK
  BY <1>1 DEF LiveInv, Numbered, Streamed, BoardRows, Views, TypeOK, Tables
<1> QED BY <1>2, LiveInvariance, PTL

(* A poll that finds the digest it found before finds the table unchanged: *)
(* no history of submissions, transitions and purges within a tick gives   *)
(* back every count and every newest submission, however many jobs.        *)
THEOREM DigestsTellTables == Spec => []DigestTellsTables
<1>1. ASSUME LiveInv, fp.jobs = <<Digest>>
      PROVE  polled = <<jobs>>
  <2>1. fp.jobs = <<DigestOf(jobs)>>
    BY <1>1, LiveTypes, DigestIsOfJobs
  <2>2. PICK J \in Tables : /\ polled = <<J>> /\ fp.jobs = <<DigestOf(J)>>
                            /\ \E c \in 0 .. clock : Since(J, c)
    <3>1. Polled /\ fp.jobs # <<>>
      BY <1>1, <2>1 DEF LiveInv
    <3> QED BY <3>1 DEF Polled
  <2>3. DigestOf(J) = DigestOf(jobs)
    BY <2>1, <2>2
  <2>4. J = jobs
    BY <1>1, <2>2, <2>3, SinceIsTold
  <2> QED BY <2>2, <2>4
<1>2. LiveInv => DigestTellsTables
  BY <1>1 DEF DigestTellsTables
<1> QED BY <1>2, LiveInvariance, PTL
===============================================================================
