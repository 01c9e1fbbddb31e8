----------------------------- MODULE IntakeProofs -----------------------------
(***************************************************************************)
(* What the inventory cache, the board table and the schedule row tell,    *)
(* for any boards, operators, selectors, corpus and number of faults.      *)
(***************************************************************************)
EXTENDS Intake, FiniteSetTheorems, TLAPS

(* A request that is open asks for something.                              *)
EditsAsk == \A o \in Operators : edit[o].at # "none" => edit[o].op \in Ops

(* A corpus run enqueues no crate twice.                                   *)
NightCounts ==
  /\ Cardinality(crate) <= 1
  /\ enqueued + Cardinality(left) + Cardinality(crate) <= Cardinality(Crates)

(* The schedule row and the run that stamps it.                            *)
NightKnown ==
  /\ triggered = fires /\ completed <= fires
  /\ night = "corpus" => completed < fires /\ lastNight = "cut"
  /\ night = "over" =>
       /\ left = {} /\ crate = {} /\ enqueued = 0
       /\ fires > 0 => (completed = fires <=> lastNight = "whole")

IInv ==
  /\ TypeOK
  /\ EditsAsk
  /\ CacheTellsEdits
  /\ NightCounts
  /\ NightKnown

-----------------------------------------------------------------------------
(* What a part of the invariant depends on.                                *)

Fleets   == <<table, cache, edit, stale>>
Nights   == <<triggered, completed, nightly, fires, lastNight>>

LEMMA BoundsTyped ==
  MaxJobs \in Nat /\ MaxEdits \in Nat /\ MaxFires \in Nat /\ MaxFaults \in Nat
BY IntakeAssumption

LEMMA FleetFrame ==
  ASSUME IInv, UNCHANGED Fleets
  PROVE  EditsAsk' /\ CacheTellsEdits'
BY DEF IInv, Fleets, EditsAsk, CacheTellsEdits, Listed, NoEdit

LEMMA NightFrame ==
  ASSUME IInv, UNCHANGED Nights
  PROVE  NightCounts' /\ NightKnown'
BY DEF IInv, Nights, nightly, NightCounts, NightKnown

LEMMA InsertTyped ==
  ASSUME IInv, NEW sel \in Selectors, Insert(sel)
  PROVE  waiting' \in [Selectors -> 0 .. MaxJobs]
BY IntakeAssumption DEF IInv, TypeOK, Insert

(* The parts of a set that is taken apart.                                 *)
LEMMA CratesCount ==
  ASSUME IInv
  PROVE  /\ IsFiniteSet(left) /\ Cardinality(left) \in Nat
         /\ IsFiniteSet(crate) /\ Cardinality(crate) \in Nat
         /\ Cardinality(Crates) \in Nat
         /\ Cardinality({}) = 0
         /\ \A c \in left : Cardinality(left \ {c}) = Cardinality(left) - 1
         /\ \A c \in Crates : Cardinality({c}) = 1
         /\ crate # {} => Cardinality(crate) >= 1
<1>1. left \subseteq Crates /\ crate \subseteq Crates
  BY DEF IInv, TypeOK
<1>2. IsFiniteSet(left) /\ IsFiniteSet(crate)
  BY <1>1, FS_Subset, IntakeAssumption
<1>3. /\ Cardinality(left) \in Nat
      /\ Cardinality(crate) \in Nat
      /\ Cardinality(Crates) \in Nat
  BY <1>2, FS_CardinalityType, IntakeAssumption
<1>4. \A c \in left : Cardinality(left \ {c}) = Cardinality(left) - 1
  BY <1>2, FS_RemoveElement
<1>5. \A c \in Crates : Cardinality({c}) = 1
  BY FS_Singleton
<1>6. Cardinality({}) = 0
  BY FS_EmptySet
<1>7. crate # {} => Cardinality(crate) >= 1
  BY <1>2, <1>3, FS_EmptySet
<1> QED
  BY <1>2, <1>3, <1>4, <1>5, <1>6, <1>7

-----------------------------------------------------------------------------
(* Edits of the fleet.                                                      *)

LEMMA AskKeeps ==
  ASSUME NEW o \in Operators, NEW op \in Ops, NEW on \in SUBSET Boards,
         IInv, Ask(o, op, on)
  PROVE  IInv'
<1> USE IntakeAssumption, BoundsTyped DEF Ask
<1>1. TypeOK'
  BY DEF IInv, TypeOK, Listed, nightly, database, history
<1>2. EditsAsk'
  BY DEF IInv, TypeOK, EditsAsk, NoEdit, Ops, database, history
<1>3. CacheTellsEdits'
  BY DEF IInv, TypeOK, EditsAsk, CacheTellsEdits, Listed, NoEdit, database, history
<1>4. NightCounts' /\ NightKnown'
  BY NightFrame DEF Nights, database, history
<1> QED
  BY <1>1, <1>2, <1>3, <1>4 DEF IInv

LEMMA CommitKeeps ==
  ASSUME NEW o \in Operators, IInv, Commit(o)
  PROVE  IInv'
<1> USE IntakeAssumption, BoundsTyped DEF Commit
<1>1. edit[o].op \in Ops /\ edit[o].on \subseteq Boards
  BY DEF IInv, TypeOK, EditsAsk
<1>2. TypeOK'
  <2>1. table' \in [Boards -> {"absent", "healthy", "quarantined"}]
    BY <1>1 DEF IInv, TypeOK, After, Ops
  <2>2. waiting' \in [Selectors -> 0 .. MaxJobs]
    BY DEF IInv, TypeOK
  <2>3. used' \subseteq Listed'
    <3>1. CASE edit[o].op = "purge"
      BY <3>1
    <3>2. CASE edit[o].op # "purge"
      <4> SUFFICES ASSUME NEW b \in used PROVE b \in Boards /\ table'[b] # "absent"
        BY <3>2 DEF Listed
      <4>1. b \in Boards /\ table[b] # "absent"
        BY DEF IInv, TypeOK, Listed
      <4>2. b \in edit[o].on => After(edit[o].op) # "absent"
        BY <1>1, <3>2 DEF Allowed, After, Ops
      <4> QED
        BY <4>1, <4>2
    <3> QED
      BY <3>1, <3>2
  <2>4. edit' \in [Operators -> [at : {"none", "asked", "committed"},
                                   op : Ops \cup {"none"}, on : SUBSET Boards]]
    BY DEF IInv, TypeOK
  <2> QED
    BY <2>1, <2>2, <2>3, <2>4 DEF IInv, TypeOK, nightly, history
<1>3. EditsAsk'
  BY <1>1 DEF IInv, TypeOK, EditsAsk, NoEdit, Ops
<1>4. CacheTellsEdits'
  <2> SUFFICES ASSUME ~stale, NEW b \in Boards,
                      \A p \in Operators : ~(edit'[p].at = "committed" /\ b \in edit'[p].on)
               PROVE  b \in cache <=> table'[b] # "absent"
    BY DEF CacheTellsEdits, Listed, history
  <2>1. b \notin edit[o].on
    BY DEF IInv, TypeOK
  <2>2. \A p \in Operators : ~(edit[p].at = "committed" /\ b \in edit[p].on)
    BY DEF IInv, TypeOK
  <2>3. table'[b] = table[b]
    BY <2>1
  <2> QED
    BY <2>2, <2>3 DEF IInv, CacheTellsEdits, Listed
<1>5. NightCounts' /\ NightKnown'
  BY NightFrame DEF Nights, history
<1> QED
  BY <1>2, <1>3, <1>4, <1>5 DEF IInv

LEMMA RefuseKeeps ==
  ASSUME NEW o \in Operators, IInv, Refuse(o)
  PROVE  IInv'
<1> USE IntakeAssumption, BoundsTyped DEF Refuse
<1>1. TypeOK'
  BY DEF IInv, TypeOK, Listed, NoEdit, nightly, database, history
<1>2. EditsAsk'
  BY DEF IInv, TypeOK, EditsAsk, NoEdit, Ops, database, history
<1>3. CacheTellsEdits'
  BY DEF IInv, TypeOK, EditsAsk, CacheTellsEdits, Listed, NoEdit, database, history
<1>4. NightCounts' /\ NightKnown'
  BY NightFrame DEF Nights, database, history
<1> QED
  BY <1>1, <1>2, <1>3, <1>4 DEF IInv

LEMMA RefreshKeeps ==
  ASSUME NEW o \in Operators, IInv, Refresh(o)
  PROVE  IInv'
<1> USE IntakeAssumption, BoundsTyped DEF Refresh
<1>1. TypeOK'
  BY DEF IInv, TypeOK, Listed, NoEdit, nightly, database, history
<1>2. EditsAsk'
  BY DEF IInv, TypeOK, EditsAsk, NoEdit, Ops, database, history
<1>3. CacheTellsEdits'
  BY DEF IInv, TypeOK, EditsAsk, CacheTellsEdits, Listed, NoEdit, database, history
<1>4. NightCounts' /\ NightKnown'
  BY NightFrame DEF Nights, database, history
<1> QED
  BY <1>1, <1>2, <1>3, <1>4 DEF IInv

LEMMA RefreshFailsKeeps ==
  ASSUME NEW o \in Operators, IInv, RefreshFails(o)
  PROVE  IInv'
<1> USE IntakeAssumption, BoundsTyped DEF RefreshFails
<1>1. TypeOK'
  BY DEF IInv, TypeOK, Listed, NoEdit, nightly, database, history
<1>2. EditsAsk'
  BY DEF IInv, TypeOK, EditsAsk, NoEdit, Ops, database, history
<1>3. CacheTellsEdits'
  BY DEF IInv, TypeOK, EditsAsk, CacheTellsEdits, Listed, NoEdit, database, history
<1>4. NightCounts' /\ NightKnown'
  BY NightFrame DEF Nights, database, history
<1> QED
  BY <1>1, <1>2, <1>3, <1>4 DEF IInv

-----------------------------------------------------------------------------
(* Submissions, and what the boards take of them.                           *)

LEMMA UploadKeeps ==
  ASSUME NEW sel \in Selectors, IInv, Upload(sel)
  PROVE  IInv'
<1> USE IntakeAssumption, BoundsTyped DEF Upload
<1>1. TypeOK'
  BY DEF IInv, TypeOK, Listed, Nobody, nightly, database, history
<1>2. EditsAsk' /\ CacheTellsEdits'
  BY FleetFrame DEF Fleets, database, history
<1>3. NightCounts' /\ NightKnown'
  BY NightFrame DEF Nights, database, history
<1> QED
  BY <1>1, <1>2, <1>3 DEF IInv

LEMMA PreCheckKeeps ==
  ASSUME IInv, PreCheck
  PROVE  IInv'
<1> USE IntakeAssumption, BoundsTyped DEF PreCheck
<1>1. TypeOK'
  BY DEF IInv, TypeOK, Listed, Nobody, nightly, database, history
<1>2. EditsAsk' /\ CacheTellsEdits'
  BY FleetFrame DEF Fleets, database, history
<1>3. NightCounts' /\ NightKnown'
  BY NightFrame DEF Nights, database, history
<1> QED
  BY <1>1, <1>2, <1>3 DEF IInv

LEMMA EnqueueKeeps ==
  ASSUME IInv, Enqueue
  PROVE  IInv'
<1> USE IntakeAssumption, BoundsTyped DEF Enqueue
<1>1. TypeOK'
  <2>1. waiting' \in [Selectors -> 0 .. MaxJobs]
    <3>1. CASE Matches(submission.sel, cache)
      <4>1. submission.sel \in Selectors
        BY <3>1 DEF Matches, IInv, TypeOK
      <4> QED
        BY <3>1, <4>1, InsertTyped
    <3> QED
      BY <3>1 DEF IInv, TypeOK
  <2> QED
    BY <2>1 DEF IInv, TypeOK, Listed, Nobody, nightly, history
<1>2. EditsAsk' /\ CacheTellsEdits'
  BY FleetFrame DEF Fleets, database, history
<1>3. NightCounts' /\ NightKnown'
  BY NightFrame DEF Nights, database, history
<1> QED
  BY <1>1, <1>2, <1>3 DEF IInv

LEMMA RunKeeps ==
  ASSUME NEW sel \in Selectors, NEW b \in Boards, IInv, Run(sel, b)
  PROVE  IInv'
<1> USE IntakeAssumption, BoundsTyped DEF Run
<1>1. TypeOK'
  <2>1. waiting' \in [Selectors -> 0 .. MaxJobs]
    BY DEF IInv, TypeOK
  <2> QED
    BY <2>1 DEF IInv, TypeOK, Listed, nightly, history
<1>2. EditsAsk' /\ CacheTellsEdits'
  BY FleetFrame DEF Fleets, database, history
<1>3. NightCounts' /\ NightKnown'
  BY NightFrame DEF Nights, database, history
<1> QED
  BY <1>1, <1>2, <1>3 DEF IInv

-----------------------------------------------------------------------------
(* The nightly corpus run.                                                 *)

LEMMA FireKeeps ==
  ASSUME IInv, Fire
  PROVE  IInv'
<1> USE IntakeAssumption, BoundsTyped DEF Fire
<1>1. NightCounts'
  <2>1. enqueued' = 0 /\ crate' = {} /\ left' = Crates
    BY DEF IInv, NightKnown
  <2> QED
    BY <2>1, CratesCount DEF NightCounts
<1>2. TypeOK'
  BY <1>1, CratesCount DEF IInv, TypeOK, Listed, NightCounts, NightOver, database, history
<1>3. EditsAsk' /\ CacheTellsEdits'
  BY FleetFrame DEF Fleets, database, history
<1>4. NightKnown'
  BY DEF IInv, TypeOK, NightKnown, NightOver, database, history
<1> QED
  BY <1>1, <1>2, <1>3, <1>4 DEF IInv

LEMMA CorpusFailsKeeps ==
  ASSUME IInv, CorpusFails
  PROVE  IInv'
<1> USE IntakeAssumption, BoundsTyped DEF CorpusFails
<1>1. NightCounts'
  BY CratesCount DEF IInv, TypeOK, NightCounts, NightOver, database, history
<1>2. TypeOK'
  BY <1>1, CratesCount DEF IInv, TypeOK, Listed, NightCounts, NightOver, database, history
<1>3. EditsAsk' /\ CacheTellsEdits'
  BY FleetFrame DEF Fleets, database, history
<1>4. NightKnown'
  BY DEF IInv, TypeOK, NightKnown, NightOver, database, history
<1> QED
  BY <1>1, <1>2, <1>3, <1>4 DEF IInv

LEMMA TarCrateKeeps ==
  ASSUME NEW c \in Crates, IInv, TarCrate(c)
  PROVE  IInv'
<1> USE IntakeAssumption, BoundsTyped DEF TarCrate
<1>1. NightCounts'
  BY CratesCount DEF IInv, TypeOK, NightCounts, NightOver, database, history
<1>2. TypeOK'
  BY <1>1, CratesCount DEF IInv, TypeOK, Listed, NightCounts, NightOver, database, history
<1>3. EditsAsk' /\ CacheTellsEdits'
  BY FleetFrame DEF Fleets, database, history
<1>4. NightKnown'
  BY DEF IInv, TypeOK, NightKnown, NightOver, database, history
<1> QED
  BY <1>1, <1>2, <1>3, <1>4 DEF IInv

LEMMA SkipCrateKeeps ==
  ASSUME NEW c \in Crates, IInv, SkipCrate(c)
  PROVE  IInv'
<1> USE IntakeAssumption, BoundsTyped DEF SkipCrate
<1>1. NightCounts'
  BY CratesCount DEF IInv, TypeOK, NightCounts, NightOver, database, history
<1>2. TypeOK'
  BY <1>1, CratesCount DEF IInv, TypeOK, Listed, NightCounts, NightOver, database, history
<1>3. EditsAsk' /\ CacheTellsEdits'
  BY FleetFrame DEF Fleets, database, history
<1>4. NightKnown'
  BY DEF IInv, TypeOK, NightKnown, NightOver, database, history
<1> QED
  BY <1>1, <1>2, <1>3, <1>4 DEF IInv

LEMMA EnqueueCrateKeeps ==
  ASSUME IInv, EnqueueCrate
  PROVE  IInv'
<1> USE IntakeAssumption, BoundsTyped DEF EnqueueCrate
<1>1. NightCounts'
  BY CratesCount DEF IInv, TypeOK, NightCounts, NightOver, database, history
<1>2. TypeOK'
  <2>1. waiting' \in [Selectors -> 0 .. MaxJobs]
    BY InsertTyped DEF IInv, TypeOK
  <2> QED
    BY <2>1, <1>1, CratesCount DEF IInv, TypeOK, Listed, NightCounts, history
<1>3. EditsAsk' /\ CacheTellsEdits'
  BY FleetFrame DEF Fleets, database, history
<1>4. NightKnown'
  BY DEF IInv, TypeOK, NightKnown, NightOver, database, history
<1> QED
  BY <1>1, <1>2, <1>3, <1>4 DEF IInv

LEMMA EndNightKeeps ==
  ASSUME IInv, EndNight
  PROVE  IInv'
<1> USE IntakeAssumption, BoundsTyped DEF EndNight
<1>1. NightCounts'
  BY CratesCount DEF IInv, TypeOK, NightCounts, NightOver, database, history
<1>2. TypeOK'
  BY <1>1, CratesCount DEF IInv, TypeOK, Listed, NightCounts, NightOver, database, history
<1>3. EditsAsk' /\ CacheTellsEdits'
  BY FleetFrame DEF Fleets, database, history
<1>4. NightKnown'
  <2>1. /\ triggered = fires /\ completed < fires
        /\ completed \in Nat /\ triggered \in Nat /\ fires \in Nat
    BY DEF IInv, TypeOK, NightKnown
  <2>2. CASE enqueued > 0
    <3>1. completed' = fires /\ triggered' = fires
      BY <2>1, <2>2 DEF IInv, TypeOK
    <3> QED
      BY <2>1, <2>2, <3>1 DEF NightKnown, NightOver, history
  <2>3. CASE ~(enqueued > 0)
    BY <2>1, <2>3 DEF NightKnown, NightOver, history
  <2> QED
    BY <2>2, <2>3
<1> QED
  BY <1>1, <1>2, <1>3, <1>4 DEF IInv

-----------------------------------------------------------------------------
(* Drain and start.                                                        *)

LEMMA DrainKeeps ==
  ASSUME IInv, Drain
  PROVE  IInv'
<1> USE IntakeAssumption, BoundsTyped DEF Drain
<1>1. TypeOK'
  BY DEF IInv, TypeOK, Listed, Nobody, nightly, database, history
<1>2. EditsAsk' /\ CacheTellsEdits'
  BY FleetFrame DEF Fleets, database, history
<1>3. NightCounts' /\ NightKnown'
  BY NightFrame DEF Nights, database, history
<1> QED
  BY <1>1, <1>2, <1>3 DEF IInv

LEMMA RestartKeeps ==
  ASSUME IInv, Restart
  PROVE  IInv'
<1> USE IntakeAssumption, BoundsTyped DEF Restart
<1>1. NightCounts'
  BY CratesCount DEF IInv, TypeOK, NightCounts, NightOver
<1>2. TypeOK'
  <2>1. /\ table' \in [Boards -> {"absent", "healthy", "quarantined"}]
        /\ used' \subseteq Listed' /\ cache' \subseteq Boards
    BY DEF IInv, TypeOK, Listed, Seeded
  <2>2. faults' \in 0 .. MaxFaults
    BY DEF IInv, TypeOK
  <2>3. edit' \in [Operators -> [at : {"none", "asked", "committed"},
                                   op : Ops \cup {"none"}, on : SUBSET Boards]]
    BY DEF NoEdit
  <2>4. 0 \in 0 .. Cardinality(Crates)
    BY CratesCount
  <2> QED
    BY <2>1, <2>2, <2>3, <2>4 DEF IInv, TypeOK, Nobody, NightOver
<1>3. EditsAsk' /\ CacheTellsEdits'
  BY DEF EditsAsk, CacheTellsEdits, Listed, NoEdit
<1>4. NightKnown'
  <2>1. /\ triggered = fires /\ completed <= fires
        /\ completed = fires /\ fires > 0 => lastNight = "whole"
        /\ lastNight = "whole" /\ fires > 0 => completed = fires
    <3>1. night \in {"over", "corpus"} /\ fires \in Nat /\ completed \in Nat
      BY DEF IInv, TypeOK
    <3> QED
      BY <3>1 DEF IInv, NightKnown
  <2> QED
    BY <2>1 DEF NightKnown, NightOver
<1> QED
  BY <1>1, <1>2, <1>3, <1>4 DEF IInv

-----------------------------------------------------------------------------
(* The invariant and what follows from it.                                 *)

LEMMA InitHolds ==
  Init => IInv
<1> SUFFICES ASSUME Init PROVE IInv
  OBVIOUS
<1>1. Cardinality({}) = 0 /\ Cardinality(Crates) \in Nat
  BY FS_EmptySet, FS_CardinalityType, IntakeAssumption
<1>2. TypeOK
  <2>1. /\ table \in [Boards -> {"absent", "healthy", "quarantined"}]
        /\ used \subseteq Listed /\ cache \subseteq Boards
    BY IntakeAssumption DEF Init, Listed
  <2>2. waiting \in [Selectors -> 0 .. MaxJobs]
    BY BoundsTyped DEF Init
  <2>3. edit \in [Operators -> [at : {"none", "asked", "committed"},
                                  op : Ops \cup {"none"}, on : SUBSET Boards]]
    BY DEF Init, NoEdit
  <2>4. /\ 0 \in 0 .. MaxEdits /\ 0 \in 0 .. MaxFires /\ 0 \in 0 .. MaxFaults
        /\ 0 \in 0 .. Cardinality(Crates)
    BY <1>1, BoundsTyped
  <2> QED
    BY <2>1, <2>2, <2>3, <2>4 DEF TypeOK, Init, Nobody
<1>3. EditsAsk /\ CacheTellsEdits
  BY IntakeAssumption DEF Init, EditsAsk, CacheTellsEdits, Listed, NoEdit
<1>4. NightCounts /\ NightKnown
  BY <1>1 DEF Init, NightCounts, NightKnown
<1> QED
  BY <1>2, <1>3, <1>4 DEF IInv

LEMMA StutterKeeps ==
  ASSUME IInv, UNCHANGED vars
  PROVE  IInv'
<1>1. TypeOK'
  BY DEF IInv, TypeOK, Listed, vars, nightly, database, history
<1>2. EditsAsk' /\ CacheTellsEdits'
  BY FleetFrame DEF Fleets, vars, database, history
<1>3. NightCounts' /\ NightKnown'
  BY NightFrame DEF Nights, nightly, vars, database, history
<1> QED
  BY <1>1, <1>2, <1>3 DEF IInv

LEMMA NextKeeps ==
  ASSUME IInv, [Next]_vars
  PROVE  IInv'
<1>1. ASSUME NEW o \in Operators, Fleet(o) PROVE IInv'
  <2>1. CASE AskPurge(o)
    <3>1. Ask(o, "purge", Boards) /\ "purge" \in Ops
      BY <2>1 DEF AskPurge, Ops
    <3> QED
      BY <3>1, AskKeeps
  <2>2. ASSUME NEW b \in Boards, NEW op \in Ops \ {"purge"}, Ask(o, op, {b}) PROVE IInv'
    <3>1. {b} \in SUBSET Boards
      OBVIOUS
    <3> QED
      BY <2>2, <3>1, AskKeeps
  <2> QED
    BY <1>1, <2>1, <2>2, CommitKeeps, RefuseKeeps, RefreshKeeps, RefreshFailsKeeps DEF Fleet
<1>2. ASSUME NEW sel \in Selectors, Upload(sel) \/ \E b \in Boards : Run(sel, b) PROVE IInv'
  BY <1>2, UploadKeeps, RunKeeps
<1>3. ASSUME Nightly PROVE IInv'
  BY <1>3, FireKeeps, CorpusFailsKeeps, EnqueueCrateKeeps, EndNightKeeps, TarCrateKeeps,
     SkipCrateKeeps DEF Nightly
<1> QED
  BY <1>1, <1>2, <1>3, PreCheckKeeps, EnqueueKeeps, DrainKeeps, RestartKeeps, StutterKeeps DEF Next

(* The invariant of Intake: it holds in every reachable state.               *)
THEOREM IntakeInvariance == Spec => []IInv
<1>1. IInv /\ [Next]_vars => IInv'
  BY NextKeeps
<1> QED
  BY InitHolds, <1>1, PTL DEF Spec

(* Every variable keeps its type; in particular no job row names a board     *)
(* that is not in the table, and no fire enqueues more than its corpus.      *)
THEOREM IntakeTypesHold == Spec => []TypeOK
<1>1. IInv => TypeOK
  BY DEF IInv
<1> QED
  BY IntakeInvariance, <1>1, PTL

(* refresh_inventory: once its edits have been answered, the cache lists a   *)
(* board exactly when the table does, unless the last refresh failed.        *)
THEOREM CacheIsTrue == Spec => []CacheTellsEdits
<1>1. IInv => CacheTellsEdits
  BY DEF IInv
<1> QED
  BY IntakeInvariance, <1>1, PTL

(* run_nightly_corpus: the schedule row tells the last fire, and tells it    *)
(* complete exactly when it was.                                             *)
THEOREM NightsAreTold == Spec => []NightTells
<1>1. IInv => NightTells
  BY DEF IInv, NightKnown, NightTells
<1> QED
  BY IntakeInvariance, <1>1, PTL

(* load_inventory, add_board: nothing but an unquarantine request makes a    *)
(* quarantined board healthy.                                                *)
THEOREM QuarantineIsSticky == Spec => QuarantineSticks
<1> DEFINE Sticks == \A b \in Boards :
                       table[b] = "quarantined" /\ table'[b] = "healthy" =>
                         \E o \in Operators : edit[o].op = "unquarantine" /\ b \in edit[o].on
<1>1. ASSUME IInv, [Next]_vars PROVE [Sticks]_vars
  <2> SUFFICES ASSUME Next, NEW b \in Boards,
                      table[b] = "quarantined", table'[b] = "healthy"
               PROVE  \E o \in Operators : edit[o].op = "unquarantine" /\ b \in edit[o].on
    BY <1>1
  <2>1. ASSUME NEW o \in Operators, Commit(o)
        PROVE  edit[o].op = "unquarantine" /\ b \in edit[o].on
    <3>1. edit[o].op \in Ops /\ table \in [Boards -> {"absent", "healthy", "quarantined"}]
      BY <1>1, <2>1 DEF IInv, TypeOK, EditsAsk, Commit
    <3>2. b \in edit[o].on
      BY <2>1, <3>1 DEF Commit
    <3>3. Allowed(edit[o].op, b) /\ After(edit[o].op) = "healthy"
      BY <2>1, <3>2 DEF Commit
    <3> QED
      BY <3>1, <3>2, <3>3 DEF Allowed, After, Ops
  <2>2. ~Restart
    BY DEF Restart, Seeded
  <2>3. \/ UNCHANGED table
        \/ \E o \in Operators : Commit(o)
    BY <2>2 DEF Next, Fleet, AskPurge, Ask, Refuse, Refresh, RefreshFails, Upload, Run, PreCheck,
           Enqueue, Nightly, Fire, CorpusFails, EnqueueCrate, EndNight, TarCrate, SkipCrate, Drain,
           database
  <2> QED
    BY <2>1, <2>3
<1> QED
  BY <1>1, IntakeInvariance, PTL DEF Spec, QuarantineSticks
=============================================================================
