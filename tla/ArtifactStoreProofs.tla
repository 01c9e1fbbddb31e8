-------------------------- MODULE ArtifactStoreProofs --------------------------
(***************************************************************************)
(* What a job may count on in the artifact store, for any jobs, tars and   *)
(* number of faults.                                                       *)
(***************************************************************************)
EXTENDS ArtifactStore, TLAPS

(* The guard of Claim, kept by every later step of a build.                *)
OneBuilder ==
  \A i, j \in Jobs : job[i] \in Building /\ job[j] \in Building /\ TarOf[i] = TarOf[j]
                       => i = j

(* What is at the path of a job's ELF, at each step from its copy to its   *)
(* run; disturbed or not, a copy that has ended left no half of a file.    *)
ElfKnown ==
  \A j \in Jobs :
    /\ job[j] = "store" => elf[TarOf[j]] # "partial"
    /\ j \notin disturbed =>
         /\ job[j] = "copy" => elf[TarOf[j]] = "partial"
         /\ job[j] \in {"hit", "store", "awaiting_board", "running"} => elf[TarOf[j]] \in Jobs
         /\ job[j] = "running" => flashed[j] = elf[TarOf[j]]

(* A job reads its ELF in its run only.                                    *)
ReadOnce ==
  \A j \in Jobs :
    /\ job[j] \notin {"running", "over"} => flashed[j] = None
    /\ job[j] # "over" => decoded[j] = None

AInv ==
  /\ TypeOK
  /\ OneBuilder
  /\ TarPresent
  /\ TempsReclaimed
  /\ RowsVouchForWholes
  /\ ElfKnown
  /\ ReadOnce
  /\ ReadsAgree

-----------------------------------------------------------------------------
(* Uploads.                                                                *)

LEMMA UploadKeeps ==
  ASSUME NEW j \in Jobs, AInv, Upload(j)
  PROVE  AInv'
<1> USE ArtifactStoreAssumption DEF Upload, At
<1>1. TypeOK'
  BY DEF AInv, TypeOK, ElfStates, JobPcs, Uploading, Building, files, reads
<1>2. OneBuilder' /\ TarPresent' /\ TempsReclaimed'
  BY DEF AInv, TypeOK, OneBuilder, TarPresent, TempsReclaimed, Uploading, Building,
         NeedsTar, files, reads
<1>3. RowsVouchForWholes' /\ ElfKnown'
  BY DEF AInv, TypeOK, ElfStates, RowsVouchForWholes, ElfKnown, OneBuilder,
         ReadOnce, Building, NeedsElf, files, reads
<1>4. ReadOnce' /\ ReadsAgree'
  BY DEF AInv, TypeOK, ElfStates, ReadOnce, ReadsAgree, ElfKnown, Building, files, reads
<1> QED
  BY <1>1, <1>2, <1>3, <1>4 DEF AInv

LEMMA UploadFailsKeeps ==
  ASSUME NEW j \in Jobs, AInv, UploadFails(j)
  PROVE  AInv'
<1> USE ArtifactStoreAssumption DEF UploadFails, At
<1>1. TypeOK'
  BY DEF AInv, TypeOK, ElfStates, JobPcs, Uploading, Building, files, reads
<1>2. OneBuilder' /\ TarPresent' /\ TempsReclaimed'
  BY DEF AInv, TypeOK, OneBuilder, TarPresent, TempsReclaimed, Uploading, Building,
         NeedsTar, files, reads
<1>3. RowsVouchForWholes' /\ ElfKnown'
  BY DEF AInv, TypeOK, ElfStates, RowsVouchForWholes, ElfKnown, OneBuilder,
         ReadOnce, Building, NeedsElf, files, reads
<1>4. ReadOnce' /\ ReadsAgree'
  BY DEF AInv, TypeOK, ElfStates, ReadOnce, ReadsAgree, ElfKnown, Building, files, reads
<1> QED
  BY <1>1, <1>2, <1>3, <1>4 DEF AInv

LEMMA CheckKeeps ==
  ASSUME NEW j \in Jobs, AInv, Check(j)
  PROVE  AInv'
<1> USE ArtifactStoreAssumption DEF Check, At
<1>1. TypeOK'
  BY DEF AInv, TypeOK, ElfStates, JobPcs, Uploading, Building, files, reads
<1>2. OneBuilder' /\ TarPresent' /\ TempsReclaimed'
  BY DEF AInv, TypeOK, OneBuilder, TarPresent, TempsReclaimed, Uploading, Building,
         NeedsTar, files, reads
<1>3. RowsVouchForWholes' /\ ElfKnown'
  BY DEF AInv, TypeOK, ElfStates, RowsVouchForWholes, ElfKnown, OneBuilder,
         ReadOnce, Building, NeedsElf, files, reads
<1>4. ReadOnce' /\ ReadsAgree'
  BY DEF AInv, TypeOK, ElfStates, ReadOnce, ReadsAgree, ElfKnown, Building, files, reads
<1> QED
  BY <1>1, <1>2, <1>3, <1>4 DEF AInv

LEMMA RenameKeeps ==
  ASSUME NEW j \in Jobs, AInv, Rename(j)
  PROVE  AInv'
<1> USE ArtifactStoreAssumption DEF Rename, At
<1>1. TypeOK'
  BY DEF AInv, TypeOK, ElfStates, JobPcs, Uploading, Building, files, reads
<1>2. OneBuilder' /\ TarPresent' /\ TempsReclaimed'
  BY DEF AInv, TypeOK, OneBuilder, TarPresent, TempsReclaimed, Uploading, Building,
         NeedsTar, files, reads
<1>3. RowsVouchForWholes' /\ ElfKnown'
  BY DEF AInv, TypeOK, ElfStates, RowsVouchForWholes, ElfKnown, OneBuilder,
         ReadOnce, Building, NeedsElf, files, reads
<1>4. ReadOnce' /\ ReadsAgree'
  BY DEF AInv, TypeOK, ElfStates, ReadOnce, ReadsAgree, ElfKnown, Building, files, reads
<1> QED
  BY <1>1, <1>2, <1>3, <1>4 DEF AInv

LEMMA InsertKeeps ==
  ASSUME NEW j \in Jobs, AInv, Insert(j)
  PROVE  AInv'
<1> USE ArtifactStoreAssumption DEF Insert, At
<1>1. TypeOK'
  BY DEF AInv, TypeOK, ElfStates, JobPcs, Uploading, Building, files, reads
<1>2. OneBuilder' /\ TarPresent' /\ TempsReclaimed'
  BY DEF AInv, TypeOK, OneBuilder, TarPresent, TempsReclaimed, Uploading, Building,
         NeedsTar, files, reads
<1>3. RowsVouchForWholes' /\ ElfKnown'
  BY DEF AInv, TypeOK, ElfStates, RowsVouchForWholes, ElfKnown, OneBuilder,
         ReadOnce, Building, NeedsElf, files, reads
<1>4. ReadOnce' /\ ReadsAgree'
  BY DEF AInv, TypeOK, ElfStates, ReadOnce, ReadsAgree, ElfKnown, Building, files, reads
<1> QED
  BY <1>1, <1>2, <1>3, <1>4 DEF AInv

LEMMA CancelKeeps ==
  ASSUME NEW j \in Jobs, AInv, Cancel(j)
  PROVE  AInv'
<1> USE ArtifactStoreAssumption DEF Cancel, At
<1>1. TypeOK'
  BY DEF AInv, TypeOK, ElfStates, JobPcs, Uploading, Building, files, reads
<1>2. OneBuilder' /\ TarPresent' /\ TempsReclaimed'
  BY DEF AInv, TypeOK, OneBuilder, TarPresent, TempsReclaimed, Uploading, Building,
         NeedsTar, files, reads
<1>3. RowsVouchForWholes' /\ ElfKnown'
  BY DEF AInv, TypeOK, ElfStates, RowsVouchForWholes, ElfKnown, OneBuilder,
         ReadOnce, Building, NeedsElf, files, reads
<1>4. ReadOnce' /\ ReadsAgree'
  BY DEF AInv, TypeOK, ElfStates, ReadOnce, ReadsAgree, ElfKnown, Building, files, reads
<1> QED
  BY <1>1, <1>2, <1>3, <1>4 DEF AInv

-----------------------------------------------------------------------------
(* Builds.                                                                 *)

LEMMA ClaimKeeps ==
  ASSUME NEW j \in Jobs, AInv, Claim(j)
  PROVE  AInv'
<1> USE ArtifactStoreAssumption DEF Claim, At
<1>1. TypeOK'
  BY DEF AInv, TypeOK, ElfStates, JobPcs, Uploading, Building, files, reads
<1>2. OneBuilder' /\ TarPresent' /\ TempsReclaimed'
  BY DEF AInv, TypeOK, OneBuilder, TarPresent, TempsReclaimed, Uploading, Building,
         NeedsTar, files, reads
<1>3. RowsVouchForWholes' /\ ElfKnown'
  BY DEF AInv, TypeOK, ElfStates, RowsVouchForWholes, ElfKnown, OneBuilder,
         ReadOnce, Building, NeedsElf, files, reads
<1>4. ReadOnce' /\ ReadsAgree'
  BY DEF AInv, TypeOK, ElfStates, ReadOnce, ReadsAgree, ElfKnown, Building, files, reads
<1> QED
  BY <1>1, <1>2, <1>3, <1>4 DEF AInv

LEMMA LookupKeeps ==
  ASSUME NEW j \in Jobs, AInv, Lookup(j)
  PROVE  AInv'
<1> USE ArtifactStoreAssumption DEF Lookup, At
<1>1. TypeOK'
  BY DEF AInv, TypeOK, ElfStates, JobPcs, Uploading, Building, files, reads
<1>2. OneBuilder' /\ TarPresent' /\ TempsReclaimed'
  BY DEF AInv, TypeOK, OneBuilder, TarPresent, TempsReclaimed, Uploading, Building,
         NeedsTar, files, reads
<1>3. RowsVouchForWholes' /\ ElfKnown'
  BY DEF AInv, TypeOK, ElfStates, RowsVouchForWholes, ElfKnown, OneBuilder,
         ReadOnce, Building, NeedsElf, files, reads
<1>4. ReadOnce' /\ ReadsAgree'
  BY DEF AInv, TypeOK, ElfStates, ReadOnce, ReadsAgree, ElfKnown, Building, files, reads
<1> QED
  BY <1>1, <1>2, <1>3, <1>4 DEF AInv

LEMMA HitKeeps ==
  ASSUME NEW j \in Jobs, AInv, Hit(j)
  PROVE  AInv'
<1> USE ArtifactStoreAssumption DEF Hit, At
<1>1. TypeOK'
  BY DEF AInv, TypeOK, ElfStates, JobPcs, Uploading, Building, files, reads
<1>2. OneBuilder' /\ TarPresent' /\ TempsReclaimed'
  BY DEF AInv, TypeOK, OneBuilder, TarPresent, TempsReclaimed, Uploading, Building,
         NeedsTar, files, reads
<1>3. RowsVouchForWholes' /\ ElfKnown'
  BY DEF AInv, TypeOK, ElfStates, RowsVouchForWholes, ElfKnown, OneBuilder,
         ReadOnce, Building, NeedsElf, files, reads
<1>4. ReadOnce' /\ ReadsAgree'
  BY DEF AInv, TypeOK, ElfStates, ReadOnce, ReadsAgree, ElfKnown, Building, files, reads
<1> QED
  BY <1>1, <1>2, <1>3, <1>4 DEF AInv

LEMMA UnpackKeeps ==
  ASSUME NEW j \in Jobs, AInv, Unpack(j)
  PROVE  AInv'
<1> USE ArtifactStoreAssumption DEF Unpack, At
<1>1. TypeOK'
  BY DEF AInv, TypeOK, ElfStates, JobPcs, Uploading, Building, files, reads
<1>2. OneBuilder' /\ TarPresent' /\ TempsReclaimed'
  BY DEF AInv, TypeOK, OneBuilder, TarPresent, TempsReclaimed, Uploading, Building,
         NeedsTar, files, reads
<1>3. RowsVouchForWholes' /\ ElfKnown'
  BY DEF AInv, TypeOK, ElfStates, RowsVouchForWholes, ElfKnown, OneBuilder,
         ReadOnce, Building, NeedsElf, files, reads
<1>4. ReadOnce' /\ ReadsAgree'
  BY DEF AInv, TypeOK, ElfStates, ReadOnce, ReadsAgree, ElfKnown, Building, files, reads
<1> QED
  BY <1>1, <1>2, <1>3, <1>4 DEF AInv

LEMMA BuildFailsKeeps ==
  ASSUME NEW j \in Jobs, AInv, BuildFails(j)
  PROVE  AInv'
<1> USE ArtifactStoreAssumption DEF BuildFails, At
<1>1. TypeOK'
  BY DEF AInv, TypeOK, ElfStates, JobPcs, Uploading, Building, files, reads
<1>2. OneBuilder' /\ TarPresent' /\ TempsReclaimed'
  BY DEF AInv, TypeOK, OneBuilder, TarPresent, TempsReclaimed, Uploading, Building,
         NeedsTar, files, reads
<1>3. RowsVouchForWholes' /\ ElfKnown'
  BY DEF AInv, TypeOK, ElfStates, RowsVouchForWholes, ElfKnown, OneBuilder,
         ReadOnce, Building, NeedsElf, files, reads
<1>4. ReadOnce' /\ ReadsAgree'
  BY DEF AInv, TypeOK, ElfStates, ReadOnce, ReadsAgree, ElfKnown, Building, files, reads
<1> QED
  BY <1>1, <1>2, <1>3, <1>4 DEF AInv

LEMMA CopyBeginsKeeps ==
  ASSUME NEW j \in Jobs, AInv, CopyBegins(j)
  PROVE  AInv'
<1> USE ArtifactStoreAssumption DEF CopyBegins, At
<1>1. TypeOK'
  BY DEF AInv, TypeOK, ElfStates, JobPcs, Uploading, Building, files, reads
<1>2. OneBuilder' /\ TarPresent' /\ TempsReclaimed'
  BY DEF AInv, TypeOK, OneBuilder, TarPresent, TempsReclaimed, Uploading, Building,
         NeedsTar, files, reads
<1>3. RowsVouchForWholes' /\ ElfKnown'
  BY DEF AInv, TypeOK, ElfStates, RowsVouchForWholes, ElfKnown, OneBuilder,
         ReadOnce, Building, NeedsElf, files, reads
<1>4. ReadOnce' /\ ReadsAgree'
  BY DEF AInv, TypeOK, ElfStates, ReadOnce, ReadsAgree, ElfKnown, Building, files, reads
<1> QED
  BY <1>1, <1>2, <1>3, <1>4 DEF AInv

LEMMA CopyEndsKeeps ==
  ASSUME NEW j \in Jobs, AInv, CopyEnds(j)
  PROVE  AInv'
<1> USE ArtifactStoreAssumption DEF CopyEnds, At
<1>1. TypeOK'
  BY DEF AInv, TypeOK, ElfStates, JobPcs, Uploading, Building, files, reads
<1>2. OneBuilder' /\ TarPresent' /\ TempsReclaimed'
  BY DEF AInv, TypeOK, OneBuilder, TarPresent, TempsReclaimed, Uploading, Building,
         NeedsTar, files, reads
<1>3. RowsVouchForWholes' /\ ElfKnown'
  BY DEF AInv, TypeOK, ElfStates, RowsVouchForWholes, ElfKnown, OneBuilder,
         ReadOnce, Building, NeedsElf, files, reads
<1>4. ReadOnce' /\ ReadsAgree'
  BY DEF AInv, TypeOK, ElfStates, ReadOnce, ReadsAgree, ElfKnown, Building, files, reads
<1> QED
  BY <1>1, <1>2, <1>3, <1>4 DEF AInv

LEMMA CopyFailsKeeps ==
  ASSUME NEW j \in Jobs, AInv, CopyFails(j)
  PROVE  AInv'
<1> USE ArtifactStoreAssumption DEF CopyFails, At, Fault
<1>1. TypeOK'
  BY DEF AInv, TypeOK, ElfStates, JobPcs, Uploading, Building, files, reads
<1>2. OneBuilder' /\ TarPresent' /\ TempsReclaimed'
  BY DEF AInv, TypeOK, OneBuilder, TarPresent, TempsReclaimed, Uploading, Building,
         NeedsTar, files, reads
<1>3. RowsVouchForWholes' /\ ElfKnown'
  BY DEF AInv, TypeOK, ElfStates, RowsVouchForWholes, ElfKnown, OneBuilder,
         ReadOnce, Building, NeedsElf, files, reads
<1>4. ReadOnce' /\ ReadsAgree'
  BY DEF AInv, TypeOK, ElfStates, ReadOnce, ReadsAgree, ElfKnown, Building, files, reads
<1> QED
  BY <1>1, <1>2, <1>3, <1>4 DEF AInv

LEMMA StoreKeeps ==
  ASSUME NEW j \in Jobs, AInv, Store(j)
  PROVE  AInv'
<1> USE ArtifactStoreAssumption DEF Store, At
<1>1. TypeOK'
  <2>1. faults' \in 0..MaxFaults
    BY DEF AInv, TypeOK, Fault
  <2>2. job' \in [Jobs -> JobPcs]
    BY DEF AInv, TypeOK, JobPcs, Uploading, Building
  <2> QED
    BY <2>1, <2>2 DEF AInv, TypeOK, files, reads
<1>2. OneBuilder' /\ TarPresent' /\ TempsReclaimed'
  BY DEF AInv, TypeOK, OneBuilder, TarPresent, TempsReclaimed, Uploading, Building,
         NeedsTar, files, reads
<1>3. RowsVouchForWholes' /\ ElfKnown'
  BY DEF AInv, TypeOK, ElfStates, RowsVouchForWholes, ElfKnown, OneBuilder,
         ReadOnce, Building, NeedsElf, files, reads
<1>4. ReadOnce' /\ ReadsAgree'
  BY DEF AInv, TypeOK, ElfStates, ReadOnce, ReadsAgree, ElfKnown, Building, files, reads
<1> QED
  BY <1>1, <1>2, <1>3, <1>4 DEF AInv

-----------------------------------------------------------------------------
(* Runs.                                                                   *)

LEMMA FlashKeeps ==
  ASSUME NEW j \in Jobs, AInv, Flash(j)
  PROVE  AInv'
<1> USE ArtifactStoreAssumption DEF Flash, At
<1>1. TypeOK'
  BY DEF AInv, TypeOK, ElfStates, JobPcs, Uploading, Building, files, reads
<1>2. OneBuilder' /\ TarPresent' /\ TempsReclaimed'
  BY DEF AInv, TypeOK, OneBuilder, TarPresent, TempsReclaimed, Uploading, Building,
         NeedsTar, files, reads
<1>3. RowsVouchForWholes' /\ ElfKnown'
  BY DEF AInv, TypeOK, ElfStates, RowsVouchForWholes, ElfKnown, OneBuilder,
         ReadOnce, Building, NeedsElf, files, reads
<1>4. ReadOnce' /\ ReadsAgree'
  BY DEF AInv, TypeOK, ElfStates, ReadOnce, ReadsAgree, ElfKnown, Building, files, reads
<1> QED
  BY <1>1, <1>2, <1>3, <1>4 DEF AInv

LEMMA DecodeKeeps ==
  ASSUME NEW j \in Jobs, AInv, Decode(j)
  PROVE  AInv'
<1> USE ArtifactStoreAssumption DEF Decode, At
<1>1. TypeOK'
  BY DEF AInv, TypeOK, ElfStates, JobPcs, Uploading, Building, files, reads
<1>2. OneBuilder' /\ TarPresent' /\ TempsReclaimed'
  BY DEF AInv, TypeOK, OneBuilder, TarPresent, TempsReclaimed, Uploading, Building,
         NeedsTar, files, reads
<1>3. RowsVouchForWholes' /\ ElfKnown'
  BY DEF AInv, TypeOK, ElfStates, RowsVouchForWholes, ElfKnown, OneBuilder,
         ReadOnce, Building, NeedsElf, files, reads
<1>4. ReadOnce' /\ ReadsAgree'
  BY DEF AInv, TypeOK, ElfStates, ReadOnce, ReadsAgree, ElfKnown, Building, files, reads
<1> QED
  BY <1>1, <1>2, <1>3, <1>4 DEF AInv

-----------------------------------------------------------------------------
(* Purges and crashes.                                                     *)

LEMMA PurgeRowsKeeps ==
  ASSUME AInv, PurgeRows
  PROVE  AInv'
<1> USE ArtifactStoreAssumption DEF PurgeRows
<1>1. TypeOK'
  <2>1. faults' \in 0..MaxFaults
    BY DEF AInv, TypeOK, Fault
  <2>2. job' \in [Jobs -> JobPcs]
    BY DEF AInv, TypeOK, JobPcs, Uploading, Building
  <2> QED
    BY <2>1, <2>2 DEF AInv, TypeOK, files, reads
<1>2. OneBuilder' /\ TarPresent' /\ TempsReclaimed'
  BY DEF AInv, TypeOK, OneBuilder, TarPresent, TempsReclaimed, Uploading, Building,
         NeedsTar, files, reads
<1>3. RowsVouchForWholes' /\ ElfKnown'
  BY DEF AInv, TypeOK, ElfStates, RowsVouchForWholes, ElfKnown, OneBuilder,
         ReadOnce, Building, NeedsElf, files, reads
<1>4. ReadOnce' /\ ReadsAgree'
  BY DEF AInv, TypeOK, ElfStates, ReadOnce, ReadsAgree, ElfKnown, Building, files, reads
<1> QED
  BY <1>1, <1>2, <1>3, <1>4 DEF AInv

LEMMA WipeUploadsKeeps ==
  ASSUME AInv, WipeUploads
  PROVE  AInv'
<1> USE ArtifactStoreAssumption DEF WipeUploads
<1>1. TypeOK'
  BY DEF AInv, TypeOK, ElfStates, JobPcs, Uploading, Building, files, reads
<1>2. OneBuilder' /\ TarPresent' /\ TempsReclaimed'
  BY DEF AInv, TypeOK, OneBuilder, TarPresent, TempsReclaimed, Uploading, Building,
         NeedsTar, files, reads
<1>3. RowsVouchForWholes' /\ ElfKnown'
  BY DEF AInv, TypeOK, ElfStates, RowsVouchForWholes, ElfKnown, OneBuilder,
         ReadOnce, Building, NeedsElf, files, reads
<1>4. ReadOnce' /\ ReadsAgree'
  BY DEF AInv, TypeOK, ElfStates, ReadOnce, ReadsAgree, ElfKnown, Building, files, reads
<1> QED
  BY <1>1, <1>2, <1>3, <1>4 DEF AInv

LEMMA WipeElfsKeeps ==
  ASSUME AInv, WipeElfs
  PROVE  AInv'
<1> USE ArtifactStoreAssumption DEF WipeElfs
<1>1. TypeOK'
  BY DEF AInv, TypeOK, ElfStates, JobPcs, Uploading, Building, files, reads
<1>2. OneBuilder' /\ TarPresent' /\ TempsReclaimed'
  BY DEF AInv, TypeOK, OneBuilder, TarPresent, TempsReclaimed, Uploading, Building,
         NeedsTar, files, reads
<1>3. RowsVouchForWholes' /\ ElfKnown'
  BY DEF AInv, TypeOK, ElfStates, RowsVouchForWholes, ElfKnown, OneBuilder,
         ReadOnce, Building, NeedsElf, files, reads
<1>4. ReadOnce' /\ ReadsAgree'
  BY DEF AInv, TypeOK, ElfStates, ReadOnce, ReadsAgree, ElfKnown, Building, files, reads
<1> QED
  BY <1>1, <1>2, <1>3, <1>4 DEF AInv

LEMMA RestartKeeps ==
  ASSUME AInv, Restart
  PROVE  AInv'
<1> USE ArtifactStoreAssumption DEF Restart
<1>1. TypeOK'
  <2>1. faults' \in 0..MaxFaults
    BY DEF AInv, TypeOK, Fault
  <2>2. job' \in [Jobs -> JobPcs]
    BY DEF AInv, TypeOK, JobPcs, Uploading, Building
  <2> QED
    BY <2>1, <2>2 DEF AInv, TypeOK, files, reads
<1>2. OneBuilder' /\ TarPresent' /\ TempsReclaimed'
  BY DEF AInv, TypeOK, OneBuilder, TarPresent, TempsReclaimed, Uploading, Building,
         NeedsTar, files, reads
<1>3. RowsVouchForWholes' /\ ElfKnown'
  BY DEF AInv, TypeOK, ElfStates, RowsVouchForWholes, ElfKnown, OneBuilder,
         ReadOnce, Building, NeedsElf, files, reads
<1>4. ReadOnce' /\ ReadsAgree'
  <2>1. SUFFICES ASSUME NEW j \in Jobs
                 PROVE  /\ job'[j] \notin {"running", "over"} => flashed[j] = None
                        /\ job'[j] # "over" => decoded[j] = None
    BY DEF ReadOnce, ReadsAgree, AInv, reads
  <2>2. job'[j] # "over" => job[j] \notin {"running", "over"}
    BY DEF Uploading, Building
  <2> QED
    BY <2>1, <2>2 DEF AInv, ReadOnce
<1> QED
  BY <1>1, <1>2, <1>3, <1>4 DEF AInv

-----------------------------------------------------------------------------
(* The invariant and what follows from it.                                 *)

LEMMA InitHolds ==
  Init => AInv
BY ArtifactStoreAssumption
   DEF Init, AInv, TypeOK, ElfStates, JobPcs, OneBuilder, TarPresent, TempsReclaimed,
       RowsVouchForWholes, ElfKnown, ReadOnce, ReadsAgree, Uploading, Building, NeedsTar

LEMMA StutterKeeps ==
  ASSUME AInv, UNCHANGED vars
  PROVE  AInv'
BY DEF vars, files, reads, AInv, TypeOK, OneBuilder, TarPresent, TempsReclaimed,
       RowsVouchForWholes, ElfKnown, ReadOnce, ReadsAgree

LEMMA NextKeeps ==
  ASSUME AInv, [Next]_vars
  PROVE  AInv'
<1>1. ASSUME NEW j \in Jobs, JobStep(j) PROVE AInv'
  BY <1>1, UploadKeeps, UploadFailsKeeps, CheckKeeps, RenameKeeps,
     InsertKeeps, CancelKeeps, ClaimKeeps, LookupKeeps,
     HitKeeps, UnpackKeeps, BuildFailsKeeps, CopyBeginsKeeps,
     CopyEndsKeeps, CopyFailsKeeps, StoreKeeps, FlashKeeps,
     DecodeKeeps
  DEF JobStep
<1>2. ASSUME PurgeRows \/ WipeUploads \/ WipeElfs \/ Restart PROVE AInv'
  BY <1>2, PurgeRowsKeeps, WipeUploadsKeeps, WipeElfsKeeps, RestartKeeps
<1> QED
  BY <1>1, <1>2, StutterKeeps DEF Next

(* The invariant of the artifact store: it holds in every reachable state.   *)
THEOREM ArtifactInvariance == Spec => []AInv
<1>1. AInv /\ [Next]_vars => AInv'
  BY NextKeeps
<1> QED
  BY InitHolds, <1>1, PTL DEF Spec

(* Every variable of the store keeps its type.                              *)
THEOREM StoreTypesHold == Spec => []TypeOK
<1>1. AInv => TypeOK
  BY DEF AInv
<1> QED
  BY ArtifactInvariance, <1>1, PTL

(* post_jobs: the tar of an accepted job is there until its build reads it, *)
(* but for a purge that was under way when it was accepted.                 *)
THEOREM TarsArePresent == Spec => []TarPresent
<1>1. AInv => TarPresent
  BY DEF AInv
<1> QED
  BY ArtifactInvariance, <1>1, PTL

(* cache_store, cache_lookup: a row never vouches for half an ELF, but for  *)
(* one whose replacement was cut short.                                     *)
THEOREM RowsAreTrue == Spec => []RowsVouchForWholes
<1>1. AInv => RowsVouchForWholes
  BY DEF AInv
<1> QED
  BY ArtifactInvariance, <1>1, PTL

(* RealSession::connect: what was flashed is whole, and what decodes its    *)
(* log, unless its file was wiped or replaced.                              *)
THEOREM RunsReadOneElf == Spec => []ReadsAgree
<1>1. AInv => ReadsAgree
  BY DEF AInv
<1> QED
  BY ArtifactInvariance, <1>1, PTL

(* TempCleanup: no upload leaves its temporary file behind.                 *)
THEOREM TempsAreReclaimed == Spec => []TempsReclaimed
<1>1. AInv => TempsReclaimed
  BY DEF AInv
<1> QED
  BY ArtifactInvariance, <1>1, PTL
=============================================================================
