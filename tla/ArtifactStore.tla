---------------------------- MODULE ArtifactStore ----------------------------
(***************************************************************************)
(* The files paavod keeps beside its database: uploaded tars under         *)
(* uploads/<blake3>.tar, built ELFs under cache/elf/<blake3>.elf, and the  *)
(* build_cache rows that vouch for the ELFs.  A file and the row that      *)
(* names it are written at different moments, by uploads, builds and the   *)
(* purge, any of which a crash may cut short, while runs read the ELF      *)
(* twice: to flash it, and to decode its log.                              *)
(*                                                                         *)
(* Contents are reduced to what tells them apart: an ELF is "none" (no     *)
(* file), "partial" (a copy that is under way or was cut short), or the    *)
(* job that built it.                                                      *)
(***************************************************************************)
EXTENDS Naturals, FiniteSets

CONSTANTS
  Jobs,       (* job ids                                                   *)
  Tars,       (* contents of an uploaded crate, by blake3                  *)
  TarOf,      (* job -> tar                                                *)
  SkipCache,  (* the jobs submitted with skip_cache                        *)
  MaxFaults,  (* bound: crashes, purges, copies and cache rows that fail   *)
  None        (* not read yet                                              *)

ASSUME ArtifactStoreAssumption ==
  /\ TarOf \in [Jobs -> Tars]
  /\ SkipCache \subseteq Jobs
  /\ MaxFaults \in Nat
  /\ None \notin Jobs \cup {"none", "partial"}
  /\ {"none", "partial"} \cap Jobs = {}

VARIABLES
  tmp,      (* jobs with an uploads/.tmp-<id>.tar                          *)
  tar,      (* tars with an uploads/<blake3>.tar                           *)
  elf,      (* tar -> what is at cache/elf/<blake3>.elf                    *)
  row,      (* tars with a build_cache row                                 *)
  job,      (* where a job is, from its upload to its run; see JobPcs      *)
  flashed,  (* job -> the ELF its run flashed                              *)
  decoded,  (* job -> the ELF whose .defmt table decodes its log           *)
  purge,    (* the next step of a purge                                    *)
  faults,
  (* History, for the properties only *)
  torn,     (* tars with a row whose ELF a copy has begun to replace       *)
  disturbed (* jobs that had a file taken away or replaced under them      *)

files == <<tmp, tar, elf, row>>
reads == <<flashed, decoded>>
vars  == <<files, job, reads, purge, faults, torn, disturbed>>

Uploading == {"upload", "rename", "dedup", "insert"}
Building  == {"lookup", "hit", "unpack", "cargo", "copy", "store"}
JobPcs    == {"absent", "dead", "submitted", "awaiting_board", "running", "over"}
               \cup Uploading \cup Building
(* Who counts on the tar, and on the ELF, to stay where they are.          *)
NeedsTar == {"dedup", "insert", "submitted", "lookup", "unpack"}
NeedsElf == {"hit", "copy", "store", "awaiting_board", "running"}

At(j, from, to) == job[j] = from /\ job' = [job EXCEPT ![j] = to]
Fault == faults < MaxFaults /\ faults' = faults + 1

-----------------------------------------------------------------------------
(* POST /jobs.                                                             *)

(* The crate is streamed into a file of its own.                           *)
Upload(j) ==
  /\ At(j, "absent", "upload")
  /\ tmp' = tmp \cup {j}
  /\ UNCHANGED <<tar, elf, row, reads, purge, faults, torn, disturbed>>

(* Any error before the rename: the guard unlinks the file.                *)
UploadFails(j) ==
  /\ At(j, "upload", "over")
  /\ tmp' = tmp \ {j}
  /\ UNCHANGED <<tar, elf, row, reads, purge, faults, torn, disturbed>>

(* Mutant: a tar is known when a job names it.                             *)
CheckByRow(j) ==
  /\ At(j, "upload", IF \E i \in Jobs : TarOf[i] = TarOf[j]
                                        /\ job[i] \in {"submitted"} \cup Building
                     THEN "dedup" ELSE "rename")
  /\ UNCHANGED <<files, reads, purge, faults, torn, disturbed>>

(* final_path.is_file()                                                    *)
Check(j) ==
  /\ At(j, "upload", IF TarOf[j] \in tar THEN "dedup" ELSE "rename")
  /\ UNCHANGED <<files, reads, purge, faults, torn, disturbed>>

(* It replaces a tar that came in since; it fails if its file has gone.    *)
Rename(j) ==
  /\ IF j \in tmp
     THEN At(j, "rename", "insert") /\ tar' = tar \cup {TarOf[j]}
     ELSE At(j, "rename", "over") /\ UNCHANGED tar
  /\ tmp' = tmp \ {j}
  /\ UNCHANGED <<elf, row, reads, purge, faults, torn, disturbed>>

(* Mutant: the guard is disarmed on a dedup hit as well.                   *)
InsertDisarmed(j) ==
  /\ \E to \in {"submitted", "over"} : At(j, "dedup", to) \/ At(j, "insert", to)
  /\ UNCHANGED <<files, reads, purge, faults, torn, disturbed>>

(* enqueue_job inserts the row or refuses; a guard that is still armed     *)
(* unlinks the upload of a tar that was already there.                     *)
Insert(j) ==
  /\ \E to \in {"submitted", "over"} : At(j, "dedup", to) \/ At(j, "insert", to)
  /\ tmp' = tmp \ {j}
  /\ UNCHANGED <<tar, elf, row, reads, purge, faults, torn, disturbed>>

(* cancel_if_pending                                                       *)
Cancel(j) ==
  /\ At(j, "submitted", "over") \/ At(j, "awaiting_board", "over")
  /\ UNCHANGED <<files, reads, purge, faults, torn, disturbed>>

-----------------------------------------------------------------------------
(* A build: cache_lookup, RealBuilder::build, artifact copy, cache_store.  *)

(* Single flight, as Dispatch has it.                                      *)
Claim(j) ==
  /\ At(j, "submitted", IF j \in SkipCache THEN "unpack" ELSE "lookup")
  /\ \A i \in Jobs : job[i] \in Building => TarOf[i] # TarOf[j]
  /\ UNCHANGED <<files, reads, purge, faults, torn, disturbed>>

(* Mutant: the row is believed without a look at the file.                 *)
LookupBlind(j) ==
  /\ At(j, "lookup", IF TarOf[j] \in row THEN "hit" ELSE "unpack")
  /\ disturbed' = IF TarOf[j] \in row \cap torn THEN disturbed \cup {j} ELSE disturbed
  /\ UNCHANGED <<files, reads, purge, faults, torn>>

(* cache_lookup: a row without its file is pruned, and a miss.             *)
Lookup(j) ==
  LET t == TarOf[j]
      hit == t \in row /\ elf[t] # "none"
  IN /\ At(j, "lookup", IF hit THEN "hit" ELSE "unpack")
     /\ row' = IF hit THEN row ELSE row \ {t}
     /\ disturbed' = IF hit /\ t \in torn THEN disturbed \cup {j} ELSE disturbed
     /\ UNCHANGED <<tmp, tar, elf, reads, purge, faults, torn>>

Hit(j) ==
  /\ At(j, "hit", "awaiting_board")
  /\ UNCHANGED <<files, reads, purge, faults, torn, disturbed>>

(* The tar is read and unpacked.                                           *)
Unpack(j) ==
  /\ TarOf[j] \in tar
  /\ At(j, "unpack", "cargo")
  /\ UNCHANGED <<files, reads, purge, faults, torn, disturbed>>

(* No tar, a bad tar, a compile error, or a kill.                          *)
BuildFails(j) ==
  /\ At(j, "unpack", "over") \/ At(j, "cargo", "over")
  /\ UNCHANGED <<files, reads, purge, faults, torn, disturbed>>

(* Mutant: the row is written before the copy.                             *)
CopyBeginsStored(j) ==
  /\ At(j, "cargo", "copy")
  /\ elf' = [elf EXCEPT ![TarOf[j]] = "partial"]
  /\ row' = row \cup {TarOf[j]}
  /\ torn' = IF TarOf[j] \in row THEN torn \cup {TarOf[j]} ELSE torn
  /\ UNCHANGED <<tmp, tar, reads, purge, faults, disturbed>>

(* fs::copy truncates the file in place ...                                *)
CopyBegins(j) ==
  LET t == TarOf[j]
  IN /\ At(j, "cargo", "copy")
     /\ elf' = [elf EXCEPT ![t] = "partial"]
     /\ torn' = IF t \in row THEN torn \cup {t} ELSE torn
     /\ disturbed' = disturbed \cup {i \in Jobs : TarOf[i] = t /\ job[i] \in NeedsElf}
     /\ UNCHANGED <<tmp, tar, row, reads, purge, faults>>

(* ... and writes it, unless it has been unlinked meanwhile.               *)
CopyEnds(j) ==
  LET t == TarOf[j]
  IN /\ At(j, "copy", "store")
     /\ elf' = [elf EXCEPT ![t] = IF @ = "partial" THEN j ELSE @]
     /\ torn' = torn \ {t}
     /\ UNCHANGED <<tmp, tar, row, reads, purge, faults, disturbed>>

(* The disk is full: what was written stays.                               *)
CopyFails(j) ==
  /\ Fault
  /\ At(j, "copy", "over")
  /\ UNCHANGED <<files, reads, purge, torn, disturbed>>

(* cache_store looks at the file and writes the row; its errors are only   *)
(* logged, the job goes on.                                                *)
Store(j) ==
  /\ At(j, "store", "awaiting_board")
  /\ \/ /\ row' = IF elf[TarOf[j]] # "none" THEN row \cup {TarOf[j]} ELSE row
        /\ UNCHANGED faults
     \/ Fault /\ UNCHANGED row
  /\ UNCHANGED <<tmp, tar, elf, reads, purge, torn, disturbed>>

-----------------------------------------------------------------------------
(* A run: RealSession::connect reads the file twice.                       *)

(* build_loader; without a file the attach fails.                          *)
Flash(j) ==
  /\ At(j, "awaiting_board", IF elf[TarOf[j]] = "none" THEN "over" ELSE "running")
  /\ flashed' = [flashed EXCEPT ![j] = elf[TarOf[j]]]
  /\ UNCHANGED <<files, decoded, purge, faults, torn, disturbed>>

(* fs::read for the .defmt table                                           *)
Decode(j) ==
  /\ At(j, "running", "over")
  /\ decoded' = [decoded EXCEPT ![j] = elf[TarOf[j]]]
  /\ UNCHANGED <<files, flashed, purge, faults, torn, disturbed>>

-----------------------------------------------------------------------------
(* POST /admin/purge: rows under the lock, files after it.                 *)

PurgeRows ==
  /\ Fault
  /\ purge = "idle" /\ purge' = "uploads"
  /\ \A j \in Jobs : job[j] \notin Building \cup {"awaiting_board", "running"}
  /\ job' = [j \in Jobs |-> IF job[j] = "submitted" THEN "over" ELSE job[j]]
  /\ row' = {}
  /\ UNCHANGED <<tmp, tar, elf, reads, torn, disturbed>>

(* A wipe is best effort: what it cannot remove stays.                     *)
WipeUploads ==
  /\ purge = "uploads" /\ purge' = "elfs"
  /\ tar' \in SUBSET tar
  /\ tmp' \in SUBSET tmp
  /\ disturbed' = disturbed \cup {j \in Jobs : job[j] \in NeedsTar}
  /\ UNCHANGED <<elf, row, job, reads, faults, torn>>

WipeElfs ==
  /\ purge = "elfs" /\ purge' = "idle"
  /\ \E wiped \in SUBSET Tars :
       elf' = [t \in Tars |-> IF t \in wiped THEN "none" ELSE elf[t]]
  /\ disturbed' = disturbed \cup {j \in Jobs : job[j] \in NeedsElf}
  /\ UNCHANGED <<tmp, tar, row, job, reads, faults, torn>>

(* paavod dies and starts again: uploads are gone, rows in flight aborted, *)
(* waiting rows and all files stay as they are.                            *)
Restart ==
  /\ Fault
  /\ job' = [j \in Jobs |->
               IF job[j] \in Uploading THEN "dead"
               ELSE IF job[j] \in Building \cup {"running"} THEN "over" ELSE job[j]]
  /\ purge' = "idle"
  /\ UNCHANGED <<files, reads, torn, disturbed>>

-----------------------------------------------------------------------------

Init ==
  /\ tmp = {} /\ tar = {} /\ row = {}
  /\ elf = [t \in Tars |-> "none"]
  /\ job = [j \in Jobs |-> "absent"]
  /\ flashed = [j \in Jobs |-> None] /\ decoded = [j \in Jobs |-> None]
  /\ purge = "idle" /\ faults = 0
  /\ torn = {} /\ disturbed = {}

JobStep(j) ==
  \/ Upload(j) \/ UploadFails(j) \/ Check(j) \/ Rename(j) \/ Insert(j) \/ Cancel(j)
  \/ Claim(j) \/ Lookup(j) \/ Hit(j) \/ Unpack(j) \/ BuildFails(j)
  \/ CopyBegins(j) \/ CopyEnds(j) \/ CopyFails(j) \/ Store(j)
  \/ Flash(j) \/ Decode(j)

Next ==
  \/ \E j \in Jobs : JobStep(j)
  \/ PurgeRows \/ WipeUploads \/ WipeElfs
  \/ Restart

Spec == Init /\ [][Next]_vars

-----------------------------------------------------------------------------
(* Properties.                                                             *)

ElfStates == {"none", "partial"} \cup Jobs

TypeOK ==
  /\ tmp \subseteq Jobs /\ tar \subseteq Tars /\ row \subseteq Tars /\ torn \subseteq Tars
  /\ elf \in [Tars -> ElfStates]
  /\ job \in [Jobs -> JobPcs]
  /\ flashed \in [Jobs -> ElfStates \cup {None}]
  /\ decoded \in [Jobs -> ElfStates \cup {None}]
  /\ purge \in {"idle", "uploads", "elfs"}
  /\ faults \in 0..MaxFaults
  /\ disturbed \subseteq Jobs

(* A job that still needs its tar has it, whichever uploads of the same    *)
(* crate raced with its own and whoever unlinked what: only a purge that   *)
(* had let it in can take it away.                                         *)
TarPresent ==
  \A j \in Jobs \ disturbed : job[j] \in NeedsTar => TarOf[j] \in tar

(* A row vouches for a whole ELF (or one that is missing, which a lookup   *)
(* notices): a copy that failed or died is never believed, except where    *)
(* it had begun to replace an ELF that already had its row.                *)
RowsVouchForWholes ==
  \A t \in row \ torn : elf[t] # "partial"

(* A run flashes a whole ELF and decodes its log with the table of the     *)
(* same one, unless a file it counts on was wiped or replaced under it.    *)
ReadsAgree ==
  \A j \in Jobs \ disturbed :
    /\ flashed[j] \in Jobs \cup {None}
    /\ decoded[j] \in {None, flashed[j]}

(* Every upload removes its temporary file, whatever way it ends, but for  *)
(* those a crash cut short.                                                *)
TempsReclaimed == \A j \in tmp : job[j] \in Uploading \cup {"dead"}
=============================================================================
