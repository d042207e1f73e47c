------------------------------ MODULE FileScan ------------------------------
(***************************************************************************)
(* The main traversal: file_list() visits the regular files of one         *)
(* directory, sha512sum() hashes them block by block with periodic         *)
(* checkpoints, db_save_file_record() writes rows, and the batch           *)
(* transaction of db_file_transaction.c makes them durable.  The program   *)
(* runs again and again on the same database while the file system changes *)
(* under it, Ctrl+C arrives, reads and SQLite calls fail, and the process  *)
(* is killed.                                                              *)
(*                                                                         *)
(* The program is one thread, so a step ends only where another actor (the *)
(* file system, the signal handler, a crash) can make a difference: after  *)
(* the stat of the directory entries, after the access check, after        *)
(* opening, after each block, before the interrupt flag is looked at again *)
(* and before and after a commit.                                          *)
(***************************************************************************)
EXTENDS Catalog

CONSTANTS
    NoJob,        \* no file is being processed
    Contents,     \* contents a file can have: sequences over Block
    Unseekable,   \* files on which fseek() fails
    RunOptions,   \* command lines a run can be started with
    EditKinds,    \* what the file system may do: see the actions Env*
    MaxRuns,      \* bound: number of runs of the program
    MaxEdits,     \* bound: number of changes made to the file system
    MaxFaults     \* bound: crashes, failed reads and failed SQLite calls

ASSUME ScanAssumption ==
    /\ Contents \subseteq Seq(Block)
    /\ Unseekable \subseteq Files
    /\ RunOptions \subseteq Options
    /\ MaxRuns \in Nat /\ MaxEdits \in Nat /\ MaxFaults \in Nat

VARIABLES
    (* the file system *)
    disk,         \* content and metadata of each file
    access,       \* what faccessat() and openat() answer for each file
    rotted,       \* files whose content changed with no trace in their metadata
    clock,        \* the last time stamp the file system gave out
    (* the primary database *)
    durable,      \* rows a new connection would see
    working,      \* rows this connection sees
    active,       \* config->file_transaction_active
    autocommit,   \* sqlite3_get_autocommit() # 0
    (* the program *)
    pc,           \* where the traversal stands
    opts,         \* options of the current run
    interrupted,  \* global_interrupt_flag
    pending,      \* directory entries fts_read() has still to return
    snap,         \* fts_statp of each entry, taken when the directory was read
    job,          \* struct File of the file being processed
    failed,       \* status has FAILURE
    violation,    \* lock_checksum_violation_detected
    (* bookkeeping *)
    calm,         \* nothing but the program has acted since the run began
    sealed,       \* files whose row was sealed when the run began
    runs, edits, faults

envVars   == <<disk, access, rotted, clock, edits>>
storeVars == <<durable, working, active, autocommit>>
flowVars  == <<opts, pending, snap, sealed, runs>>
vars      == <<envVars, storeVars, flowVars, pc, interrupted, job, failed,
               violation, calm, faults>>

-----------------------------------------------------------------------------
(***************************************************************************)
(* State.                                                                  *)
(***************************************************************************)

DiskFile == [data : Seq(Block), blocks : Nat, mtime : Nat, ctime : Nat]

\* struct File: db is the row found when processing began, known is path_known,
\* and a zero sized file is one whose stat says so (stat is snap[file]).
Job == [file : Files, db : Row \cup {NoRow}, known : BOOLEAN, rehash : BOOLEAN,
        offset : Nat, mdContext : Seq(Block), sha512 : Digest,
        read_error : BOOLEAN, wrong_file_type : BOOLEAN]

ASSUME JobAssumption == NoJob \notin Job

ProgramCounter ==
    {"idle", "walk", "open", "hash", "checkpoint", "conclude", "close"}

\* What stat() answers for f now.
StatOf(f) == [size   |-> Len(disk[f].data), blocks |-> disk[f].blocks,
              mtime  |-> disk[f].mtime,     ctime  |-> disk[f].ctime]

BlankStat == [size |-> 0, blocks |-> 0, mtime |-> 0, ctime |-> 0]

\* A row written by an older release: complete, with an unknown block count.
MigratedRow(f) ==
    [stat |-> [StatOf(f) EXCEPT !.blocks = BLKCNT_UNKNOWN],
     offset |-> 0, mdContext |-> << >>,
     sha512 |-> IF disk[f].data = << >> THEN NoDigest ELSE disk[f].data]

Init ==
    /\ disk \in [Files -> {[data |-> d, blocks |-> Len(d), mtime |-> 0, ctime |-> 0] :
                             d \in Contents}]
    /\ access = [f \in Files |-> "ALLOWED"]
    /\ rotted = {}
    /\ clock = 0
    /\ \E legacy \in SUBSET (Files \ Unseekable) :
          durable = [f \in Files |-> IF f \in legacy THEN MigratedRow(f) ELSE NoRow]
    /\ working = durable
    /\ active = FALSE
    /\ autocommit = TRUE
    /\ pc = "idle"
    /\ opts = DefaultOptions
    /\ interrupted = FALSE
    /\ pending = {}
    /\ snap = [f \in Files |-> BlankStat]
    /\ job = NoJob
    /\ failed = FALSE
    /\ violation = FALSE
    /\ calm = TRUE
    /\ sealed = {}
    /\ runs = 0 /\ edits = 0 /\ faults = 0

-----------------------------------------------------------------------------
(***************************************************************************)
(* The batch transaction and the rows it carries.                          *)
(***************************************************************************)

\* Mutant of RecordOf: stat() is called again when the row is saved.
RecordWithNewStat(j) ==
    [stat      |-> StatOf(j.file),
     offset    |-> j.offset,
     mdContext |-> IF j.offset = 0 THEN << >> ELSE j.mdContext,
     sha512    |-> IF j.offset = 0 /\ snap[j.file].size # 0 /\ ~j.wrong_file_type
                   THEN j.sha512 ELSE NoDigest]

\* What db_insert_the_record() and db_update_the_record_by_id() bind: a digest
\* only when the hash is final, the offset and the context only when it is not.
RecordOf(j) ==
    [stat      |-> snap[j.file],
     offset    |-> j.offset,
     mdContext |-> IF j.offset = 0 THEN << >> ELSE j.mdContext,
     sha512    |-> IF j.offset = 0 /\ snap[j.file].size # 0 /\ ~j.wrong_file_type
                   THEN j.sha512 ELSE NoDigest]

\* The rows after the file in hand was inserted or updated.
Written(j) == [working EXCEPT ![j.file] = RecordOf(j)]

\* db_save_file_record(): joins or begins the batch and writes the row; a dry
\* run writes nothing and does not learn that the path is known.
Save(j) ==
    IF opts.dry_run
    THEN UNCHANGED <<working, active, autocommit>>
    ELSE /\ working' = Written(j)
         /\ active' = TRUE
         /\ autocommit' = FALSE

\* SQLite ended the transaction of the active batch by itself.
BatchLost == active /\ autocommit

\* BEGIN, or COMMIT, finds out: the next save or the next commit fails.
FindLost ==
    /\ BatchLost
    /\ failed' = TRUE
    /\ UNCHANGED <<storeVars, calm, faults>>

\* A failed SQLite call: BEGIN, INSERT, UPDATE, SELECT or COMMIT reports an
\* error.  When saving, BEGIN may have succeeded before the statement failed, and
\* on some errors SQLite rolls the open transaction back by itself.
SqliteFails(saving) ==
    /\ faults < MaxFaults
    /\ faults' = faults + 1
    /\ failed' = TRUE
    /\ calm' = FALSE
    /\ \/ UNCHANGED <<working, active, autocommit>>
       \/ saving /\ ~active /\ active' = TRUE /\ autocommit' = FALSE /\ UNCHANGED working
       \/ ~autocommit /\ autocommit' = TRUE /\ working' = durable /\ UNCHANGED active
    /\ UNCHANGED durable

\* A successful db_file_transaction_commit(): nothing happens when no batch is
\* open; otherwise the rows w become durable.
Commit(open, w) ==
    /\ ~BatchLost
    /\ durable' = IF open THEN w ELSE durable
    /\ active' = FALSE
    /\ autocommit' = TRUE

\* db_file_transaction_rollback(), or SQLite closing a connection that still
\* has a transaction open.
Rollback ==
    /\ working' = durable
    /\ active' = FALSE
    /\ autocommit' = TRUE

-----------------------------------------------------------------------------
(***************************************************************************)
(* Start of a run: main() has opened the database, file_list() opens the   *)
(* root and fts_read() stats the entries of the directory.                 *)
(***************************************************************************)

StartRun ==
    /\ pc = "idle"
    /\ runs < MaxRuns
    /\ runs' = runs + 1
    /\ opts' \in RunOptions
    /\ pending' = {f \in Files : access[f] # "NOT_FOUND"}
    /\ snap' = [f \in Files |-> StatOf(f)]
    /\ interrupted' = FALSE /\ failed' = FALSE /\ violation' = FALSE
    /\ calm' = TRUE
    /\ sealed' = {f \in opts'.locked : HoldsDigest(durable[f])}
    /\ pc' = "walk"
    /\ UNCHANGED <<envVars, storeVars, job, faults>>

\* The traversal loop goes on.
Walking == pc = "walk" /\ ~interrupted /\ ~failed

\* db_file_transaction_check() at the head of the loop, the interval elapsed.
BatchDeadline ==
    /\ Walking /\ pending # {} /\ active
    /\ \/ Commit(active, working) /\ UNCHANGED <<working, failed, calm, faults>>
       \/ SqliteFails(FALSE) \/ FindLost
    /\ UNCHANGED <<envVars, flowVars, pc, interrupted, job, violation>>

\* A message about a file is remembered in a temporary table of the same
\* connection.  When that write fails SQLite may end the transaction, and
\* nobody is told.
RememberFails ==
    /\ pc = "walk" /\ ~autocommit
    /\ faults < MaxFaults /\ faults' = faults + 1
    /\ autocommit' = TRUE /\ working' = durable
    /\ calm' = FALSE
    /\ UNCHANGED <<envVars, flowVars, durable, active, pc, interrupted, job, failed, violation>>

-----------------------------------------------------------------------------
(***************************************************************************)
(* One regular file (case FTS_F): the decision.                            *)
(***************************************************************************)

\* FTS returns the entries in the order of their names.
NextEntry(f) == f \in pending /\ \A g \in pending : f <= g

Locked(f) == f \in opts.locked

\* A checksum-locked file stays visible even when --ignore matches it.
IgnoredFile(f) == f \in opts.ignored /\ ~Locked(f)

Ready(f) == LockChecksumReady(Locked(f), working[f])

\* A known locked file that cannot be read.
LockedUnavailable(f) == Locked(f) /\ Known(working[f]) /\ access[f] # "ALLOWED"

\* Mutant of UnchangedAndComplete: a partial hash counts as complete.
UnchangedOnly(f) == Identical(working[f], snap[f])

UnchangedAndComplete(f) ==
    Identical(working[f], snap[f]) /\ ~HasSavedOffset(working[f])

TimestampsChanged(f) == Changes(working[f].stat, snap[f]) \cap {"MTIME", "CTIME"} # {}

SizeChanged(f) == "SIZE" \in Changes(working[f].stat, snap[f])

\* unwatched_metadata_only_changed: only ctime or the block count moved.
UnwatchedOnly(f) ==
    /\ Known(working[f])
    /\ ~Identical(working[f], snap[f])
    /\ ~opts.watch
    /\ Changes(working[f].stat, snap[f]) \cap {"SIZE", "MTIME"} = {}
    /\ ~HasSavedOffset(working[f])

\* Drift of the time stamps of a sealed file that this run does not look at.
LockedDriftOnly(f) ==
    /\ Ready(f) /\ ~opts.watch /\ ~opts.rehash_locked
    /\ TimestampsChanged(f) /\ ~SizeChanged(f)

\* Mutant of UpToDate: --rehash-locked does not reach unchanged files.
UpToDateEvenLocked(f) == UnchangedAndComplete(f) \/ LockedDriftOnly(f)

\* The two early exits that leave the row as it is.
UpToDate(f) ==
    \/ UnchangedAndComplete(f) /\ ~(opts.rehash_locked /\ Ready(f))
    \/ LockedDriftOnly(f)

LockChecksumViolation(f) ==
    /\ Ready(f)
    /\ \/ SizeChanged(f)
       \/ opts.watch /\ ~opts.rehash_locked /\ TimestampsChanged(f)

Rehash(f) ==
    /\ ~UnwatchedOnly(f) \/ (Ready(f) /\ opts.rehash_locked)
    /\ snap[f].size # 0

\* Mutants of CanResume: a changed file is resumed; only a changed file is.
ResumeAnyway(f) == HasSavedOffset(working[f])
ResumeChanged(f) == HasSavedOffset(working[f]) /\ ~Identical(working[f], snap[f])

CanResume(f) == HasSavedOffset(working[f]) /\ Identical(working[f], snap[f])

\* struct File when hashing begins: a saved offset is taken up only together
\* with its context and only while the metadata is identical.
NewJob(f) ==
    [file |-> f, db |-> working[f], known |-> Known(working[f]), rehash |-> Rehash(f),
     offset |-> IF CanResume(f) THEN working[f].offset ELSE 0,
     mdContext |-> IF CanResume(f) THEN working[f].mdContext ELSE << >>,
     sha512 |-> IF Rehash(f) THEN ZeroDigest ELSE LoadedDigest(working[f]),
     read_error |-> FALSE, wrong_file_type |-> FALSE]

LeaveFile(f) ==
    /\ ~LockedUnavailable(f)
    /\ \/ UpToDate(f)
       \/ ~LockChecksumViolation(f) /\ (IgnoredFile(f) \/ access[f] # "ALLOWED")
    /\ UNCHANGED <<pc, job, violation>>

ReportFile(f) ==
    /\ \/ LockedUnavailable(f)
       \/ ~UpToDate(f) /\ LockChecksumViolation(f)
    /\ violation' = TRUE
    /\ UNCHANGED <<pc, job>>

ProcessFile(f) ==
    /\ access[f] = "ALLOWED" /\ ~IgnoredFile(f)
    /\ ~UpToDate(f) /\ ~LockChecksumViolation(f)
    /\ job' = NewJob(f)
    /\ pc' = IF Rehash(f) THEN "open" ELSE "conclude"
    /\ UNCHANGED violation

Visit(f) ==
    /\ Walking
    /\ NextEntry(f)
    /\ pending' = pending \ {f}
    /\ LeaveFile(f) \/ ReportFile(f) \/ ProcessFile(f)
    /\ UNCHANGED <<envVars, storeVars, opts, snap, sealed, runs, interrupted, failed, calm, faults>>

\* db_read_file_data_from() fails: the loop stops.
ReadRowFails ==
    /\ Walking /\ pending # {}
    /\ SqliteFails(FALSE)
    /\ UNCHANGED <<envVars, flowVars, pc, interrupted, job, violation>>

-----------------------------------------------------------------------------
(***************************************************************************)
(* sha512sum().                                                            *)
(***************************************************************************)

PerformHashing == ~opts.dry_run \/ opts.checksums

\* openat() and fseek().  A file that vanished or became unreadable since the
\* access check is a read error; a dry run without checksums goes no further.
OpenFile ==
    /\ pc = "open"
    /\ LET bad == access[job.file] # "ALLOWED"
           odd == ~bad /\ job.file \in Unseekable
       IN /\ job' = [job EXCEPT !.read_error = bad, !.wrong_file_type = odd]
          /\ pc' = IF bad \/ odd \/ ~PerformHashing THEN "conclude" ELSE "hash"
    /\ UNCHANGED <<envVars, storeVars, flowVars, interrupted, failed, violation,
                   calm, faults>>

\* Mutant of StopHashing: the loop over the files goes on without an outcome.
StopAndForget ==
    /\ pc = "hash" /\ interrupted
    /\ pc' = "walk"
    /\ UNCHANGED <<envVars, storeVars, flowVars, interrupted, job, failed,
                   violation, calm, faults>>

\* The head of the read loop sees Ctrl+C: the hash state stays resumable.
StopHashing ==
    /\ pc = "hash" /\ interrupted
    /\ pc' = "conclude"
    /\ UNCHANGED <<envVars, storeVars, flowVars, interrupted, job, failed,
                   violation, calm, faults>>

\* fread() returns a block: offset and context advance together; then either
\* a checkpoint is due or it is not.
HashBlock ==
    /\ pc = "hash" /\ ~interrupted
    /\ job.offset < Len(disk[job.file].data)
    /\ job' = [job EXCEPT !.offset = @ + 1,
                          !.mdContext = Append(@, disk[job.file].data[job.offset + 1])]
    /\ pc' \in {"hash", "checkpoint"}
    /\ UNCHANGED <<envVars, storeVars, flowVars, interrupted, failed, violation,
                   calm, faults>>

\* sha512_final() and checksum_offset = 0.
Finalised(j) == [j EXCEPT !.offset = 0, !.sha512 = j.mdContext]

\* fread() returns nothing: the end of the file as it is now.
HashEof ==
    /\ pc = "hash" /\ ~interrupted
    /\ job.offset >= Len(disk[job.file].data)
    /\ job' = Finalised(job)
    /\ pc' = "conclude"
    /\ UNCHANGED <<envVars, storeVars, flowVars, interrupted, failed, violation,
                   calm, faults>>

\* ferror(): the pass is finalised all the same, and marked.
HashReadError ==
    /\ pc = "hash" /\ ~interrupted
    /\ faults < MaxFaults
    /\ faults' = faults + 1
    /\ job' = [Finalised(job) EXCEPT !.read_error = TRUE]
    /\ pc' = "conclude"
    /\ calm' = FALSE
    /\ UNCHANGED <<envVars, storeVars, flowVars, interrupted, failed, violation>>

\* Mutants of CheckpointAllowed: a dry run checkpoints; a sealed row is overwritten.
CheckpointInDryRun(j) ==
    j.offset > 0 /\ ~(Locked(j.file) /\ Known(j.db) /\ j.db.offset = 0)
CheckpointOverSealed(j) == ~opts.dry_run /\ j.offset > 0

\* periodic_hash_checkpoint_is_allowed(): never in a dry run, never for a sealed
\* row of a checksum-locked file.
CheckpointAllowed(j) ==
    /\ ~opts.dry_run
    /\ j.offset > 0
    /\ ~(Locked(j.file) /\ Known(j.db) /\ j.db.offset = 0)

\* Mutant of Checkpoint: the path stays unknown after its row was inserted.
CheckpointStaysUnknown ==
    /\ pc = "checkpoint"
    /\ IF CheckpointAllowed(job)
       THEN working' = Written(job)
       ELSE UNCHANGED working
    /\ Commit(active \/ CheckpointAllowed(job), working')
    /\ pc' = "hash"
    /\ UNCHANGED <<envVars, flowVars, interrupted, violation, job, failed, calm, faults>>

\* The interval has elapsed: save the partial hash if that is allowed, and
\* commit the batch with whatever it holds.
Checkpoint ==
    /\ pc = "checkpoint"
    /\ \/ /\ IF CheckpointAllowed(job)
             THEN /\ working' = Written(job)
                  /\ job' = [job EXCEPT !.known = TRUE]
             ELSE UNCHANGED <<working, job>>
          /\ Commit(active \/ CheckpointAllowed(job), working')
          /\ pc' = "hash"
          /\ UNCHANGED <<failed, calm, faults>>
       \/ /\ SqliteFails(CheckpointAllowed(job)) \/ FindLost
          /\ job' = NoJob
          /\ pc' = "walk"
    /\ UNCHANGED <<envVars, flowVars, interrupted, violation>>

-----------------------------------------------------------------------------
(***************************************************************************)
(* One regular file: the outcome.                                          *)
(***************************************************************************)

\* Ctrl+C left no resumable hash state: the file is skipped.
NothingToKeep(j) == j.rehash /\ interrupted /\ j.offset = 0

\* Mutant of ChecksumMismatch: a partial row is taken for a reference.
MismatchWithPartial(j) ==
    /\ opts.rehash_locked /\ Locked(j.file) /\ Known(j.db)
    /\ j.rehash /\ ~j.read_error /\ ~j.wrong_file_type
    /\ j.offset = 0
    /\ j.sha512 # LoadedDigest(j.db)

\* locked_checksum_mismatch: a full rehash of a sealed file gave another digest.
ChecksumMismatch(j) ==
    /\ opts.rehash_locked /\ LockChecksumReady(Locked(j.file), j.db)
    /\ j.rehash /\ ~j.read_error /\ ~j.wrong_file_type
    /\ j.offset = 0
    /\ j.sha512 # LoadedDigest(j.db)

\* should_update_db for a known row; the row of an unknown path is inserted.
ShouldSave(j) ==
    \/ ~Known(j.db)
    \/ /\ ~Locked(j.file) \/ opts.rehash_locked \/ HasSavedOffset(j.db)
       /\ \/ j.offset > SavedOffset(j.db)
          \/ HasSavedOffset(j.db) /\ j.offset = 0
          \/ ~Identical(j.db, snap[j.file])

DropFile ==
    /\ NothingToKeep(job) \/ job.read_error
    /\ UNCHANGED <<storeVars, violation, failed, calm, faults>>

ReportMismatch ==
    /\ ~NothingToKeep(job) /\ ChecksumMismatch(job)
    /\ violation' = TRUE
    /\ UNCHANGED <<storeVars, failed, calm, faults>>

SaveFile ==
    /\ ~NothingToKeep(job) /\ ~job.read_error /\ ~ChecksumMismatch(job)
    /\ \/ /\ IF ShouldSave(job) THEN ~BatchLost /\ Save(job)
             ELSE UNCHANGED <<working, active, autocommit>>
          /\ UNCHANGED <<durable, failed, calm, faults>>
       \/ ShouldSave(job) /\ ~opts.dry_run /\ (SqliteFails(TRUE) \/ FindLost)
    /\ UNCHANGED violation

Conclude ==
    /\ pc = "conclude"
    /\ DropFile \/ ReportMismatch \/ SaveFile
    /\ job' = NoJob
    /\ pc' = "walk"
    /\ UNCHANGED <<envVars, flowVars, interrupted>>

-----------------------------------------------------------------------------
(***************************************************************************)
(* End of the traversal and of the process.                                *)
(***************************************************************************)

\* Mutants of FinishScan: the commit is made by run(), which Ctrl+C skips; a failed
\* traversal is never ended.
FinishSkippingCommit ==
    /\ pc = "walk"
    /\ pending = {} \/ interrupted \/ failed
    /\ pc' = "close"
    /\ IF failed \/ interrupted
       THEN Rollback /\ UNCHANGED durable
       ELSE Commit(active, working) /\ UNCHANGED working
    /\ UNCHANGED <<envVars, flowVars, interrupted, job, violation, failed, calm, faults>>
FinishUnlessFailed ==
    /\ pc = "walk"
    /\ pending = {} \/ interrupted
    /\ pc' = "close"
    /\ ~failed /\ Commit(active, working)
    /\ UNCHANGED <<envVars, flowVars, interrupted, job, violation, working, failed, calm,
                   faults>>

\* The loop is over: commit unless something failed, and roll back whatever is
\* still active; a commit that fails at this point loses the batch.
FinishScan ==
    /\ pc = "walk"
    /\ pending = {} \/ interrupted \/ failed
    /\ pc' = "close"
    /\ \/ ~failed /\ Commit(active, working) /\ UNCHANGED <<working, failed, calm, faults>>
       \/ failed /\ Rollback /\ UNCHANGED <<durable, failed, calm, faults>>
       \/ ~failed /\ BatchLost /\ failed' = TRUE /\ Rollback /\ UNCHANGED <<durable, calm, faults>>
       \/ /\ ~failed /\ active /\ faults < MaxFaults
          /\ faults' = faults + 1 /\ failed' = TRUE /\ calm' = FALSE
          /\ Rollback /\ UNCHANGED durable
    /\ UNCHANGED <<envVars, flowVars, interrupted, job, violation>>

\* The process is gone, and with it everything it kept in memory.
ProcessEnds ==
    /\ pc' = "idle"
    /\ opts' = DefaultOptions
    /\ pending' = {}
    /\ snap' = [f \in Files |-> BlankStat]
    /\ job' = NoJob
    /\ interrupted' = FALSE /\ failed' = FALSE /\ violation' = FALSE
    /\ calm' = TRUE
    /\ sealed' = {}

\* The rest of main(): the process ends.
Exit ==
    /\ pc = "close"
    /\ ProcessEnds
    /\ UNCHANGED <<envVars, storeVars, runs, faults>>

\* The signal handler of init_signals().
Interrupt ==
    /\ pc \notin {"idle", "close"} /\ ~interrupted
    /\ interrupted' = TRUE
    /\ calm' = FALSE
    /\ UNCHANGED <<envVars, storeVars, flowVars, pc, job, failed, violation, faults>>

\* The process is killed or the machine stops: SQLite's journal undoes the
\* transaction that was open.
Crash ==
    /\ pc # "idle" /\ faults < MaxFaults
    /\ faults' = faults + 1
    /\ Rollback
    /\ ProcessEnds
    /\ UNCHANGED <<envVars, durable, runs>>

-----------------------------------------------------------------------------
(***************************************************************************)
(* The file system.  Every change that the kernel stamps gets a time stamp *)
(* of its own: two writes are never so close that they share one.          *)
(***************************************************************************)

Edit(kind) ==
    /\ kind \in EditKinds
    /\ edits < MaxEdits
    /\ edits' = edits + 1
    /\ calm' = FALSE
    /\ UNCHANGED <<storeVars, flowVars, pc, interrupted, job, failed, violation, faults>>

\* Ordinary write, truncation or replacement; with the same content, touch.
EnvWrite(f) ==
    /\ Edit("write")
    /\ \E d \in Contents :
         disk' = [disk EXCEPT ![f] = [data |-> d, blocks |-> Len(d),
                                      mtime |-> clock + 1, ctime |-> clock + 1]]
    /\ clock' = clock + 1
    /\ rotted' = rotted \ {f}
    /\ UNCHANGED access

\* chmod, chown, rename: ctime alone.
EnvChmod(f) ==
    /\ Edit("chmod")
    /\ disk' = [disk EXCEPT ![f].ctime = clock + 1]
    /\ clock' = clock + 1
    /\ UNCHANGED <<access, rotted>>

\* The file system allocates the same content differently.
EnvRealloc(f) ==
    /\ Edit("realloc")
    /\ disk' = [disk EXCEPT ![f].blocks = @ + 1]
    /\ UNCHANGED <<access, rotted, clock>>

\* Silent corruption: other content of the same length, the same metadata.
EnvRot(f) ==
    /\ Edit("rot")
    /\ \E d \in Contents :
         /\ Len(d) = Len(disk[f].data) /\ d # disk[f].data
         /\ disk' = [disk EXCEPT ![f].data = d]
    /\ rotted' = rotted \cup {f}
    /\ UNCHANGED <<access, clock>>

\* New content under the old mtime (cp -p, touch -r): only ctime tells.
EnvBackdate(f) ==
    /\ Edit("backdate")
    /\ \E d \in Contents :
         disk' = [disk EXCEPT ![f].data = d, ![f].ctime = clock + 1]
    /\ clock' = clock + 1
    /\ UNCHANGED <<access, rotted>>

\* Permissions of the file or of a directory above it change, or it vanishes.
EnvAccess(f) ==
    /\ Edit("access")
    /\ \E a \in Access : a # access[f] /\ access' = [access EXCEPT ![f] = a]
    /\ UNCHANGED <<disk, rotted, clock>>

Environment ==
    \E f \in Files : \/ EnvWrite(f) \/ EnvChmod(f) \/ EnvRealloc(f) \/ EnvRot(f)
                     \/ EnvBackdate(f) \/ EnvAccess(f)

-----------------------------------------------------------------------------
Program ==
    \/ StartRun \/ BatchDeadline \/ (\E f \in Files : Visit(f)) \/ ReadRowFails
    \/ OpenFile \/ StopHashing \/ HashBlock \/ HashEof \/ HashReadError
    \/ Checkpoint \/ Conclude \/ FinishScan \/ Exit

Next == Program \/ RememberFails \/ Interrupt \/ Crash \/ Environment

Spec == Init /\ [][Next]_vars

\* The program keeps running its own steps; nothing obliges anyone to start a
\* run, to change a file, to press Ctrl+C or to pull the plug.
FairSpec == Spec /\ WF_vars(Program /\ pc # "idle")

-----------------------------------------------------------------------------
(***************************************************************************)
(* Properties.                                                             *)
(***************************************************************************)

\* Every variable has its type, and a file is in hand exactly while one is
\* being processed.
TypeOK ==
    /\ disk \in [Files -> DiskFile]
    /\ access \in [Files -> Access]
    /\ rotted \subseteq Files
    /\ clock \in Nat
    /\ durable \in [Files -> Row \cup {NoRow}]
    /\ working \in [Files -> Row \cup {NoRow}]
    /\ active \in BOOLEAN /\ autocommit \in BOOLEAN
    /\ pc \in ProgramCounter
    /\ opts \in Options
    /\ interrupted \in BOOLEAN /\ failed \in BOOLEAN /\ violation \in BOOLEAN
    /\ calm \in BOOLEAN
    /\ sealed \subseteq Files
    /\ pending \subseteq Files
    /\ snap \in [Files -> CmpctStat]
    /\ job \in Job \cup {NoJob}
    /\ job # NoJob <=> pc \in {"open", "hash", "checkpoint", "conclude"}
    /\ runs \in Nat /\ edits \in Nat /\ faults \in Nat

PrefixOf(s, t) == Len(s) <= Len(t) /\ \A i \in 1..Len(s) : s[i] = t[i]

\* The hash state in row is that of the content d: the digest of all of it, NULL
\* for an empty file, or the context of its first offset blocks.
Describes(row, d) ==
    IF row.offset = 0
    THEN row.sha512 = IF d = << >> THEN NoDigest ELSE d
    ELSE row.offset = Len(row.mdContext) /\ PrefixOf(row.mdContext, d)

\* A row whose stored metadata is that of the file now also has the right hash
\* state for the file's content now: whatever was edited while it was being
\* hashed, wherever the program was interrupted, crashed or failed.  The next
\* run trusts exactly these rows: it skips the complete ones and resumes the
\* partial ones (unchanged_and_complete, can_resume_partial_hash).
RowsAreTrue ==
    \A f \in Files \ (rotted \cup Unseekable) :
        Identical(durable[f], StatOf(f)) => Describes(durable[f], disk[f].data)

\* path_known says whether the row exists, also after a checkpoint inserted it:
\* so no path is inserted twice and no update misses its row.
KnownIsStored == job # NoJob => (job.known <=> Known(working[job.file]))

\* No row disappears during the traversal.  While the metadata stays the same, a
\* committed row never loses hashing work: a complete row stays complete and a saved
\* offset only grows until it is complete.  (Only --rehash-locked starts again, and
\* only on the files it is about: SealedIsKept says what that costs.)
NoRegress ==
    [][\A f \in Files : Known(durable[f]) =>
          /\ Known(durable[f]')
          /\ durable[f]'.stat = durable[f].stat /\ ~(Locked(f) /\ opts.rehash_locked) =>
                \/ Complete(durable[f]')
                \/ HasSavedOffset(durable[f]) /\ durable[f]'.offset >= durable[f].offset]_durable

\* A run that nothing disturbed leaves a complete row for every file that it
\* could read and was not told to ignore, with the file's present metadata
\* unless the row was sealed by --lock-checksum.
CalmRunIsComplete ==
    pc = "close" /\ calm /\ ~opts.dry_run =>
        \A f \in Files : access[f] = "ALLOWED" /\ ~IgnoredFile(f) =>
            /\ Complete(durable[f])
            /\ Locked(f) \/ Identical(durable[f], StatOf(f))

\* The row of f is sealed: a checksum-locked path with a stored final digest.
Sealed(f) == Locked(f) /\ HoldsDigest(durable[f])

\* The digest of a sealed row is never replaced and never removed.  (A file that
\* cannot be hashed has no digest to lose.)
SealedIsKept ==
    [][\A f \in Files \ Unseekable : Sealed(f) =>
          Known(durable[f]') /\ durable[f]'.sha512 = durable[f].sha512]_durable

\* The same, but for a --rehash-locked pass that Ctrl+C interrupts.
SealedIsKeptUnlessInterrupted ==
    [][\A f \in Files \ Unseekable : Sealed(f) /\ ~(opts.rehash_locked /\ interrupted) =>
          Known(durable[f]') /\ durable[f]'.sha512 = durable[f].sha512]_durable

\* An undisturbed run that reports no violation has found the protected data in
\* place: the size of every sealed file is the recorded one and, under
\* --rehash-locked, so is its content.
CorruptionIsReported ==
    pc = "close" /\ calm /\ PerformHashing /\ ~violation =>
        \A f \in sealed \ Unseekable :
            /\ access[f] # "NOT_FOUND" => access[f] = "ALLOWED"
            /\ access[f] = "ALLOWED" =>
                  /\ durable[f].stat.size = Len(disk[f].data)
                  /\ opts.rehash_locked => durable[f].sha512 = disk[f].data

\* A corruption warning has a cause: some known locked file is unavailable, or
\* its metadata or its content differs from a row with a final hash.  (A dry run
\* reads no content, but --rehash-locked makes it compare all the same.)
AlarmHasCause ==
    pc = "close" /\ calm /\ violation /\ (opts.rehash_locked => PerformHashing) =>
        \E f \in opts.locked :
            /\ Known(durable[f])
            /\ \/ access[f] # "ALLOWED"
               \/ /\ Complete(durable[f])
                  /\ \/ Changes(durable[f].stat, StatOf(f)) # {}
                     \/ durable[f].sha512 # IF disk[f].data = << >> THEN NoDigest
                                            ELSE disk[f].data

\* No dry run, with or without checksums, changes the database.
DryRunChangesNothing == [][opts.dry_run => UNCHANGED durable]_vars

\* The traversal as a user of AtomicBatch: a technical failure breaks the batch,
\* FinishScan closes it.
BatchPhase ==
    IF pc \in {"idle", "close"} THEN "closed"
    ELSE IF failed \/ BatchLost THEN "broken" ELSE "open"

Batch == INSTANCE AtomicBatch WITH
            Keys <- Files, Values <- Row \cup {NoRow}, phase <- BatchPhase

\* The traversal implements AtomicBatch: rows become durable in whole batches
\* only, and every saved row is durable when the traversal ends without a technical
\* failure, by Ctrl+C too.  Rows of the open batch are lost only to a failure or a
\* crash, and after a failure none of them becomes durable.
ImplementsAtomicBatch == Batch!Spec

\* Every run that is started ends.
RunEnds == pc # "idle" ~> pc = "idle"

=============================================================================
