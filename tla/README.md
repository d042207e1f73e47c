# A TLA+ model of precizer

precizer walks over directories, computes the SHA512 of every file and keeps the
result, with the file's metadata, in an SQLite database. A later run compares the
tree with the database, re-reads what changed, resumes what was interrupted, and
drops the rows of files that are gone. What a user relies on is that the database
never claims something wrong about a file: however files change during a run,
wherever Ctrl+C, a failing call or a power loss strikes.

This directory holds the TLA+ modules that model the program from `main()` down
to its buffers, the TLC configurations that check them on small instances, and machine-checked proofs of
what the runs check for instances of any size. `PROJECT.json` maps every
definition to the lines of code it translates.

## 1. Inventory

| Part | State it keeps | Operations | Talks to |
|---|---|---|---|
| Main traversal, `file_list.c` | `struct File` of the file in hand, FTS position, violation flag | decide for each entry: leave, report, re-hash, resume, save | hashing, batch transaction, access checks, patterns |
| Hashing, `sha512sum.c` | offset and SHA512 context in `File` | open, seek, block loop, checkpoint, finalise | batch transaction (checkpoint), interrupt flag |
| Batch transaction, `db_file_transaction.c`, `db_save_file_record.c`, `db_insert_the_record.c`, `db_update_the_record_by_id.c` | `file_transaction_active`, deadline, SQLite's own transaction | begin or join, check deadline, commit, roll back | SQLite |
| Cleanup, `db_delete_missing_metadata.c` | a transaction of its own, violation flag | for every row: keep, report, delete | access checks, patterns, return status |
| Return status, `libs/rational` | `global_return_status` | `provide()`, `call()`, `run()`, `ask()` | every function; the signal handler |
| Version check and migrations, `db_check_version.c`, `db_upgrade.c`, `db_migrate_*.c`, `db_specify_version.c` | `metadata.db_version`, the layout of every stat blob | two migrations, each followed by a store of the version | SQLite, return status |
| Signals, `signal_notify_quit_handler.c` | `global_interrupt_flag`, `global_return_status` | set both | polled by every loop |
| Remembered messages, `remember_history.c`, `show_remembered_messages.c` | a temporary table on the same connection | insert, show at the end | SQLite: a failure there can end the batch |
| Main flow, `precizer.c`, `exit_status.c`, `status_of_changes.c` | the status of the pipeline | call each phase through `run()` or `call()`, choose the exit code | everything |
| Walk over the trees, `file_list.c`, `directory_access.c`, `directory_open_root.c`, `path_build_relative.c` | FTS position, root descriptor, the shared path buffer | open a root, descend or prune, count or take up a file, report what is inaccessible | FTS, patterns, access checks |
| Comparison, `db_compare.c` | two attached databases, what was found | check, attach, three queries, detach, summary | SQLite, other processes that use the files |
| Prefixes and paths, `db_save_prefixes.c`, `db_validate_paths.c` | table `paths` | validate, replace under `--force` | SQLite, main flow |
| Database life cycle, `db_init.c` and others | connection, open mode, `db_primary_file_modified`, rollback journal | test, open, create, close, vacuum, check for changes | SQLite |
| Patterns, options, reports | compiled patterns, `Config` | match, parse, print | |
| `libs/mem` | descriptors: block, length, string length, mode; telemetry | resize, copy, concatenate, truncate, finalise, convert, delete | everything; `run()` and Ctrl+C |

Not the program's own logic: SQLite, argp, inih, monocypher, xdiff, SHA512, PCRE2
and the test framework.

The program is one thread. What makes it hard is everything else that acts at the
same time: the file system changes between the `stat` of an entry, the access
check, the opening, each block and the save; Ctrl+C is seen only where the flag
is polled, but its second trace, `HALTED` in `global_return_status`, leaks into
every status that passes a `provide()`; SQLite may end a transaction by itself
when a statement fails; the process may be killed between any two of these
steps, and the next run starts from what was committed. `PROJECT.json` lists these
hazards line by line with the properties that guard them.

What makes each part correct:

- traversal and hashing: a row that the next run will trust is true; hashing work
  is not lost; an undisturbed run is complete; a sealed digest is the reference
  and stays; corruption is reported, and only corruption is;
- batch: rows become durable in whole batches, everything when the traversal ends without
  a failure (by Ctrl+C too), nothing of the open batch after a failure; a dry run changes
  nothing;
- cleanup: a row goes only for a cause, a locked row never; all or nothing;
- migration: the version never runs ahead of the rows; metadata survives;
- main flow and database: what is stored is changed only by a run that is entitled
  to; read-only modes are; an exit code of 0 means that everything was done; a run
  that was stopped does not keep the next one from working;
- walk: the files that are taken up are the ones the filters admit, under their own
  paths, and what could not be entered is reported;
- comparison: report and summary are true of both databases at one moment;
- buffers: the text is what the calls asked for; a failing call changes nothing.

## 2. Modules

| Module | Models | Used by |
|---|---|---|
| `Catalog` | `CmpctStat`, `DBrow`, options; the comparison of metadata and what a row says about the next scan. Pure. | `FileScan` |
| `FileScan` | `file_list()` (case `FTS_F`), `sha512sum()`, the batch transaction, the process starting again and again, the file system | `MCFileScan`, proofs |
| `AtomicBatch` | abstract: what a batched writer promises; only a failure or a kill (`faults`) throws a batch away | `FileScan`, `Cleanup` (refinement) |
| `ReturnStatus` | the `Return` flags and macros. Pure. | `Cleanup`, `Migration`, `Session`, `Traversal`, `Compare` |
| `Cleanup` | one call of `db_delete_missing_metadata()` | `MCCleanup` |
| `Migration` | `db_check_version()`, `db_upgrade()`, both migrations, `db_specify_version()`, over several runs | itself |
| `Session` | `main()`: all phases in their order, process after process on one database file; composes what the other modules show of each phase | `MCSession` |
| `Traversal` | both passes of `file_list()` over roots and directories, up to the point where `FileScan` takes a file | `MCTraversal` |
| `Compare` | one call of `db_compare()` | `MCCompare` |
| `Memory` | one descriptor of `libs/mem` under any sequence of calls | `MCMemory` |
| `MCFileScan`, `MCCleanup`, `MCSession`, `MCTraversal`, `MCCompare`, `MCMemory` | contents, trees and command lines for TLC | the configurations |
| `ReturnStatusProofs` | lemmas about the macros, for every status that a function can hold | the proofs below |
| `FileScanProofs`, `TraversalProofs`, `CleanupProofs`, `MigrationProofs`, `SessionProofs`, `CompareProofs`, `MemoryProofs` | the theorems about the module of that name | |

Names ending in a comment "Mutant of X" are variants of X with a plausible bug;
no specification uses them. They document, for each property, an error it
detects.

### FileScan

A file's content is a sequence of read-buffer blocks; an offset counts blocks; the
SHA512 context is the sequence of blocks fed to it and a digest is the sequence
that was finalised, so two contents have one digest only if they are equal. A row
(`Row`) has the columns `stat`, `offset`, `mdContext`, `sha512`. `working` is what
the program's connection reads, `durable` what a new connection would read; they
differ while a batch is open. `active` is `config->file_transaction_active` and
`autocommit` is SQLite's own view; they part when SQLite rolls back by itself.

| Action | Code |
|---|---|
| `StartRun` | head of `file_list()`: `fts_open()` and the stat of the entries |
| `BatchDeadline` | `db_file_transaction_check()` at the head of the loop |
| `Visit` | `case FTS_F` up to `sha512sum()`: `LeaveFile`, `ReportFile`, `ProcessFile` are its exits |
| `ReadRowFails` | `db_read_file_data_from()` fails |
| `OpenFile`, `StopHashing`, `HashBlock`, `HashEof`, `HashReadError`, `Checkpoint` | `sha512sum()` |
| `Conclude` | `case FTS_F` after `sha512sum()`: `DropFile`, `ReportMismatch`, `SaveFile` |
| `RememberFails` | a failing `remember_history()` |
| `FinishScan`, `Exit` | end of `file_list()`, end of `main()` |
| `Interrupt`, `Crash`, `Env*` | signal handler, `kill -9` or power loss, the file system |

A step ends only where another actor can make a difference. `RowsAreTrue` and the
other properties about file contents are stated for files whose content has not
rotted silently (`rotted`) and that can be seeked (`Unseekable`).

### Cleanup

Every decision passes through `ask()` and `provide()`, so the model computes with
the sets of flags of `ReturnStatus` and not with Booleans: an interrupt that lands
during a lock check adds `HALTED` to the answer. `bad` in `Judge` says which of
the two lock checks of a row fails; one value of the global status stands for all checks of
a row, because a `HALTED` that arrives between two of them gives no other verdict. `before`, `lost` and `denied` are
bookkeeping: the rows at the call, and the files that were unavailable at
some moment. The same handler race as in `Migration` is in `Interrupt`:
`rational_normalize_return()` loads `global_return_status`, cleans a copy and
stores it back, so a `HALTED` that arrives in between is lost while
`global_interrupt_flag` stays set.

### Migration

A stat blob is its layout (0, 1 or 4; versions 1 to 3 share one) and whether it
still holds metadata or zeroes. `process_row()` of each migration replaces a blob
of unexpected size by zeroes and goes on. `torn` remembers that a run ended with
rows and version apart.

### Session

One step is one call of `main()`; `db_primary_file_test()`, `db_init()` and
`file_list()` have inner steps, because a process that ends inside of them leaves
something behind. `Enter`, `Skip` and `Return` are `run()`: after `WARNING`, `FAILURE`
or `HALTED` a phase is skipped, except for the two that `main()` invokes with
`call()`. A phase that has a module of its own is reduced to what the pipeline sees
of it, its writes to the database and its status: `ScanFile` for `FileScan`,
`CleanupBelow` for `Cleanup`, `CheckVersion` for `Migration`,
`CompareDatabases` for `Compare`. `ParseArguments` includes `compile_patterns()`
and `ValidateExistence` includes `db_determine_name()`, neither of which the state
tells apart.

The database file has a `layout` (absent, empty, old, current, newer), the tables
`prefixes` and `rows`, and a `journal`, which is *hot* when the process was killed
while a commit was overwriting pages. `touched` observes whether the file was
written; `db_check_changes()` compares it with the flag `modified`. The tree and
the set of edited files are chosen when a process starts.

### Traversal

FTS is external and modelled by its contract: it returns a directory before its
content, reads the content when it is asked for the next entry, and returns
`FTS_DNR` or `FTS_NS` for what it may not list or stat. So a directory can change
between its own entry and the reading of its content. `path` is the buffer
`relative_path`: when an interrupt makes `run()` skip `path_build_relative()`, it
holds the path of an earlier entry. `FAILURE | HALTED` counts as `TRIUMPH`, which lets
the loop body go on after a failing helper (`StepFails`) until the next look at the
interrupt flag. Regular files are taken to be not executable, which matters only for
the access check of a stale path. The tree is a constant: `Entries` is what a directory
holds and `Above` the directories on the way to a node; `TreeAssumption` says that
they describe a forest.

### Compare

A row is absent, has a digest, or has none because the file is empty or its
hashing has not come to its end. The connection holds its locks from
`ATTACH` to `DETACH`: `db_init()` opens the main database of a comparison read-only and
sets `locking_mode=EXCLUSIVE`, which databases attached afterwards inherit. `frozen`
is the content at the moment of the last `ATTACH`.

### Memory

A function of the library is an operator from the descriptor to the outcome of the
call. The library chains its helpers with `run()` and continues while
`TRIUMPH & status`; a call that meets Ctrl+C therefore goes on *without its remaining
helpers*. `t` is the number of the helper after which `HALTED` arrives. `text`
is what a caller who never saw an interrupt has asked for. `overrun` says that the
`memmove()` of `mem_core_string()` has left the block (`PastBlock`; the terminator is
checked by its own function and cannot). Nothing can be said of the heap after that, and the
model ends there; it happens behind Ctrl+C only (section 4).

## 3. Assumptions

- *Distinct time stamps.* Every change that the kernel stamps gets a new tick. Two
  writes within one tick leave no trace in the metadata, and the code has no
  defence against that.
- *One snapshot of the directory.* `fts_read()` stats the entries of a directory
  when it reads the directory; the model takes all of them in one step.
- *Injective hash.* SHA512 has no collisions.
- *SQLite keeps its promises.* A commit is atomic and durable; a crash leaves the
  last committed state, once a hot journal has been played back. `FileScan`,
  `Cleanup` and `Migration` start their next run from that state; that precizer
  cannot play the journal back by itself is the subject of `Session`.
- *One process* uses the primary database (in `Compare`, others may write to the two
  files); one thread, so the signal handler runs between
  two steps, except for the race on `global_return_status` named above.

## 4. Runs

Passing runs:

| Run | Instance | Shows |
|---|---|---|
| `scan_core` | 2 files, 3 contents of up to 2 blocks, `--watch-timestamps`, 2 runs, 1 edit (write or backdate), 1 fault | `TypeOK`, `ImplementsAtomicBatch`, `RunEnds` |
| `scan_resume` | 1 file, contents of 1 and 3 blocks, plain, dry and ignoring command lines, 3 runs, 2 edits of five kinds, 1 fault | `RowsAreTrue`, `KnownIsStored`, `CalmRunIsComplete`, `NoRegress`, `DryRunChangesNothing` |
| `scan_locked` | 1 checksum-locked file, 4 contents, seven command lines, 3 runs, 2 edits of five kinds, 1 fault | `CorruptionIsReported`, `AlarmHasCause`, `SealedIsKeptUnlessInterrupted` |
| `cleanup` | 2 rows, 1 root, every command line (path 1 may be locked), every combination of rows and files, 1 edit, 1 fault | `TypeOK`, `LockedRowIsKept`, `DropHasCause`, `CleanupIsExact`, `LockedLossIsReported`, `InterruptIsNoFailure`, `ImplementsAtomicBatch`, `CleanupEnds` |
| `migration` | 2 rows, databases of versions 0 to 5, 3 runs, 2 faults | `VersionNeverAhead`, `MetadataSurvivesUnlessTorn`, `SuccessMeansCurrent`, `RunEnds` |
| `session` | 2 processes, 11 command lines, 5 databases, 4 trees of 2 roots, edited or not, a plain and a locked file, 1 fault or kill, Ctrl+C anywhere after the handlers are installed | `StoredDataIsProtected`, `WalkKnowsItsRoots`, `ReadOnlyModesWriteNothing`, `ChangeFlagIsRight`, `ExitZeroIsClean`, `MissingFilesAreHandledUnlessAlarm`, `NextUpdateWorksUnlessLeftover`, `RunEnds` |
| `traversal` | 2 roots, 3 more directories on 2 levels, 4 files, 1 link, 9 combinations of `--ignore`, `--include`, `--lock-checksum`, `--maxdepth`, `--progress`, 1 change of permissions, 1 fault, Ctrl+C | `TraversalIsExact`, `PathIsOfEntry`, `PassEnds` |
| `compare` | 2 paths (one hidden by the filters), 2 digests, rows of every kind, with and without `--compare-filter`, 1 write by another process, 1 fault, Ctrl+C | `ClaimsAreTrue`, `ReportIsExact`, `CompareEnds` |
| `memory` | blocks of 3 bytes, a heap of 6, `SIZE_MAX` 10, three texts, five sizes, any sequence of calls | `TextIsRight`, `TelemetryBalances`, `FailureChangesNothing` |

Runs in which the code does something else than its documentation says:

| Run | Property | What happens |
|---|---|---|
| `scan_sealed_interrupt` | `SealedIsKept` | Ctrl+C in a `--rehash-locked` pass replaces a sealed digest by a partial hash (`file_list.c:682`) |
| `migration_torn` | `MetadataSurvives` | rows are committed, the version is not; the next run migrates again and zeroes the metadata of every row (`db_upgrade.c:49`) |
| `session_hot_journal` | `NextUpdateWorks` | a kill during a commit leaves a hot journal; the read-only integrity check of the next run cannot play it back and fails, in this and in every later run (`db_integrity_check.c:56`) |

`SealedIsKeptUnlessInterrupted`, `MetadataSurvivesUnlessTorn` and
`NextUpdateWorksUnlessLeftover` are the documented promises with the exact exception
that the violations exhibit.

*Known deviations without a run.* The passing properties name these exceptions, or
their instances leave them out:

- A damaged locked file makes the traversal return `WARNING`, and `run()` then skips
  the cleanup (`precizer.c:125`): rows of missing files stay and missing locked files
  are not reported in that run (`Alarm` in `MissingFilesAreHandledUnlessAlarm`).
- A process that ends between the creation of the file and the creation of its tables
  leaves an empty file, on which `--update` fails (`db_init.c:38`, `layout = "empty"` in
  `NextUpdateWorksUnlessLeftover`).
- The cleanup looks every row up below one root only (`db_retrieve_root_path.c:27`); with
  two roots, rows of files below the second are dropped. `cleanup` has one root, with which
  `DropHasCause` shows nothing about this, and `MissingFilesAreHandledUnlessAlarm` speaks of
  one root.
- `--dry-run --rehash-locked` hashes nothing, then compares zeroes with the sealed digest
  and reports corruption (`file_list.c:639`; the case excepted in `AlarmHasCause`).
- A file on which `fseek()` fails has a NULL digest; when its ctime alone moves, it gets 64
  zero bytes instead (`file_list.c:626`); the runs have no such file.
- A `HALTED` that is overwritten by `rational_normalize_return()` (`rational_provide.c:61`)
  lets `db_specify_version()` skip its work and return success, so that
  `db_upgrade()` announces an upgrade that was not stored (the case excepted in
  `SuccessMeansCurrent`), and lets an interrupted comparison return `SUCCESS` with rows
  unread (`db_compare.c:476`) and claim equality (`Lost` in `ClaimsAreTrue` and
  `ReportIsExact`).
- Two rows without a digest count as equal although hashing of one was never
  finished (`db_compare.c:450`, `Unhashed` in `ClaimsAreTrue` and `ReportIsExact`).
- A call of `libs/mem` that Ctrl+C meets goes on without its remaining helpers. It may skip
  the terminator, although the comment on `mem_resize()` guarantees it. And when `HALTED`
  arrives behind the computation of the number of bytes (`mem_core_string.c:390`) and before
  `m_resize()` (line 426), `m_resize()` is skipped and `memmove()` (line 450) is not: it writes past
  the end of the old block (`overrun`). `TextIsRight` speaks of the time before Ctrl+C and
  `TelemetryBalances` of the time before such a write.
- `fts_read()` returns NULL on an error as at the end of a tree, and the loop does not
  look at `errno` (`file_list.c:235`); `TraversalIsExact` excepts runs with a fault.

*Bounds.* Two files are enough for the batch to hold one row while the other is in
hand, and for an interrupt between them. Three blocks give two partial
offsets, so a resumed hash can be interrupted again. Three runs are
enough for insert, resume and skip, or seal, change and verify. One fault already
breaks a batch; two faults let a migration fail in one run and again in the
next. Two edits let a file change and change back. Two processes
are enough for one to leave something behind and the next to find it; `Databases`
starts from what longer histories leave. Two roots let an interrupt fall between them,
and three levels of directories put a file below a directory below an ignored
one. A heap of two blocks makes a growth move, fit or fail, and five sizes reach both
sides of a block and of `SIZE_MAX`. The bounds `MaxRuns`,
`MaxEdits`, `MaxFaults`, `MaxChanges` and `MaxWrites` are guards of the actions they limit; the theorems of
section 5 hold for every value of them. All runs are exhaustive. Deadlock is
not checked, because when its runs are used up the system really stops; `memory` stops
after an `overrun`.

*Fairness.* `FairSpec` assumes weak fairness of `Program` while a run is in
progress: the one thread of the program goes on running. Nobody is obliged to
start a run, edit a file, press Ctrl+C or cut the power. No strong
fairness is assumed anywhere, and none of faults: in `Traversal` and `Compare` they are
actions outside of `Program`, in the other modules a failing alternative of a step that
can also succeed. `RunEnds`, `CleanupEnds`, `PassEnds` and `CompareEnds` follow because each
loop consumes its input, a file under the hash cannot grow for ever within
`MaxEdits`, and in the code because a file has an end.

## 5. Proofs

The theorems hold for any set of files, rows, paths, roots or directories, any
contents and command lines, any size of block and of heap, and any number of runs,
edits and faults. Every safety invariant, action property and refinement of the
passing runs is stated by one. The proof modules are `ReturnStatusProofs` (what
the macros make of every status a function can hold; all the others that
compute with statuses rest on it) and one module per component.

*What is assumed.* The named assumptions of the modules about their constants, which
TLC evaluates on every run. What goes beyond types in them: markers such as `NoRow` are no
rows; a command line of `--compare` names no roots, and a file that is absent or empty
holds no tables (`SessionAssumption`); an include pattern exists only when one was given
(`TraversalAssumption`); `Entries` and `Above` describe a forest in which every file hangs
below a root (`TreeAssumption`); a text contains no zero byte (`MemoryAssumption`).
Two theorems have a hypothesis of their own:

- `RowsStayTrue` assumes `BackdatesAreWatched`: if content can change under an old
  mtime, all runs use `--watch-timestamps`. Without it the property is false by
  design: a run that does not watch ctime copies the old digest next to the new
  ctime.
- `DropsHaveCauses` assumes a single root, for the reason given in section 4.

### `FileScanProofs`

| Theorem | Property | Argument |
|---|---|---|
| `TypeCorrect` | `TypeOK` | inductive as it stands |
| `BatchRefinement` | `ImplementsAtomicBatch` | `StoreInv`; the abstract `phase` is `BatchPhase` |
| `KnownIsTrue` | `KnownIsStored` | inductive with `BatchInv` |
| `DryRunIsDry` | `DryRunChangesNothing` | a dry run has no batch (`DryInv`) |
| `RowsStayTrue` | `RowsAreTrue` | `TruthInv` |
| `WorkIsKept` | `NoRegress` | `RunInv`, `ProgressInv` |
| `SealedStaysSealed` | `SealedIsKeptUnlessInterrupted` | `RunInv`, `SealInv` |
| `CalmRunsComplete` | `CalmRunIsComplete` | `CalmRun`, `CompleteSoFar` |
| `CorruptionComesToLight` | `CorruptionIsReported` | `CalmRun`, `SealInv`, `SealedHolds`, `ReportedSoFar` |
| `AlarmsHaveCauses` | `AlarmHasCause` | `CalmRun`, `CausedSoFar` |

- `BatchRefinement` says that a traversal without a technical failure, also one that Ctrl+C
  ends, leaves all that it saved durable: `AtomicBatch` has no other end for a batch that is not
  broken (`Close`), and `Discard` needs a failure or a kill.
- `StoreInv`: without an active batch both views of the database agree, a transaction is
  open only for an active batch, no batch outlives the traversal, and a failure leaves
  the file in hand. `BatchInv` adds `TypeOK`.
- `TruthInv`: `RowsAreTrue` is not inductive, because it says nothing of the row being
  prepared. Its four parts are stated over the *key* of the metadata: the time stamp
  that every change of content moves (ctime where files may be backdated, mtime
  otherwise). A stat is *fresh* while its key is the file's. `RowsTrue`: no row of
  `durable` or `working` has a key beyond the clock, and a fresh one describes the
  content. `Snapshot`: the same bound for the stat of the entries, and a fresh one has
  the file's size. `Hashing`: while the snapshot of the file in hand is fresh, its
  context is the prefix of the content that the offset says. `Concluding`: while it is
  fresh, the record about to be written is true. An edit moves the clock, so it ends
  the freshness of everything collected before: that is the whole argument, and it is
  why the stat must be taken before the content is read and never again when the row
  is saved (the mutant `RecordWithNewStat`).
- `RunInv`: what is known of the file in hand since `Visit` decided to take it up
  (`Taken`: an unchanged complete row is taken up only by `--rehash-locked`, a sealed row
  only under its own size), how far its hashing has come (`Advanced`: the durable row is
  still the one that was read, or a checkpoint wrote it), and the shape of every row
  (`Rows`: an offset or a digest, never both).
- `ProgressInv` and `SealInv` say of the open batch what the properties say of a commit:
  compared with the durable row, the one waiting to be committed is progress, and keeps
  the digest. A checkpoint commits the row of the file in hand together with all those
  that wait, so nothing weaker is enough.
- `CalmRun` describes a run that nothing disturbed: no failure, the snapshot is still the
  stat of every file, and a context that was started afresh is a prefix of the content.
  `CompleteSoFar`, `ReportedSoFar` and `CausedSoFar` say what the properties say, of the
  files that the run is done with; the properties are their value at the end.
  `SealedHolds` carries the files that were sealed at the start to that end.

### `CleanupProofs`

`TypeCorrect`, `LockedRowsAreKept`, `InterruptsAreNoFailures`, `DropsHaveCauses`,
`CleanupsAreExact`, `LockedLossesAreReported`, `CleanupRefinement`. Most of the work
is in the two or three nested checks of a row, each of which merges `HALTED` into a status and
may fail: `JudgeFacts` says what they amount to for every status, fault and moment of
Ctrl+C. `CleanupInv`: nothing is published before the end and a row is in hand only
with a clean status (`Flow`), without a transaction both views agree (`Store`), only
a fault is a failure (`Faultless`), a row that is about to go is not locked
(`Protected`). `CauseInv` adds that a row that is gone *or about to go* has a reason,
`CalmInv` that the rows judged so far are exactly right. `CleanupRefinement` says of the
deletions what `BatchRefinement` says of the rows: a cleanup that Ctrl+C ends commits them.

### `MigrationProofs`

`VersionIsNeverAhead`, `MetadataIsKept`, `SuccessIsCurrent`. `MigrationInv` adds
to the properties that a migration leads forward (`Direction`), that inside the
transaction exactly the rows that were read are converted (`Transaction`), that what is
about to be recorded was committed (`Committed`), that unless an earlier run tore them
apart the rows and the version belong together wherever a migration may begin
(`TogetherUnlessTorn`), and that the second migration follows the first (`InOrder`).
`MetadataSurvivesUnlessTorn` needs all of them: a blob is zeroed when it is converted
from a layout it does not have.

### `SessionProofs`

`StoredDataStaysProtected`, `WalksKnowTheirRoots`, `ReadersWriteNothing`,
`ChangeFlagStaysRight`, `ExitZeroStaysClean`, `MissingFilesStayHandled`,
`UpdatesWorkUnlessLeftover`, all from one invariant, `SessionInv`. Its parts follow the
phases in their order (`At`): what the handler may have set (`SignalInv`), what is known
before the database was looked at (`StartInv`), what the open mode entitles to
(`ModeInv`), that stored data is what the process found until its own phases write
(`KeepInv`, `BatchInv`), that behind each phase the file has the tables and the prefixes that the
next one relies on (`LayoutInv`), that a clean status means every phase so far has run
(`ExitInv`), the state of the walk (`ScanInv`), the flag (`FlagInv`) and the causes of a
failure (`FailInv`). The properties speak of the end of a process and
are not inductive, because each depends on what the phases before it have left in
`status`: a phase that is skipped must have been skipped for a reason that is still visible.

### `CompareProofs`, `TraversalProofs`, `MemoryProofs`

- `ClaimsStayTrue`, `ReportStaysExact`, both but for rows that were not hashed to the end and for an
  interrupt whose `HALTED` was lost. `CompareInv`: nothing leaves a trace before its
  phase (`FlowInv`); with a clean status both files are attached and hold what they held
  when the second one was attached (`LockInv`), so three queries one after the other see one moment; what was
  shown are differences, and what is neither shown nor left to read is none (`ReadInv`).
- `PathStaysWithEntry`, from `TraversalInv`: a `HALTED` in a status comes with the flag
  set (`StatusInv`), so that a stale path is met only behind an interrupt
  (`PathInv`), and a wrong decision about a directory is not acted upon (`WalkInv`).
  `TraversalStaysExact` adds `CoverInv`: in a walk that nothing stopped, every file has been dealt with
  or is still ahead, below a node that is queued, in hand or not read yet. It is the
  covering argument of every tree walk, here with pruning, a depth limit, directories
  that cannot be read and a second pass; `QuietInv` says that without a change of
  permissions nothing is denied.
- `TypeCorrect`, `TelemetryStaysBalanced`, `TextStaysRight`, `FailuresLeaveNoTrace`.
  `MemoryInv`: the telemetry is that of the descriptor always (`Balanced`), also when
  Ctrl+C makes a call skip its helpers; until then the descriptor holds the text
  (`Held`) and has not been written past (`Answers`). One lemma per operation says that it succeeds with the right text or fails
  without a trace; under them are the lemmas about rounding up to a block without
  overflow and about copying.

*Only model-checked.* Liveness (`RunEnds` of three modules, `CleanupEnds`, `PassEnds`,
`CompareEnds`), which needs `ENABLED` and is out of the prover's reach, and the three
properties that the code violates.

## 6. Not modelled, and the plan

Next:

1. `--compare --update`, which migrates the two files before it compares them.
2. The cleanup below several roots, with a property that names the root that was asked.
3. Arrays of strings of `libs/mem` and elements wider than a byte.
4. Composition: that `ScanFile`, `CleanupBelow`, `CheckVersion` and `CompareDatabases` of
   `Session` promise no more than the theorems about the modules they stand for.

Left out for good: reports, statistics, logging and time formatting (output only);
argument and configuration parsing (string processing in argp and inih; the resulting
options are inputs of the models); regular expressions (PCRE2; the result of a
match is an input, a failing match is a fault); SQLite, SHA512 and the other vendored
libraries; the handler's calls that are not async-signal-safe, whose outcomes lie
inside libc; the test framework and its hooks. `st_dev` and `st_ino` are stored by the
code and compared nowhere.
