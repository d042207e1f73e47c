----------------------------- MODULE Migration -----------------------------
(***************************************************************************)
(* db_check_version() and db_upgrade(): a database of an older release is  *)
(* brought to CURRENT_DB_VERSION by two migrations, each of which rewrites *)
(* the stat column of every row in one transaction and is followed by a    *)
(* second transaction that stores the reached version.  The program is     *)
(* started again and again; Ctrl+C, failing SQLite calls and crashes may   *)
(* meet it anywhere.                                                       *)
(***************************************************************************)
EXTENDS Naturals, ReturnStatus

CONSTANTS
    Rows,        \* rows of the table "files"
    NoVersion,   \* outside of db_upgrade()
    MaxRuns,     \* bound: number of runs of the program
    MaxFaults    \* bound: crashes and failed SQLite calls

ASSUME MigrationAssumption ==
    /\ NoVersion \notin Nat
    /\ MaxRuns \in Nat /\ MaxFaults \in Nat

CURRENT_DB_VERSION == 4

VARIABLES
    durable,      \* rows a new connection would see
    working,      \* rows inside the open transaction
    version,      \* metadata.db_version; 0 when there is no such table
    pc,
    opts,         \* --update and --dry-run of the current run
    target,       \* version the running migration leads to
    interrupted,  \* global_interrupt_flag
    halted,       \* HALTED in global_return_status
    status,       \* the Return status of db_upgrade() and the functions it calls
    pending,      \* rows the SELECT has still to return
    (* bookkeeping *)
    sound,        \* rows whose stat was readable in the first database
    torn,         \* a run ended with rows and version apart
    runs, faults

dbVars == <<durable, working, version>>
signalVars == <<interrupted, halted>>
vars   == <<dbVars, signalVars, pc, opts, target, status, pending, sound, torn,
            runs, faults>>

-----------------------------------------------------------------------------
\* A stat blob: the layout it has, and whether it still holds the metadata that
\* was stored for the file (or else zeroes).
Blob == [format : {0, 1, 4}, kept : BOOLEAN]

\* The layout that goes with a version: 1 to 3 share CmpctStat_v1.
FormatOf(v) == IF v = 0 THEN 0 ELSE IF v < 4 THEN 1 ELSE 4

\* process_row() of both migrations: a blob of another size than the one expected
\* is replaced by zeroes, and the migration goes on.
Convert(blob, to) ==
    [format |-> to,
     kept   |-> blob.kept /\ blob.format = IF to = 1 THEN 0 ELSE 1]

RunOptions == [update : BOOLEAN, dry_run : BOOLEAN]

Init ==
    /\ version \in 0..(CURRENT_DB_VERSION + 1)
    /\ durable \in [Rows -> {b \in Blob : b.format = FormatOf(version)}]
    /\ working = durable
    /\ pc = "idle"
    /\ opts = [update |-> FALSE, dry_run |-> FALSE]
    /\ target = NoVersion
    /\ interrupted = FALSE /\ halted = FALSE
    /\ status = {"SUCCESS"}
    /\ pending = {}
    /\ sound = {r \in Rows : durable[r].kept}
    /\ torn = FALSE
    /\ runs = 0 /\ faults = 0

Global == IF halted THEN {"HALTED"} ELSE {"SUCCESS"}

Fault == faults < MaxFaults /\ faults' = faults + 1

Rollback == working' = durable /\ UNCHANGED <<durable, version>>

-----------------------------------------------------------------------------
StartRun ==
    /\ pc = "idle" /\ runs < MaxRuns
    /\ pc' = "check"
    /\ opts' \in RunOptions
    /\ runs' = runs + 1
    /\ UNCHANGED <<dbVars, target, signalVars, status, pending, sound, torn, faults>>

\* Mutant of FirstTarget: a version 1 database is migrated to version 1 again.
FirstTargetAgain(v) == IF v <= 1 THEN 1 ELSE 4

\* The first migration that a database of version v needs.
FirstTarget(v) == IF v < 1 THEN 1 ELSE 4

\* db_check_version() and the head of db_upgrade(): a newer database and an older
\* one without --update stop the program with a warning.
CheckVersion ==
    /\ pc = "check"
    /\ \/ /\ interrupted \/ version = CURRENT_DB_VERSION
          /\ pc' = "done"
          /\ status' = Provide({"SUCCESS"}, Global)
          /\ UNCHANGED <<target, faults>>
       \/ /\ ~interrupted
          /\ version > CURRENT_DB_VERSION \/ (version < CURRENT_DB_VERSION /\ ~opts.update)
          /\ pc' = "done"
          /\ status' = Provide({"WARNING"}, Global)
          /\ UNCHANGED <<target, faults>>
       \/ /\ ~interrupted /\ version < CURRENT_DB_VERSION /\ opts.update
          /\ pc' = "begin"
          /\ target' = FirstTarget(version)
          /\ UNCHANGED <<status, faults>>
       \/ Fault /\ pc' = "done" /\ status' = {"FAILURE"} /\ UNCHANGED target
    /\ UNCHANGED <<dbVars, opts, signalVars, pending, sound, torn, runs>>

\* The head of db_migrate_from_0_to_1() and of db_migrate_to_version_4(): nothing
\* in a dry run, otherwise BEGIN and the SELECT.  normalize_journal_mode(), only in
\* the second, returns HALTED after Ctrl+C, and no transaction is begun.
BeginMigration ==
    /\ pc = "begin"
    /\ \/ /\ opts.dry_run
          /\ pc' = "migrated"
          /\ UNCHANGED <<pending, status, faults>>
       \/ /\ ~opts.dry_run /\ halted /\ target = 4
          /\ pc' = "migrated"
          /\ status' = Provide({"SUCCESS"}, Global)
          /\ UNCHANGED <<pending, faults>>
       \/ /\ ~opts.dry_run /\ (target = 4 => ~halted)
          /\ pc' = "convert"
          /\ pending' = Rows
          /\ UNCHANGED <<status, faults>>
       \/ /\ ~opts.dry_run /\ Fault
          /\ pc' = "migrated"
          /\ status' = {"FAILURE"}
          /\ UNCHANGED pending
    /\ UNCHANGED <<dbVars, opts, target, signalVars, sound, torn, runs>>

\* Mutant of ConvertRow: the statement is not stepped.
ConvertAgain(r) ==
    /\ pc = "convert" /\ status = {"SUCCESS"} /\ ~interrupted
    /\ r \in pending
    /\ working' = [working EXCEPT ![r] = Convert(@, target)]
    /\ UNCHANGED <<durable, version, pc, opts, target, signalVars, sound, torn, runs,
                   pending, status, faults>>

ConvertRow(r) ==
    /\ pc = "convert" /\ status = {"SUCCESS"} /\ ~interrupted
    /\ r \in pending
    /\ pending' = pending \ {r}
    /\ \/ working' = [working EXCEPT ![r] = Convert(@, target)] /\ UNCHANGED <<status, faults>>
       \/ Fault /\ status' = {"FAILURE"} /\ UNCHANGED working
    /\ UNCHANGED <<durable, version, pc, opts, target, signalVars, sound, torn, runs>>

\* The end of a migration: Ctrl+C rolls back; a failure rolls back; otherwise
\* COMMIT.  Ctrl+C becomes a WARNING only if process_database() returned a plain
\* SUCCESS: it had, when the signal came, or HALTED was lost.
EndMigration ==
    /\ pc = "convert"
    /\ pending = {} \/ status # {"SUCCESS"} \/ interrupted
    /\ pc' = "migrated"
    /\ \/ /\ interrupted
          /\ Rollback
          /\ \/ /\ status = {"SUCCESS"} /\ (pending = {} \/ ~halted)
                /\ status' = {"WARNING"}
             \/ /\ halted \/ status # {"SUCCESS"}
                /\ status' = Provide(status, Global)
          /\ UNCHANGED faults
       \/ ~interrupted /\ status # {"SUCCESS"} /\ Rollback /\ UNCHANGED <<status, faults>>
       \/ /\ ~interrupted /\ status = {"SUCCESS"}
          /\ durable' = working
          /\ UNCHANGED <<working, version, status, faults>>
       \/ Fault /\ Rollback /\ status' = {"FAILURE"}
    /\ UNCHANGED <<opts, target, signalVars, pending, sound, torn, runs>>

\* Mutants of MigrationReturns: the version is stored whatever the migration
\* returned; it is stored after the last migration only.
ReturnRegardless ==
    /\ pc = "migrated"
    /\ status' = Provide(AfterCall(status, Provide({"SUCCESS"}, Global), Global), Global)
    /\ pc' = "specify"
    /\ UNCHANGED <<dbVars, opts, target, signalVars, pending, sound, torn, runs, faults>>
ReturnLast ==
    /\ pc = "migrated"
    /\ status' = Provide(AfterCall(status, Provide({"SUCCESS"}, Global), Global), Global)
    /\ pc' = IF status' = {"SUCCESS"} /\ target = CURRENT_DB_VERSION THEN "specify" ELSE "done"
    /\ UNCHANGED <<dbVars, opts, target, signalVars, pending, sound, torn, runs, faults>>

\* The migration returns; only a plain SUCCESS leads to db_specify_version().
MigrationReturns ==
    /\ pc = "migrated"
    /\ status' = Provide(AfterCall(status, Provide({"SUCCESS"}, Global), Global), Global)
    /\ pc' = IF status' = {"SUCCESS"} THEN "specify" ELSE "done"
    /\ UNCHANGED <<dbVars, opts, target, signalVars, pending, sound, torn, runs, faults>>

\* db_specify_version(), and then the next migration.
SpecifyVersion ==
    /\ pc = "specify"
    /\ \/ /\ status' = Provide({"SUCCESS"}, Global)
          /\ version' = IF interrupted \/ opts.dry_run THEN version ELSE target
          /\ UNCHANGED faults
       \/ /\ ~interrupted /\ ~opts.dry_run /\ Fault
          /\ status' = {"FAILURE"}
          /\ UNCHANGED version
    /\ IF status' = {"SUCCESS"} /\ target < CURRENT_DB_VERSION
       THEN pc' = "begin" /\ target' = CURRENT_DB_VERSION
       ELSE pc' = "done" /\ UNCHANGED target
    /\ UNCHANGED <<durable, working, opts, signalVars, pending, sound, torn, runs>>

\* Rows and version of the database belong together.
Together == \A r \in Rows : durable[r].format = FormatOf(version)

ProcessEnds ==
    /\ pc' = "idle"
    /\ opts' = [update |-> FALSE, dry_run |-> FALSE]
    /\ target' = NoVersion
    /\ interrupted' = FALSE /\ halted' = FALSE
    /\ status' = {"SUCCESS"}
    /\ pending' = {}
    /\ torn' = (torn \/ ~Together)

Exit ==
    /\ pc = "done"
    /\ ProcessEnds
    /\ UNCHANGED <<dbVars, sound, runs, faults>>

\* signal_notify_quit_handler().  The HALTED it stores is overwritten at once when
\* the signal lands between the load and the store of global_return_status in
\* rational_normalize_return(); the flag stays.
Interrupt ==
    /\ pc \notin {"idle", "done"} /\ ~halted
    /\ interrupted' = TRUE
    /\ halted' \in BOOLEAN
    /\ UNCHANGED <<dbVars, pc, opts, target, status, pending, sound, torn, runs, faults>>

Crash ==
    /\ pc # "idle"
    /\ Fault
    /\ Rollback
    /\ ProcessEnds
    /\ UNCHANGED <<sound, runs>>

Program ==
    \/ StartRun \/ CheckVersion \/ BeginMigration \/ (\E r \in Rows : ConvertRow(r))
    \/ EndMigration \/ MigrationReturns \/ SpecifyVersion \/ Exit

Next == Program \/ Interrupt \/ Crash

Spec == Init /\ [][Next]_vars

\* A run that was started goes on.
FairSpec == Spec /\ WF_vars(Program /\ pc # "idle")

-----------------------------------------------------------------------------
(***************************************************************************)
(* Properties.                                                             *)
(***************************************************************************)

\* Every variable has its type.
TypeOK ==
    /\ durable \in [Rows -> Blob] /\ working \in [Rows -> Blob]
    /\ version \in 0..(CURRENT_DB_VERSION + 1)
    /\ pc \in {"idle", "check", "begin", "convert", "migrated", "specify", "done"}
    /\ opts \in RunOptions
    /\ target \in {1, CURRENT_DB_VERSION, NoVersion}
    /\ interrupted \in BOOLEAN /\ (halted => interrupted) /\ torn \in BOOLEAN
    /\ status \in SUBSET {"SUCCESS", "FAILURE", "HALTED", "WARNING"}
    /\ pending \subseteq Rows /\ sound \subseteq Rows
    /\ runs \in Nat /\ faults \in Nat

\* The stored version never runs ahead of the rows: no row is ever read with a
\* layout newer than its own.
VersionNeverAhead == \A r \in Rows : durable[r].format >= FormatOf(version)

\* No row loses the metadata it had before the upgrade began.
MetadataSurvives == \A r \in sound : durable[r].kept

\* The metadata survives every Ctrl+C, failure and crash except for one: the end
\* of a run between the COMMIT of a migration and the store of its version.
MetadataSurvivesUnlessTorn == ~torn => MetadataSurvives

\* The database is at the current version, rows and all.
Current == version = CURRENT_DB_VERSION /\ \A r \in Rows : durable[r].format = 4

\* db_check_version() returns a plain SUCCESS only for a current database, or in a
\* dry run, or after a Ctrl+C whose HALTED was overwritten: so the traversal never
\* runs on old rows.
SuccessMeansCurrent ==
    pc = "done" /\ status = {"SUCCESS"} /\ ~opts.dry_run /\ (interrupted => halted) => Current

\* Every run that is started ends.
RunEnds == pc # "idle" ~> pc = "idle"

=============================================================================
