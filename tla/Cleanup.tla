------------------------------ MODULE Cleanup ------------------------------
(***************************************************************************)
(* db_delete_missing_metadata(): after the traversal of an --update run,   *)
(* walk over the rows of "files", drop those whose file is gone, and keep  *)
(* and report the checksum-locked ones.  One call of the function, from    *)
(* every combination of rows, files and options, while the file system     *)
(* changes, Ctrl+C arrives and calls fail.                                 *)
(*                                                                         *)
(* The outcome of every helper passes through the macros of ReturnStatus,  *)
(* so an interrupt can change a decision wherever a status is read.        *)
(***************************************************************************)
EXTENDS Naturals, ReturnStatus

CONSTANTS
    Files,        \* relative paths
    Roots,        \* traversal roots of the command line
    FirstRoot,    \* the root that SELECT prefix FROM paths LIMIT 1 returns
    NoFile,
    RunOptions,   \* command lines
    AccessKinds,  \* answers of faccessat() that occur
    MaxEdits,     \* bound: number of changes to the file system
    MaxFaults     \* bound: crashes, failed SQLite, regexp and system calls

Access == {"ALLOWED", "DENIED", "NOT_FOUND", "ERROR"}

\* The part of Config that the function reads.
CleanupOptions ==
    [update : BOOLEAN, dry_run : BOOLEAN,
     locked : SUBSET Files, ignored : SUBSET Files,
     drop_ignored : BOOLEAN, drop_inaccessible : BOOLEAN]

ASSUME CleanupAssumption ==
    /\ FirstRoot \in Roots
    /\ NoFile \notin Files
    /\ RunOptions \subseteq CleanupOptions
    /\ AccessKinds \subseteq Access
    /\ MaxEdits \in Nat /\ MaxFaults \in Nat

VARIABLES
    access,       \* what faccessat() answers for each path below each root
    durable,      \* does the path have a row: as a new connection sees it
    working,      \* and as this connection sees it
    autocommit,   \* sqlite3_get_autocommit() # 0
    pc,
    opts,
    interrupted,  \* global_interrupt_flag
    halted,       \* HALTED in global_return_status
    status,       \* the local Return status of the function
    pending,      \* rows the SELECT has still to return
    cur,          \* the row in hand
    violation,    \* locked_unavailable_violation_detected
    (* bookkeeping *)
    before,       \* the rows when the function was called
    lost,         \* paths that at some moment existed below no root
    denied,       \* paths that at some moment were readable below no root
    calm,         \* nothing but the program has acted
    edits, faults

envVars  == <<access, lost, denied, edits>>
baseVars == <<opts, before>>
signalVars == <<interrupted, halted>>
rowVars  == <<durable, working, autocommit>>
vars     == <<envVars, baseVars, rowVars, signalVars, pc, status, pending, cur,
              violation, calm, faults>>

\* Paths for which every root answers with something in kinds.
Everywhere(acc, kinds) == {f \in Files : \A r \in Roots : acc[r][f] \in kinds}

Unavailable == Access \ {"ALLOWED"}

Init ==
    /\ access \in [Roots -> [Files -> AccessKinds]]
    /\ lost = Everywhere(access, {"NOT_FOUND"})
    /\ denied = Everywhere(access, Unavailable)
    /\ durable \in [Files -> BOOLEAN]
    /\ working = durable
    /\ before = durable
    /\ autocommit = TRUE
    /\ pc = "start"
    /\ opts \in RunOptions
    /\ interrupted = FALSE /\ halted = FALSE
    /\ status = {"SUCCESS"}
    /\ pending = {}
    /\ cur = NoFile
    /\ violation = FALSE
    /\ calm = TRUE
    /\ edits = 0 /\ faults = 0

-----------------------------------------------------------------------------
(***************************************************************************)
(* The function's environment: status and failures.                        *)
(***************************************************************************)

\* global_return_status
Global == IF halted THEN {"HALTED"} ELSE {"SUCCESS"}

Succeeded == status = {"SUCCESS"}

Fault ==
    /\ faults < MaxFaults
    /\ faults' = faults + 1
    /\ calm' = FALSE

NoFault == UNCHANGED <<faults, calm>>

\* SQLite rolled the transaction back by itself.
AutoRollback ==
    /\ autocommit' = TRUE
    /\ working' = durable
    /\ UNCHANGED durable

-----------------------------------------------------------------------------
(***************************************************************************)
(* Before the loop.                                                        *)
(***************************************************************************)

\* The early returns: Ctrl+C, no --update, a root that cannot be opened, which
\* leaves the status as it is.
Return ==
    /\ pc = "start"
    /\ pc' = "done"
    /\ \/ /\ interrupted \/ ~opts.update
          /\ status' = Provide({"SUCCESS"}, Global) /\ NoFault
       \/ opts.update /\ Fault /\ status' = Provide({"SUCCESS"}, Global)
    /\ UNCHANGED <<envVars, baseVars, rowVars, signalVars, pending, cur, violation>>

\* db_retrieve_root_path() finds no root, or BEGIN or the SELECT fails.
RootPathFails ==
    /\ pc = "start" /\ opts.update
    /\ Fault
    /\ pc' = "done"
    /\ status' = Provide({"FAILURE"}, Global)
    /\ UNCHANGED <<envVars, baseVars, rowVars, signalVars, pending, cur, violation>>

\* BEGIN IMMEDIATE, unless this is a dry run, and the SELECT over all rows.
Begin ==
    /\ pc = "start" /\ ~interrupted /\ opts.update
    /\ pc' = "fetch"
    /\ autocommit' = opts.dry_run
    /\ pending' = {f \in Files : working[f]}
    /\ UNCHANGED <<envVars, baseVars, durable, working, signalVars, status, cur,
                   violation, calm, faults>>

-----------------------------------------------------------------------------
(***************************************************************************)
(* The loop over the rows.                                                 *)
(***************************************************************************)

\* Mutant of Fetch: the statement is not stepped.
FetchAgain(f) ==
    /\ pc = "fetch" /\ Succeeded /\ ~interrupted /\ f \in pending
    /\ cur' = f /\ pc' = "judge"
    /\ UNCHANGED <<envVars, baseVars, rowVars, signalVars, violation, pending, status,
                   calm, faults>>

\* while(SUCCESS == status && sqlite3_step() == SQLITE_ROW), the interrupt flag,
\* the copy of the path and match_include_ignore().
Fetch(f) ==
    /\ pc = "fetch" /\ Succeeded /\ ~interrupted /\ f \in pending
    /\ pending' = pending \ {f}
    /\ \/ cur' = f /\ pc' = "judge" /\ UNCHANGED status /\ NoFault
       \/ /\ Fault
          /\ status' = Provide({"FAILURE"}, Global)
          /\ UNCHANGED <<cur, pc>>
    /\ UNCHANGED <<envVars, baseVars, rowVars, signalVars, violation>>

\* Mutant of PathCheckLocked: a regexp that fails does not match.
LockedIfMatched(f, fails) ==
    Provide({"SUCCESS", IF f \in opts.locked /\ ~fails THEN "YES" ELSE "NO"}, Global)

\* path_check_locked_checksum(); fails says that the regexp evaluation does.
PathCheckLocked(f, fails) ==
    Provide(IF fails THEN {"FAILURE", "NO"}
            ELSE {"SUCCESS", IF f \in opts.locked THEN "YES" ELSE "NO"}, Global)

\* db_check_locked_unavailable_violation()
LockedUnavailableViolation(f, fails) ==
    LET r == PathCheckLocked(f, fails)
    IN Provide(IF Answer(r, Global)
               THEN Provide({"SUCCESS"}, Global) \cup {"YES"}
               ELSE AfterAsk({"SUCCESS"}, r, Global) \cup {"NO"}, Global)

\* db_preserve_locked_ignored_record(): reported says whether the unavailable
\* path was reported, result is what the function returns.  The bad-th of its
\* two lock checks fails.
Preserve(f, acc, bad) ==
    LET first    == PathCheckLocked(f, bad = 1)
        s        == AfterAsk({"SUCCESS"}, first, Global)
        probes   == Answer(first, Global) /\ s = {"SUCCESS"} /\ acc # "ALLOWED"
        second   == LockedUnavailableViolation(f, bad = 2)
        final    == IF probes THEN AfterAsk(s, second, Global) ELSE s
        keeps    == Answer(first, Global) /\ Has(final, TRIUMPH)
    IN [reported |-> probes /\ Answer(second, Global),
        result   |-> Provide(final \cup {IF keeps THEN "YES" ELSE "NO"}, Global)]

\* A lock check of the current row may fail (bad > 0).
LockChecks(bad) == IF bad = 0 THEN NoFault ELSE Fault

\* Mutant of KeepIgnored: an ignored row is passed over at once.
PassIgnored(bad) ==
    /\ cur \in opts.ignored /\ ~opts.drop_ignored
    /\ pc' = "fetch"
    /\ UNCHANGED <<status, violation>>

\* An ignored row without --db-drop-ignored stays; a locked one is looked at.
KeepIgnored(bad) ==
    /\ cur \in opts.ignored /\ ~opts.drop_ignored
    /\ LET first  == PathCheckLocked(cur, bad = 1)
           s      == AfterAsk(status, first, Global)
           second == LockedUnavailableViolation(cur, bad = 2)
           asked  == /\ Answer(first, Global)
                     /\ access[FirstRoot][cur] # "ALLOWED"
                     /\ Asks(s)
       IN /\ status' = IF asked THEN AfterAsk(s, second, Global) ELSE s
          /\ violation' = (violation \/ (asked /\ Answer(second, Global)))
    /\ pc' = "fetch"

\* An ignored row under --db-drop-ignored goes unless it is locked.
DropIgnored(bad) ==
    /\ cur \in opts.ignored /\ opts.drop_ignored
    /\ LET p    == Preserve(cur, access[FirstRoot][cur], bad)
           keep == Answer(p.result, Global)
       IN /\ status' = AfterAsk(status, p.result, Global)
          /\ violation' = (violation \/ (keep /\ p.reported))
          /\ pc' = IF keep \/ status' # {"SUCCESS"} THEN "fetch" ELSE "delete"

\* Mutants of Drops: an unreadable file is a lost one, with or without the switch;
\* the switch is forgotten.
DropsUnreadable(acc) == acc # "ALLOWED"
DropsMissing(acc) == acc = "NOT_FOUND"

\* What faccessat() must say of a file for its row to go.
Drops(acc) == acc = "NOT_FOUND" \/ opts.drop_inaccessible

\* Every other row: is its file still there?
Probe(bad) ==
    /\ cur \notin opts.ignored
    /\ LET acc    == access[FirstRoot][cur]
           r      == LockedUnavailableViolation(cur, bad = 1)
           locked == Answer(r, Global)
       IN IF acc = "ALLOWED"
          THEN pc' = "fetch" /\ UNCHANGED <<status, violation>>
          ELSE /\ status' = AfterAsk(status, r, Global)
               /\ violation' = (violation \/ locked)
               /\ pc' = IF ~locked /\ status' = {"SUCCESS"} /\ Drops(acc)
                        THEN "delete" ELSE "fetch"

Judge ==
    /\ pc = "judge"
    /\ \E bad \in 0..2 :
          /\ LockChecks(bad)
          /\ KeepIgnored(bad) \/ DropIgnored(bad) \/ Probe(bad)
    /\ UNCHANGED <<envVars, baseVars, rowVars, signalVars, pending, cur>>

\* db_delete_the_record_by_id(), after the check that the transaction is open.
Delete ==
    /\ pc = "delete"
    /\ pc' = "fetch"
    /\ \/ /\ ~opts.dry_run /\ autocommit
          /\ status' = {"FAILURE"}
          /\ UNCHANGED rowVars /\ NoFault
       \/ /\ opts.dry_run \/ ~autocommit
          /\ status' = Provide({"SUCCESS"}, Global)
          /\ working' = IF opts.dry_run THEN working ELSE [working EXCEPT ![cur] = FALSE]
          /\ UNCHANGED <<durable, autocommit>> /\ NoFault
       \/ /\ opts.dry_run \/ ~autocommit
          /\ Fault
          /\ status' = Provide({"FAILURE"}, Global)
          /\ UNCHANGED rowVars \/ (~opts.dry_run /\ AutoRollback)
    /\ UNCHANGED <<envVars, baseVars, signalVars, pending, cur, violation>>

\* The remembered message about a row is written through the same connection;
\* when that fails the transaction may be gone, and nobody is told.
RememberFails ==
    /\ pc = "fetch" /\ ~autocommit /\ cur # NoFile
    /\ Fault
    /\ AutoRollback
    /\ UNCHANGED <<envVars, baseVars, pc, signalVars, status, pending, cur, violation>>

-----------------------------------------------------------------------------
(***************************************************************************)
(* After the loop.                                                         *)
(***************************************************************************)

\* Mutant of Outcome: WARNING and the local status alone are returned.
LocalOutcome(s) == IF violation THEN {"WARNING"} ELSE s \ {"HALTED"}

\* The status the function returns when s is left after the transaction ended.
Outcome(s) ==
    LET freed == AfterCall(s, Provide({"SUCCESS"}, Global), Global)
    IN Provide(IF violation /\ freed = {"SUCCESS"} THEN {"WARNING"} ELSE freed, Global)

\* Mutant of Finish: COMMIT only after plain SUCCESS, so that Ctrl+C rolls back.
FinishUnlessHalted ==
    /\ pc = "fetch"
    /\ pending = {} \/ ~Succeeded \/ interrupted
    /\ pc' = "done"
    /\ IF Succeeded
       THEN durable' = working /\ autocommit' = TRUE /\ UNCHANGED working
       ELSE AutoRollback
    /\ status' = Outcome(status)
    /\ UNCHANGED <<envVars, baseVars, signalVars, pending, cur, violation,
                   calm, faults>>

\* COMMIT without a failure, by Ctrl+C too; otherwise ROLLBACK.
Finish ==
    /\ pc = "fetch"
    /\ pending = {} \/ ~Succeeded \/ interrupted
    /\ pc' = "done"
    /\ \/ /\ opts.dry_run
          /\ status' = Outcome(status) /\ UNCHANGED rowVars /\ NoFault
       \/ /\ ~opts.dry_run /\ "FAILURE" \notin status /\ ~autocommit
          /\ durable' = working /\ autocommit' = TRUE /\ UNCHANGED working
          /\ status' = Outcome(status) /\ NoFault
       \/ /\ ~opts.dry_run
          /\ "FAILURE" \in status \/ autocommit
          /\ AutoRollback
          /\ status' = Outcome(IF "FAILURE" \in status THEN status ELSE {"FAILURE"})
          /\ NoFault
       \/ /\ "FAILURE" \notin status
          /\ Fault
          /\ AutoRollback
          /\ status' = Outcome({"FAILURE"})
    /\ UNCHANGED <<envVars, baseVars, signalVars, pending, cur, violation>>

-----------------------------------------------------------------------------
(***************************************************************************)
(* Everything else.                                                        *)
(***************************************************************************)

\* signal_notify_quit_handler().  The HALTED it stores is overwritten at once when
\* the signal lands between the load and the store of global_return_status in
\* rational_normalize_return(); the flag stays.
Interrupt ==
    /\ pc # "done" /\ ~halted
    /\ interrupted' = TRUE
    /\ halted' \in BOOLEAN
    /\ calm' = FALSE
    /\ UNCHANGED <<envVars, baseVars, rowVars, pc, status, pending, cur, violation, faults>>

Crash ==
    /\ pc # "done"
    /\ Fault
    /\ AutoRollback
    /\ pc' = "done"
    /\ status' = {"FAILURE"}
    /\ UNCHANGED <<envVars, baseVars, signalVars, pending, cur, violation>>

\* A file vanishes, appears, or becomes readable or unreadable.
EnvAccess ==
    /\ edits < MaxEdits
    /\ edits' = edits + 1
    /\ \E r \in Roots, f \in Files, a \in AccessKinds :
          a # access[r][f] /\ access' = [access EXCEPT ![r][f] = a]
    /\ lost' = lost \cup Everywhere(access', {"NOT_FOUND"})
    /\ denied' = denied \cup Everywhere(access', Unavailable)
    /\ calm' = FALSE
    /\ UNCHANGED <<baseVars, rowVars, pc, signalVars, status, pending, cur,
                   violation, faults>>

Program == Return \/ RootPathFails \/ Begin \/ (\E f \in Files : Fetch(f)) \/ Judge \/ Delete \/ Finish

Next == Program \/ RememberFails \/ Interrupt \/ Crash \/ EnvAccess

Spec == Init /\ [][Next]_vars

\* The program keeps running; nothing else has to happen.
FairSpec == Spec /\ WF_vars(Program)

-----------------------------------------------------------------------------
(***************************************************************************)
(* Properties.                                                             *)
(***************************************************************************)

\* Every variable has its type; the local status holds no pending yes/no
\* answer, which the next provide(), run() or call() would turn into FAILURE.
TypeOK ==
    /\ access \in [Roots -> [Files -> Access]]
    /\ durable \in [Files -> BOOLEAN] /\ working \in [Files -> BOOLEAN]
    /\ before \in [Files -> BOOLEAN]
    /\ autocommit \in BOOLEAN
    /\ pc \in {"start", "fetch", "judge", "delete", "done"}
    /\ opts \in CleanupOptions
    /\ interrupted \in BOOLEAN /\ (halted => interrupted) /\ violation \in BOOLEAN /\ calm \in BOOLEAN
    /\ status \in SUBSET {"SUCCESS", "FAILURE", "HALTED", "WARNING"}
    /\ pending \subseteq Files /\ lost \subseteq Files /\ denied \subseteq Files
    /\ cur \in Files \cup {NoFile}
    /\ edits \in 0..MaxEdits /\ faults \in 0..MaxFaults

\* The row of a checksum-locked path is never dropped, whatever interrupt,
\* failing regexp or failing SQLite call meets the checks that protect it.
LockedRowIsKept ==
    \A f \in opts.locked : before[f] => durable[f] /\ working[f]

\* A row that is gone has a reason that was true at some moment of this cleanup:
\* it is ignored and --db-drop-ignored is given, its file existed below no root,
\* or it was readable below no root and --db-drop-inaccessible is given.
DropHasCause ==
    \A f \in Files : before[f] /\ ~durable[f] =>
        \/ f \in opts.ignored /\ opts.drop_ignored
        \/ f \in lost
        \/ f \in denied /\ opts.drop_inaccessible

\* What an undisturbed cleanup should keep, stated without the code's order.
Kept(f) ==
    LET acc == access[FirstRoot][f]
    IN \/ f \in opts.locked
       \/ f \in opts.ignored /\ ~opts.drop_ignored
       \/ f \notin opts.ignored /\ acc = "ALLOWED"
       \/ f \notin opts.ignored /\ acc # "NOT_FOUND" /\ ~opts.drop_inaccessible

\* An undisturbed cleanup keeps exactly the rows it should keep, and a dry run
\* or a run without --update keeps all of them.
CleanupIsExact ==
    pc = "done" /\ calm =>
        \A f \in Files :
            durable[f] <=> before[f] /\ (Kept(f) \/ opts.dry_run \/ ~opts.update)

\* An undisturbed cleanup returns WARNING exactly when the file of a locked row
\* is unavailable, ignored or not, dropped as ignored or not.
LockedLossIsReported ==
    pc = "done" /\ calm /\ opts.update =>
        ("WARNING" \in status <=>
            \E f \in opts.locked : before[f] /\ access[FirstRoot][f] # "ALLOWED")

\* Without a technical failure the function does not return FAILURE: no Ctrl+C,
\* wherever it lands among the ask() and provide() calls, turns into one.  A HALTED
\* that global_return_status kept is part of what is returned.
InterruptIsNoFailure ==
    pc = "done" /\ faults = 0 =>
        /\ "FAILURE" \notin status
        /\ halted => "HALTED" \in status

\* The cleanup as a user of AtomicBatch.
BatchPhase ==
    IF pc \in {"start", "done"} THEN "closed"
    ELSE IF "FAILURE" \in status \/ (autocommit /\ ~opts.dry_run) THEN "broken"
    ELSE "open"

Batch == INSTANCE AtomicBatch WITH
            Keys <- Files, Values <- BOOLEAN, phase <- BatchPhase

\* The cleanup implements AtomicBatch: its deletions become durable together when
\* it ends without a technical failure, after Ctrl+C too; they are thrown away only
\* because of a failure or a crash, and then all of them are.
ImplementsAtomicBatch == Batch!Spec

\* The cleanup ends.
CleanupEnds == <>(pc = "done")

=============================================================================
