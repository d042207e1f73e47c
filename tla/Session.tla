------------------------------ MODULE Session ------------------------------
(***************************************************************************)
(* precizer as its user meets it: one process after another on one         *)
(* database file.  A process is the pipeline of main(): every phase is     *)
(* called through run(), which skips it after a WARNING, a FAILURE or an   *)
(* interrupt, or through call(), which does not.  The phases exchange      *)
(* state through Config and through the database.                          *)
(*                                                                         *)
(* The phases that have a module of their own are reduced to what the      *)
(* pipeline sees of them: Scan to FileScan, Cleanup to Cleanup,            *)
(* CheckVersion to Migration, CompareDatabases to Compare.                 *)
(***************************************************************************)
EXTENDS ReturnStatus, Naturals

CONSTANTS
    Roots,       \* spellings of traversal roots
    Names,       \* relative paths of files
    Closed,      \* the content of a root that cannot be opened
    Trees,       \* what the roots may hold: functions from Roots
    Alterations, \* sets of files that may have been edited since they were saved
    Databases,   \* the database before the first process
    Commands,    \* command lines
    MaxRuns,     \* processes started
    MaxFaults    \* calls that fail and processes that are killed, together

\* What the pipeline reads of Config.
Command ==
    [info    : BOOLEAN,         \* --help, --usage, --version
     compare : BOOLEAN,
     update  : BOOLEAN,
     force   : BOOLEAN,
     dry_run : BOOLEAN,
     roots   : SUBSET Roots,
     locked  : SUBSET Names]    \* paths matched by --lock-checksum

\* No file, one of zero bytes, of an older format, of this one, of a newer one.
Layouts == {"absent", "empty", "old", "current", "newer"}

Database == [layout : Layouts, prefixes : SUBSET Roots, rows : SUBSET Names]

\* What a root holds.
Listing == {Closed} \cup SUBSET Names

\* parse_arguments() discards the roots of a --compare run, and a file without
\* tables has no rows.
ASSUME SessionAssumption ==
    /\ Commands \subseteq Command
    /\ \A c \in Commands : c.compare => c.roots = {}
    /\ Trees \subseteq [Roots -> Listing]
    /\ Alterations \subseteq SUBSET Names
    /\ Databases \subseteq Database
    /\ \A d \in Databases :
          d.layout \in {"absent", "empty"} => d.prefixes = {} /\ d.rows = {}
    /\ \A s \in SUBSET Names : s # Closed
    /\ MaxRuns \in Nat /\ MaxFaults \in Nat

VARIABLES
    \* The database file.
    layout,     \* what a reader of the file finds
    prefixes,   \* the table "paths"
    rows,       \* relative paths in the table "files"
    journal,    \* "hot": a rollback journal that SQLite must play back
    \* The file system below the roots.
    tree,       \* the files of each root
    altered,    \* files whose metadata no longer match their rows
    \* The process.
    pc,         \* the phase that comes next
    opt,        \* its command line
    status,     \* main's status
    flag,       \* global_interrupt_flag
    g,          \* global_return_status
    exists,     \* config->db_primary_file_exists
    mode,       \* config->sqlite_open_flag
    conn,       \* config->db is open
    obsolete,   \* the temporary table the_path_id_does_not_exists
    modified,   \* config->db_primary_file_modified
    todo,       \* entries that fts_read() has not returned
    batch,      \* rows written and not committed
    \* Observations.
    before,     \* prefixes and rows at the start of the process
    touched,    \* the database file has been written to by this process
    reported,   \* locked files that were reported as violations
    ran,        \* phases that were not skipped
    internal,   \* "Internal error" was logged
    disturbed,  \* Ctrl+C or a failing call in this process
    runs, faults

dbVars   == <<layout, prefixes, rows, journal>>
treeVars == <<tree, altered>>
sigVars  == <<flag, g>>
cfgVars  == <<opt, exists, mode, conn, obsolete>>
scanVars == <<todo, batch>>
obsVars  == <<before, reported, internal, runs>>
vars == <<dbVars, treeVars, sigVars, cfgVars, scanVars, obsVars, pc, status,
          modified, touched, ran, faults, disturbed>>

Modes == {"READONLY", "READWRITE", "CREATE", "DRY_RUN"}

\* The calls of main(), each with the one that follows it.
After ==
    [parse |-> "paths", paths |-> "signals", signals |-> "existence",
     existence |-> "mode", mode |-> "test", test |-> "init", init |-> "compare",
     compare |-> "contains", contains |-> "validate", validate |-> "prefixes",
     prefixes |-> "count", count |-> "scan", scan |-> "cleanup",
     cleanup |-> "remember", remember |-> "close", close |-> "vacuum",
     vacuum |-> "changes", changes |-> "exit"]

Called == {"remember", "close"}

\* Steps inside of db_primary_file_test(), db_init() and file_list().
Inner == {"version", "tables", "walk"}

NoCommand ==
    [info |-> FALSE, compare |-> FALSE, update |-> FALSE, force |-> FALSE,
     dry_run |-> FALSE, roots |-> {}, locked |-> {}]

Running == pc # "idle"

-----------------------------------------------------------------------------
(***************************************************************************)
(* Passing from phase to phase.                                            *)
(***************************************************************************)

\* run() executes its function.
Enter(p) == pc = p /\ ~Has(status, SKIP)

\* The function returned r; p is the phase it was called for.
Return(p, r) ==
    /\ status' = AfterCall(status, Provide(r, g), g)
    /\ pc' = After[p]
    /\ ran' = ran \cup {p}

Stay(p) == pc' = p /\ UNCHANGED <<status, ran>>

\* Every call of SQLite and of the operating system may fail.
Fault ==
    /\ faults < MaxFaults
    /\ faults' = faults + 1
    /\ disturbed' = TRUE

NoFault == UNCHANGED <<faults, disturbed>>

\* run() skips its function.
Skip ==
    /\ pc \in DOMAIN After \ Called
    /\ Has(status, SKIP)
    /\ pc' = After[pc]
    /\ UNCHANGED <<dbVars, treeVars, sigVars, cfgVars, scanVars, obsVars, status,
                   modified, touched, ran, faults, disturbed>>

\* A phase that only returns something.
Only(p, r) ==
    /\ Return(p, r)
    /\ UNCHANGED <<dbVars, treeVars, sigVars, cfgVars, scanVars, obsVars,
                   modified, touched>>

Fails(p) == Fault /\ Only(p, {"FAILURE"})

Succeeds(p) == NoFault /\ Only(p, {"SUCCESS"})

\* init_config(), in the file system that the process finds.
StartRun ==
    /\ pc = "idle" /\ runs < MaxRuns
    /\ \E c \in Commands, t \in Trees, a \in Alterations :
        opt' = c /\ tree' = t /\ altered' = a
    /\ pc' = "parse"
    /\ before' = [prefixes |-> prefixes, rows |-> rows]
    /\ runs' = runs + 1
    /\ UNCHANGED <<dbVars, sigVars, exists, mode, conn, obsolete, scanVars, reported,
                   internal, status, modified, touched, ran, faults, disturbed>>

\* A process ends and takes its memory with it.
ProcessEnds ==
    /\ pc' = "idle" /\ opt' = NoCommand /\ altered' = {}
    /\ tree' = [d \in Roots |-> Closed]
    /\ status' = {"SUCCESS"} /\ flag' = FALSE /\ g' = {"SUCCESS"}
    /\ exists' = FALSE /\ mode' = "READONLY" /\ conn' = FALSE /\ obsolete' = {}
    /\ modified' = FALSE /\ touched' = FALSE /\ todo' = {} /\ batch' = {}
    /\ before' = [prefixes |-> {}, rows |-> {}]
    /\ reported' = {} /\ ran' = {} /\ internal' = FALSE /\ disturbed' = FALSE

-----------------------------------------------------------------------------
(***************************************************************************)
(* Up to the open database.                                                *)
(***************************************************************************)

\* parse_arguments() and compile_patterns().
ParseArguments ==
    /\ Enter("parse")
    /\ \/ NoFault /\ Only("parse", IF opt.info THEN {"INFO", "HALTED"} ELSE {"SUCCESS"})
       \/ Fails("parse")

PathsDetect ==
    /\ Enter("paths")
    /\ NoFault
    /\ Only("paths", IF ~opt.compare /\ opt.roots = {} THEN {"FAILURE"} ELSE {"SUCCESS"})

InitSignals == Enter("signals") /\ (Succeeds("signals") \/ Fails("signals"))

\* db_determine_name() and db_primary_file_validate_existence(), which takes
\* the metadata of the file that db_check_changes() compares with.
ValidateExistence ==
    /\ Enter("existence")
    /\ \/ /\ NoFault
          /\ Return("existence", {"SUCCESS"})
          /\ exists' = (IF flag THEN exists ELSE ~opt.compare /\ layout # "absent")
          /\ UNCHANGED <<dbVars, treeVars, sigVars, opt, mode, conn, obsolete, scanVars,
                         obsVars, modified, touched>>
       \/ Fails("existence")

\* The open mode for a file that exists, or does not.
ModeFor(there) ==
    CASE opt.compare \/ (opt.dry_run /\ there)       -> "READONLY"
      [] ~opt.compare /\ opt.dry_run /\ ~there       -> "DRY_RUN"
      [] ~opt.compare /\ ~opt.dry_run /\ there       -> "READWRITE"
      [] ~opt.compare /\ ~opt.dry_run /\ ~there      -> "CREATE"

DetermineMode ==
    /\ Enter("mode")
    /\ NoFault
    /\ LET refused == ~flag /\ ~opt.compare /\ opt.update /\ ~exists
       IN  /\ Return("mode", IF refused THEN {"FAILURE"} ELSE {"SUCCESS"})
           /\ mode' = (IF flag \/ refused THEN mode ELSE ModeFor(exists))
    /\ UNCHANGED <<dbVars, treeVars, sigVars, opt, exists, conn, obsolete, scanVars,
                   obsVars, modified, touched>>

\* db_primary_file_test(): the integrity check opens the file read-only.  SQLite
\* refuses to read a file with a hot journal through such a connection.
TestFile ==
    /\ Enter("test")
    /\ \/ /\ flag \/ ~exists
          /\ Succeeds("test")
       \/ /\ ~flag /\ exists /\ journal = "hot"
          /\ NoFault /\ Only("test", {"FAILURE"})
       \/ /\ ~flag /\ exists /\ journal = "none"
          /\ Stay("version") /\ NoFault
          /\ UNCHANGED <<dbVars, treeVars, sigVars, cfgVars, scanVars, obsVars,
                         modified, touched>>
       \/ ~flag /\ exists /\ Fails("test")

\* Versions before the current one; a file without tables counts as version 0.
Outdated == layout \in {"empty", "old"}

\* Mutant of CheckVersion: refuses every version but the current one.
CheckVersionStrictly ==
    /\ pc = "version"
    /\ NoFault
    /\ Only("test", IF layout = "current" THEN {"SUCCESS"} ELSE {"FAILURE"})

\* db_check_version() and db_upgrade().  A file without the table "files"
\* cannot be migrated.  A dry run takes the helpers' word for it.
CheckVersion ==
    /\ pc = "version"
    /\ \/ /\ flag \/ layout = "current" \/ (Outdated /\ opt.update /\ opt.dry_run)
          /\ Succeeds("test")
       \/ /\ ~flag
          /\ layout = "newer" \/ (Outdated /\ ~opt.update)
          /\ NoFault /\ Only("test", {"WARNING"})
       \/ /\ ~flag /\ layout = "empty" /\ opt.update /\ ~opt.dry_run
          /\ NoFault /\ Only("test", {"FAILURE"})
       \/ /\ ~flag /\ layout = "old" /\ opt.update /\ ~opt.dry_run
          /\ layout' = "current" /\ modified' = TRUE /\ touched' = TRUE
          /\ NoFault /\ Return("test", {"SUCCESS"})
          /\ UNCHANGED <<prefixes, rows, journal, treeVars, sigVars, cfgVars, scanVars,
                         obsVars>>
       \/ ~flag /\ Fails("test")

\* db_init() up to sqlite3_open_v2(), which creates the file.
OpenDatabase ==
    /\ Enter("init")
    /\ \/ flag /\ Succeeds("init")
       \/ /\ ~flag
          /\ conn' = TRUE
          /\ layout' = (IF mode = "CREATE" THEN "empty" ELSE layout)
          /\ touched' = (touched \/ mode = "CREATE")
          /\ Stay("tables") /\ NoFault
          /\ UNCHANGED <<prefixes, rows, journal, treeVars, sigVars, opt, exists, mode,
                         obsolete, scanVars, obsVars, modified>>
       \/ ~flag /\ ~opt.compare /\ Fails("init")

\* The rest of db_init(): one transaction creates the tables of a new database.
InitTables ==
    /\ pc = "tables"
    /\ \/ /\ layout' = (IF mode = "CREATE" THEN "current" ELSE layout)
          /\ NoFault /\ Return("init", {"SUCCESS"})
          /\ UNCHANGED <<prefixes, rows, journal, treeVars, sigVars, cfgVars, scanVars,
                         obsVars, modified, touched>>
       \/ Fails("init")

-----------------------------------------------------------------------------
(***************************************************************************)
(* Between the open database and the traversal.                            *)
(***************************************************************************)

\* db_compare() opens two other files.
CompareDatabases ==
    /\ Enter("compare")
    /\ \/ Succeeds("compare")
       \/ ~flag /\ opt.compare /\ NoFault /\ Only("compare", {"WARNING"})
       \/ ~flag /\ opt.compare /\ Fails("compare")

\* The tables that the connection reads: a dry run without a file has its own.
Stored == IF mode = "DRY_RUN" THEN {} ELSE prefixes

\* Mutant of ContainsData: asks for rows of "files", not of "paths".
ContainsRows ==
    /\ Enter("contains")
    /\ \/ flag /\ Succeeds("contains")
       \/ /\ ~flag /\ NoFault
          /\ Only("contains",
                IF opt.compare \/ rows = {} \/ opt.update THEN {"SUCCESS"} ELSE {"WARNING"})

ContainsData ==
    /\ Enter("contains")
    /\ \/ (flag \/ opt.compare) /\ Succeeds("contains")
       \/ /\ ~flag /\ ~opt.compare /\ NoFault
          /\ Only("contains",
                IF mode # "DRY_RUN" /\ layout = "empty" THEN {"FAILURE"}
                ELSE IF Stored # {} /\ ~opt.update THEN {"WARNING"} ELSE {"SUCCESS"})
       \/ ~flag /\ ~opt.compare /\ Fails("contains")

\* Stored prefixes that are not among the roots of this run.
Foreign == Stored \ opt.roots

ValidatePaths ==
    /\ Enter("validate")
    /\ \/ (flag \/ opt.compare) /\ Succeeds("validate")
       \/ /\ ~flag /\ ~opt.compare /\ NoFault
          /\ obsolete' = Foreign
          /\ Return("validate",
                IF exists /\ Foreign # {} /\ ~opt.force THEN {"WARNING"} ELSE {"SUCCESS"})
          /\ UNCHANGED <<dbVars, treeVars, sigVars, opt, exists, mode, conn, scanVars,
                         obsVars, modified, touched>>
       \/ ~flag /\ ~opt.compare /\ Fails("validate")

\* Mutant of NewPrefixes: --force keeps the obsolete ones.
KeepsObsolete == prefixes \cup opt.roots

\* The prefixes after the transaction of db_save_prefixes().
NewPrefixes == (IF opt.force THEN prefixes \ obsolete ELSE prefixes) \cup opt.roots

\* db_save_prefixes() has a database on disk to write to.
SavesPrefixes == ~flag /\ ~opt.compare /\ ~opt.dry_run

\* Mutant of SavePrefixes: does not tell db_check_changes() of the change.
SavePrefixesSilently ==
    /\ Enter("prefixes")
    /\ \/ ~SavesPrefixes /\ Succeeds("prefixes")
       \/ /\ SavesPrefixes /\ NoFault
          /\ prefixes' = NewPrefixes
          /\ touched' = (touched \/ NewPrefixes # prefixes)
          /\ Return("prefixes", {"SUCCESS"})
          /\ UNCHANGED <<layout, rows, journal, treeVars, sigVars, cfgVars, scanVars,
                         obsVars, modified>>

SavePrefixes ==
    /\ Enter("prefixes")
    /\ \/ ~SavesPrefixes /\ Succeeds("prefixes")
       \/ /\ SavesPrefixes /\ NoFault
          /\ prefixes' = NewPrefixes
          /\ modified' = (modified \/ NewPrefixes # prefixes)
          /\ touched' = (touched \/ NewPrefixes # prefixes)
          /\ Return("prefixes", {"SUCCESS"})
          /\ UNCHANGED <<layout, rows, journal, treeVars, sigVars, cfgVars, scanVars,
                         obsVars>>
       \/ ~flag /\ ~opt.compare /\ Fails("prefixes")

-----------------------------------------------------------------------------
(***************************************************************************)
(* The traversal and the cleanup.                                          *)
(***************************************************************************)

\* file_list() as a stats-only pass.
CountFiles ==
    /\ Enter("count")
    /\ Succeeds("count") \/ (~opt.compare /\ Fails("count"))

\* Roots that directory_open_root() opens; the others are passed over.
OpenRoots == {d \in opt.roots : tree[d] # Closed}

ScanBegins ==
    /\ Enter("scan")
    /\ \/ opt.compare /\ Succeeds("scan")
       \/ /\ ~opt.compare /\ NoFault
          /\ todo' = UNION {tree[d] : d \in OpenRoots}
          /\ Stay("walk")
          /\ UNCHANGED <<dbVars, treeVars, sigVars, cfgVars, batch, obsVars, modified,
                         touched>>
       \/ ~opt.compare /\ Fails("scan")

\* A locked file that has a row is verified and never written again.
Sealed(n) == n \in opt.locked /\ n \in rows

WritesRow(n) == ~opt.dry_run /\ ~Sealed(n) /\ (n \notin rows \/ n \in altered)

\* Mutant of ScanFile: a file that changed is taken up again.
ScanFileAgain(n) ==
    /\ pc = "walk" /\ ~flag
    /\ n \in todo
    /\ todo' = (IF n \in altered THEN todo ELSE todo \ {n})
    /\ batch' = (IF WritesRow(n) THEN batch \cup {n} ELSE batch)
    /\ modified' = (modified \/ WritesRow(n))
    /\ UNCHANGED <<dbVars, treeVars, sigVars, cfgVars, obsVars, pc, status, touched, ran,
                   faults, disturbed>>

\* One entry of the traversal.
ScanFile(n) ==
    /\ pc = "walk" /\ ~flag
    /\ n \in todo
    /\ todo' = todo \ {n}
    /\ batch' = (IF WritesRow(n) THEN batch \cup {n} ELSE batch)
    /\ modified' = (modified \/ WritesRow(n))
    /\ reported' = (IF Sealed(n) /\ n \in altered THEN reported \cup {n} ELSE reported)
    /\ UNCHANGED <<dbVars, treeVars, sigVars, cfgVars, before, internal, runs, pc,
                   status, touched, ran, faults, disturbed>>

CommitBatch ==
    /\ rows' = rows \cup batch
    /\ touched' = (touched \/ batch # {})
    /\ batch' = {}

\* The deadline of the batch passes.
BatchDeadline ==
    /\ pc = "walk" /\ batch # {} /\ ~flag
    /\ CommitBatch
    /\ UNCHANGED <<layout, prefixes, journal, treeVars, sigVars, cfgVars, todo, obsVars, pc,
                   status, modified, ran, faults, disturbed>>

\* file_list() reports a violation only with an otherwise clean status.
ScanStatus ==
    LET own == Normalize({"SUCCESS"}, g)
    IN  IF reported # {} /\ own = {"SUCCESS"} THEN {"WARNING"} ELSE own

ScanEnds ==
    /\ pc = "walk"
    /\ \/ /\ todo = {} \/ flag
          /\ CommitBatch
          /\ NoFault /\ Return("scan", ScanStatus)
       \/ /\ batch' = {}
          /\ Fault /\ Return("scan", {"FAILURE"})
          /\ UNCHANGED <<rows, touched>>
    /\ UNCHANGED <<layout, prefixes, journal, treeVars, sigVars, cfgVars, todo, obsVars,
                   modified>>

\* Mutant of Lost: the SELECT leaves the locked paths out.
LostUnlocked(d) == IF tree[d] = Closed THEN {} ELSE rows \ (tree[d] \cup opt.locked)

\* db_delete_missing_metadata() with the root d that db_retrieve_root_path() took
\* from the table "paths".
Lost(d) == IF tree[d] = Closed THEN {} ELSE rows \ tree[d]

\* Mutant of Dropped: a dry run deletes, too.
DroppedAnyway(d) == Lost(d) \ opt.locked

\* Dry runs report and delete nothing.
Dropped(d) == IF opt.dry_run THEN {} ELSE Lost(d) \ opt.locked

CleanupBelow(d) ==
    /\ rows' = rows \ Dropped(d)
    /\ modified' = (modified \/ Dropped(d) # {})
    /\ touched' = (touched \/ Dropped(d) # {})
    /\ reported' = reported \cup (Lost(d) \cap opt.locked)
    /\ NoFault
    /\ Return("cleanup", IF Lost(d) \cap opt.locked = {} THEN {"SUCCESS"} ELSE {"WARNING"})
    /\ UNCHANGED <<layout, prefixes, journal, treeVars, sigVars, cfgVars, scanVars, before,
                   internal, runs>>

Cleans == ~flag /\ ~opt.compare /\ opt.update

DeleteMissing ==
    /\ Enter("cleanup")
    /\ \/ ~Cleans /\ Succeeds("cleanup")
       \/ Cleans /\ (\E d \in prefixes : CleanupBelow(d))
       \/ Cleans /\ prefixes = {} /\ NoFault /\ Only("cleanup", {"FAILURE"})
       \/ Cleans /\ Fails("cleanup")

-----------------------------------------------------------------------------
(***************************************************************************)
(* The end of the process.                                                 *)
(***************************************************************************)

\* call(show_remembered_messages())
ShowRemembered ==
    /\ pc = "remember"
    /\ Succeeds("remember") \/ (conn /\ Fails("remember"))

\* call(db_close())
CloseDatabase ==
    /\ pc = "close"
    /\ \/ /\ conn' = FALSE
          /\ NoFault /\ Return("close", {"SUCCESS"})
          /\ UNCHANGED <<dbVars, treeVars, sigVars, opt, exists, mode, obsolete, scanVars,
                         obsVars, modified, touched>>
       \/ conn /\ Fails("close")

Vacuums == ~flag /\ ~opt.compare /\ ~opt.dry_run /\ modified

ConsiderVacuum ==
    /\ Enter("vacuum")
    /\ \/ ~Vacuums /\ Succeeds("vacuum")
       \/ /\ Vacuums /\ touched' = TRUE
          /\ NoFault /\ Return("vacuum", {"SUCCESS"})
          /\ UNCHANGED <<dbVars, treeVars, sigVars, cfgVars, scanVars, obsVars, modified>>
       \/ Vacuums /\ Fails("vacuum")

\* db_check_changes() is asked about a file that was there before.
ChecksChanges == ~opt.compare /\ ~flag /\ exists

\* status_of_changes() and db_check_changes(): the metadata of the file must have
\* changed exactly when db_primary_file_modified says so.
StatusOfChanges ==
    /\ Enter("changes")
    /\ \/ ~ChecksChanges /\ Succeeds("changes")
       \/ /\ ChecksChanges /\ NoFault
          /\ internal' = (touched # modified)
          /\ Return("changes", IF touched = modified THEN {"SUCCESS"} ELSE {"WARNING"})
          /\ UNCHANGED <<dbVars, treeVars, sigVars, cfgVars, scanVars, before, reported,
                         runs, modified, touched>>
       \/ ChecksChanges /\ Fails("changes")

\* Mutant of ExitCode: does not look at the interrupt.
ExitCodeOfStatus == IF Has(status, TRIUMPH) THEN {} ELSE status

\* exit_status(): the flags of the exit code, none for COMPLETED.
ExitCode == IF ~flag /\ Has(status, TRIUMPH) THEN {} ELSE status

Exit ==
    /\ pc = "exit"
    /\ ProcessEnds
    /\ UNCHANGED <<dbVars, runs, faults>>

-----------------------------------------------------------------------------
(***************************************************************************)
(* Everybody else.                                                         *)
(***************************************************************************)

\* signal_notify_quit_handler().  When it runs while rational_normalize_return()
\* holds a copy of global_return_status, the stored HALTED is overwritten.
Interrupt ==
    /\ Running /\ pc \notin {"parse", "paths", "signals"} /\ ~flag
    /\ flag' = TRUE
    /\ g' \in {g, {"HALTED"}}
    /\ disturbed' = TRUE
    /\ UNCHANGED <<dbVars, treeVars, cfgVars, scanVars, obsVars, pc, status, modified,
                   touched, ran, faults>>

\* The next step of the process commits a transaction to the file.
Committing ==
    \/ pc = "version" /\ layout = "old" /\ opt.update /\ ~opt.dry_run
    \/ pc = "tables" /\ mode = "CREATE"
    \/ Enter("prefixes") /\ SavesPrefixes /\ NewPrefixes # prefixes
    \/ pc = "walk" /\ batch # {}
    \/ Enter("cleanup") /\ Cleans /\ (\E d \in prefixes : Dropped(d) # {})
    \/ Enter("vacuum") /\ Vacuums

\* kill -9 or a power loss.  Once pages of the database have been overwritten,
\* the journal that holds their old content is hot.
Stop ==
    /\ Running /\ faults < MaxFaults
    /\ faults' = faults + 1
    /\ ProcessEnds
    /\ journal' \in (IF Committing THEN {"none", "hot"} ELSE {journal})
    /\ UNCHANGED <<layout, prefixes, rows, runs>>

\* Another program opens the database for writing, and SQLite plays the journal
\* back.
PlayBack ==
    /\ ~Running /\ journal = "hot"
    /\ journal' = "none"
    /\ UNCHANGED <<layout, prefixes, rows, treeVars, sigVars, cfgVars, scanVars, obsVars, pc,
                   status, modified, touched, ran, faults, disturbed>>

-----------------------------------------------------------------------------
\* A database as earlier processes left it, or none.
Init ==
    /\ \E d \in Databases :
        layout = d.layout /\ prefixes = d.prefixes /\ rows = d.rows
    /\ journal = "none"
    /\ pc = "idle" /\ opt = NoCommand /\ altered = {}
    /\ tree = [d \in Roots |-> Closed]
    /\ status = {"SUCCESS"} /\ flag = FALSE /\ g = {"SUCCESS"}
    /\ exists = FALSE /\ mode = "READONLY" /\ conn = FALSE /\ obsolete = {}
    /\ modified = FALSE /\ touched = FALSE /\ todo = {} /\ batch = {}
    /\ before = [prefixes |-> {}, rows |-> {}]
    /\ reported = {} /\ ran = {} /\ internal = FALSE /\ disturbed = FALSE
    /\ runs = 0 /\ faults = 0

\* The one thread of the process.
Program ==
    \/ Skip
    \/ ParseArguments \/ PathsDetect \/ InitSignals \/ ValidateExistence
    \/ DetermineMode \/ TestFile \/ CheckVersion \/ OpenDatabase \/ InitTables
    \/ CompareDatabases \/ ContainsData \/ ValidatePaths \/ SavePrefixes
    \/ CountFiles \/ ScanBegins \/ (\E n \in Names : ScanFile(n))
    \/ BatchDeadline \/ ScanEnds \/ DeleteMissing
    \/ ShowRemembered \/ CloseDatabase \/ ConsiderVacuum \/ StatusOfChanges \/ Exit

Next == StartRun \/ Program \/ Interrupt \/ Stop \/ PlayBack

Spec == Init /\ [][Next]_vars

\* The thread goes on running.
FairSpec == Spec /\ WF_vars(Program)

-----------------------------------------------------------------------------
(***************************************************************************)
(* Properties.                                                             *)
(***************************************************************************)

TypeOK ==
    /\ layout \in Layouts /\ journal \in {"none", "hot"}
    /\ prefixes \subseteq Roots /\ rows \subseteq Names
    /\ tree \in [Roots -> Listing] /\ altered \subseteq Names
    /\ pc \in DOMAIN After \cup Inner \cup {"idle", "exit"}
    /\ opt \in Command /\ status \subseteq Flags \ {"AWAITING"}
    /\ flag \in BOOLEAN /\ g \in {{"SUCCESS"}, {"HALTED"}}
    /\ exists \in BOOLEAN /\ mode \in Modes /\ conn \in BOOLEAN
    /\ obsolete \subseteq Roots /\ modified \in BOOLEAN /\ touched \in BOOLEAN
    /\ todo \subseteq Names /\ batch \subseteq Names
    /\ before \in [prefixes : SUBSET Roots, rows : SUBSET Names]
    /\ reported \subseteq Names /\ ran \subseteq DOMAIN After
    /\ internal \in BOOLEAN /\ disturbed \in BOOLEAN
    /\ runs \in Nat /\ faults \in Nat

\* Without --update the data of an existing database stays as it is, and without
\* --force no stored root is forgotten: db_contains_data(), db_validate_paths(),
\* db_save_prefixes() and file_list() together, whatever interrupts them.
StoredDataIsProtected ==
    Running =>
        /\ ~opt.update /\ before.prefixes # {} =>
              rows = before.rows /\ prefixes = before.prefixes
        /\ ~opt.force => before.prefixes \subseteq prefixes

\* The traversal never adds rows to a database that does not name exactly the
\* roots being traversed.
WalkKnowsItsRoots ==
    pc = "walk" /\ batch # {} => prefixes = opt.roots

\* --help, --compare and --dry-run leave the database file alone.
ReadOnlyModesWriteNothing ==
    Running /\ (opt.info \/ opt.compare \/ opt.dry_run) =>
        /\ ~touched /\ ~modified
        /\ rows = before.rows /\ prefixes = before.prefixes

\* db_check_changes() says of its error messages that they "should not have
\* happened": the flag db_primary_file_modified agrees with the file.
ChangeFlagIsRight == ~internal

\* The exit code 0 of a run that was asked to work: no phase was skipped, nothing
\* was reported, nothing failed, and the database is closed.
ExitZeroIsClean ==
    pc = "exit" /\ ExitCode = {} /\ ~opt.info =>
        /\ ran = DOMAIN After
        /\ reported = {} /\ ~disturbed /\ ~conn

\* A locked file in the tree that no longer matches its row.
Alarm ==
    \E d \in OpenRoots : opt.locked \cap before.rows \cap altered \cap tree[d] # {}

\* A completed --update of one open root removes the rows of all files that are
\* gone and reports the locked ones, except when the traversal raised an alarm:
\* then run() skips db_delete_missing_metadata().
MissingFilesAreHandledUnlessAlarm ==
    \A d \in OpenRoots :
        (/\ pc = "exit" /\ ~disturbed /\ "scan" \in ran
         /\ opt.update /\ ~opt.dry_run /\ opt.roots = {d})
        => \/ Alarm
           \/ /\ rows \subseteq tree[d] \cup opt.locked
              /\ (opt.locked \cap before.rows) \ tree[d] \subseteq reported

\* An --update that is entitled to work on the database.
Entitled ==
    /\ opt.update /\ ~opt.info /\ ~opt.compare /\ ~opt.dry_run
    /\ opt.roots # {} /\ (before.prefixes \subseteq opt.roots \/ opt.force)
    /\ exists

\* After an unexpected stop the next --update continues with what was saved.
NextUpdateWorks == pc = "exit" /\ ~disturbed /\ Entitled => "FAILURE" \notin status

\* The same, except for a hot journal, which the read-only integrity check cannot
\* play back, and for a file that was created and not filled.
NextUpdateWorksUnlessLeftover ==
    pc = "exit" /\ ~disturbed /\ Entitled /\ "FAILURE" \in status =>
        journal = "hot" \/ layout = "empty"

\* Every process ends.
RunEnds == Running ~> ~Running

=============================================================================
