--------------------------- MODULE SessionProofs ---------------------------
(***************************************************************************)
(* Proofs about the pipeline of main(), for any roots, files, command      *)
(* lines and databases, and any number of processes, interrupts and faults.*)
(***************************************************************************)
EXTENDS Session, ReturnStatusProofs

-----------------------------------------------------------------------------
(***************************************************************************)
(* The status of main().                                                   *)
(***************************************************************************)

\* What the phases return, never the empty set of flags.
Results == {{"SUCCESS"}, {"FAILURE"}, {"WARNING"}, {"INFO", "HALTED"}, {"SUCCESS", "HALTED"}}

Statuses == (SUBSET {"SUCCESS", "FAILURE", "WARNING", "INFO", "HALTED"}) \ {{}}

\* Nothing but problems.
Problem(s) == s \subseteq CRITICAL /\ s # {}

\* The status after a phase returned r: problems stay and are not invented.
LEMMA AfterPhase ==
    ASSUME status \in Statuses, g \in Globals, NEW r \in Results
    PROVE  LET s == AfterCall(status, Provide(r, g), g)
           IN  /\ s \in Statuses
               /\ Has(status, SKIP) => Has(s, SKIP)
               /\ "FAILURE" \in s <=> "FAILURE" \in status \/ r = {"FAILURE"}
               /\ r # {"SUCCESS"} => Has(s, SKIP)
               /\ Has(status, CRITICAL) => Has(s, CRITICAL)
               /\ s = {"SUCCESS"} => status \subseteq {"SUCCESS"} /\ r = {"SUCCESS"}
               /\ g = {"SUCCESS"} /\ "HALTED" \notin r =>
                     /\ status = {"SUCCESS"} => s = r
                     /\ Problem(status) => Problem(s)
<1> DEFINE p == Provide(r, g)
           s == AfterCall(status, p, g)
<1>1. status \in Plain /\ r \in Plain
  BY DEF Statuses, Results, Plain, Flags
<1>2. /\ p \in Plain
      /\ \A x : x \in p <=> \/ x = "HALTED" /\ g = {"HALTED"}
                            \/ x \in r
  BY <1>1, ProvidePlain DEF Results, Has, CRITICAL
<1> HIDE DEF p
<1>3. \A x : x \in s <=>
            \/ x = "HALTED" /\ g = {"HALTED"}
            \/ x \in status \cup p /\ ~(x = "SUCCESS" /\ Has(status \cup p, CRITICAL))
  BY <1>1, <1>2, CallPlain
<1>4. \A x : x \in s <=>
            \/ x = "HALTED" /\ g = {"HALTED"}
            \/ x \in status \cup r /\ ~(x = "SUCCESS" /\ Has(status \cup r, CRITICAL))
  BY <1>2, <1>3 DEF Has, CRITICAL
<1> HIDE DEF s
<1>5. s \in Statuses
  <2>1. s \subseteq {"SUCCESS", "FAILURE", "WARNING", "INFO", "HALTED"}
    BY <1>4 DEF Statuses, Results
  <2>2. \E x : x \in s
    <3>1. CASE Has(status \cup r, CRITICAL)
      <4>1. \E x \in status \cup r : x # "SUCCESS"
        BY <3>1 DEF Has, CRITICAL
      <4> QED
        BY <1>4, <4>1
    <3>2. CASE ~Has(status \cup r, CRITICAL)
      BY <1>4, <3>2 DEF Results
    <3> QED
      BY <3>1, <3>2
  <2> QED
    BY <2>1, <2>2 DEF Statuses
<1>6. /\ Has(status, SKIP) => Has(s, SKIP)
      /\ r # {"SUCCESS"} => Has(s, SKIP)
      /\ Has(status, CRITICAL) => Has(s, CRITICAL)
  BY <1>4 DEF Has, SKIP, CRITICAL, Results
<1>7. "FAILURE" \in s <=> "FAILURE" \in status \/ r = {"FAILURE"}
  BY <1>4 DEF Results
<1>8. ASSUME s = {"SUCCESS"} PROVE status \subseteq {"SUCCESS"} /\ r = {"SUCCESS"}
  <2>1. ~Has(status \cup r, CRITICAL)
    BY <1>4, <1>8
  <2> QED
    BY <1>4, <1>8, <2>1 DEF Results, Statuses, Has, CRITICAL
<1>9. ASSUME g = {"SUCCESS"}, "HALTED" \notin r
      PROVE (status = {"SUCCESS"} => s = r) /\ (Problem(status) => Problem(s))
  <2>1. \A x : x \in s <=> x \in status \cup r /\ ~(x = "SUCCESS" /\ Has(status \cup r, CRITICAL))
    BY <1>4, <1>9
  <2>2. Has({"SUCCESS"} \cup r, CRITICAL) <=> r # {"SUCCESS"}
    BY <1>9 DEF Results, Has, CRITICAL
  <2>3. status = {"SUCCESS"} => s = r
    <3>1. status = {"SUCCESS"} => \A x : x \in s <=> x \in r
      BY <1>9, <2>1, <2>2 DEF Results
    <3> QED
      BY <3>1
  <2>4. Problem(status) => Problem(s)
    BY <1>9, <2>1 DEF Problem, Results, Has, CRITICAL
  <2> QED
    BY <2>3, <2>4
<1> QED
  BY <1>5, <1>6, <1>7, <1>8, <1>9 DEF s, p

-----------------------------------------------------------------------------
(***************************************************************************)
(* The invariants.                                                         *)
(***************************************************************************)

\* The phases in their order; an inner step belongs to the phase around it.
Order ==
    [idle |-> 0, parse |-> 0, paths |-> 1, signals |-> 2, existence |-> 3, mode |-> 4,
     test |-> 5, version |-> 5, init |-> 6, tables |-> 6, compare |-> 7, contains |-> 8,
     validate |-> 9, prefixes |-> 10, count |-> 11, scan |-> 12, walk |-> 12,
     cleanup |-> 13, remember |-> 14, close |-> 15, vacuum |-> 16, changes |-> 17,
     exit |-> 18]

At == Order[pc]

\* The phases go on working on the database of this command line.
Ready == ~flag /\ ~Has(status, SKIP) /\ ~opt.compare

\* Only the handler sets the two variables that it shares with main().
SignalInv ==
    /\ g = {"HALTED"} => flag
    /\ flag => disturbed
    /\ At < 3 => ~flag

\* What is known of a process before it has looked at its database, and of the
\* phases that only a clean status enters.
StartInv ==
    /\ status \in Statuses
    /\ pc \in {"idle", "parse"} => status = {"SUCCESS"} /\ ~disturbed
    /\ pc = "idle" => ~opt.info
    /\ At < 4 => ~exists /\ ~modified /\ ~touched
    /\ At < 5 => mode = "READONLY"
    /\ pc \notin {"idle", "parse"} /\ opt.info => Has(status, SKIP)
    /\ pc \in Inner => ~Has(status, SKIP)
    /\ pc = "version" => exists
    /\ pc = "walk" => ~opt.compare
    /\ opt.compare => opt.roots = {}

\* The open mode tells what may be done to the database file.
ModeInv ==
    /\ exists => ~opt.compare
    /\ mode = "CREATE" => ~opt.compare /\ ~opt.dry_run /\ ~exists
    /\ mode = "DRY_RUN" => opt.dry_run

\* Rows are written only by the traversal of the roots that the database names,
\* and by a run that may change them.
BatchInv ==
    batch # {} =>
        /\ pc = "walk" /\ ~opt.dry_run /\ prefixes = opt.roots
        /\ opt.update \/ before.prefixes = {}

\* The stored data is the one that the process found until its own phases write.
KeepInv ==
    /\ Running /\ At <= 10 => prefixes = before.prefixes
    /\ Running /\ At <= 12 /\ pc # "walk" => rows = before.rows
    /\ Running /\ At <= 13 => before.rows \subseteq rows
    /\ At \in 9..13 /\ ~opt.update /\ ~opt.dry_run /\ before.prefixes # {} => ~Ready

\* A file that was not there holds no prefixes, a database that is worked on has
\* its tables, and behind db_save_prefixes() it names the roots of this run.
LayoutInv ==
    /\ layout \in {"absent", "empty"} => prefixes = {}
    /\ exists => layout # "absent"
    /\ At \in 4..10 /\ Ready /\ ~exists => prefixes = {}
    /\ At \in 5..6 /\ Ready /\ ~opt.dry_run /\ ~exists => mode = "CREATE"
    /\ pc = "tables" \/ At \in 7..13 => (Ready /\ ~opt.dry_run => layout # "absent")
    /\ At \in 9..13 => (Ready /\ ~opt.dry_run => layout # "empty")
    /\ pc = "prefixes" /\ Ready => obsolete = Foreign /\ (exists => opt.force \/ Foreign = {})
    /\ At \in 11..13 /\ Ready /\ ~opt.dry_run => prefixes = opt.roots

\* The flag is set for what was or will be written, unless something failed.
FlagInv ==
    /\ ~internal
    /\ exists /\ "FAILURE" \notin status => (modified <=> touched \/ batch # {})

\* Without an interrupt a status without problems says that every phase so far has
\* run, that nothing failed and that nothing was reported.
ExitInv ==
    ~flag /\ ~opt.info =>
        /\ status = {"SUCCESS"} \/ Problem(status)
        /\ status = {"SUCCESS"} =>
             /\ ~disturbed
             /\ pc # "walk" => reported = {}
             /\ ran = {p \in DOMAIN After : Order[p] < At}
             /\ At >= 16 => ~conn

\* What the traversal has still to look at, and what it has reported.
ScanInv ==
    /\ At <= 12 => "scan" \notin ran
    /\ At <= 12 /\ pc # "walk" => reported = {}
    /\ pc = "walk" =>
          /\ todo \subseteq UNION {tree[d] : d \in OpenRoots}
          /\ rows \cap todo \subseteq before.rows
          /\ batch \cap todo = {}
    /\ At \in 12..13 /\ reported # {} => Alarm
    /\ pc = "cleanup" /\ ~disturbed /\ "scan" \in ran => status = {"SUCCESS"} \/ Alarm
    /\ \A d \in OpenRoots :
          (/\ At >= 14 /\ ~disturbed /\ "scan" \in ran
           /\ opt.update /\ ~opt.dry_run /\ opt.roots = {d})
          => \/ Alarm
             \/ /\ rows \subseteq tree[d] \cup opt.locked
                /\ (opt.locked \cap before.rows) \ tree[d] \subseteq reported

\* The failures of an undisturbed --update that is entitled to work.
FailInv ==
    (/\ ~disturbed /\ "FAILURE" \in status
     /\ opt.update /\ ~opt.compare /\ ~opt.dry_run /\ opt.roots # {})
    => journal = "hot" \/ layout = "empty" \/ (~exists /\ At > 4)

\* The inductive invariant.
SessionInv ==
    /\ TypeOK
    /\ SignalInv /\ StartInv /\ ModeInv /\ BatchInv /\ KeepInv /\ LayoutInv
    /\ FlagInv /\ ExitInv /\ ScanInv /\ FailInv
    /\ StoredDataIsProtected /\ ReadOnlyModesWriteNothing

-----------------------------------------------------------------------------
(***************************************************************************)
(* How the steps of a process move it along, and what each may change.     *)
(***************************************************************************)

\* A step of main() before it returns.
Works == Program /\ pc # "exit"

\* The traversal goes on.
Staying == pc = "walk" /\ pc' = pc /\ UNCHANGED <<status, ran, faults, disturbed>>

\* A phase goes on to its inner step.
Entering ==
    /\ <<pc, pc'>> \in {<<"test", "version">>, <<"init", "tables">>, <<"scan", "walk">>}
    /\ ~Has(status, SKIP)
    /\ UNCHANGED <<status, ran, faults, disturbed>>

\* The phase p returns r.
Returning(p, r) ==
    /\ p \in DOMAIN After /\ r \in Results
    /\ pc = p \/ <<p, pc>> \in {<<"test", "version">>, <<"init", "tables">>, <<"scan", "walk">>}
    /\ p \in Called \/ ~Has(status, SKIP)
    /\ Return(p, r)
    /\ "HALTED" \in r => g = {"HALTED"} \/ opt.info
    /\ NoFault \/ (Fault /\ r = {"FAILURE"})

\* The phases follow one another.
LEMMA OrderFacts ==
    /\ DOMAIN Order = DOMAIN After \cup Inner \cup {"idle", "exit"}
    /\ \A p \in DOMAIN Order : Order[p] \in 0..18
    /\ \A p \in DOMAIN After :
          /\ Order[After[p]] = Order[p] + 1 /\ Order[p] < 18
          /\ After[p] \in (DOMAIN After \cup {"exit"}) \ {"parse"}
          /\ \A q \in DOMAIN After : Order[q] = Order[p] => q = p
<1> DEFINE D == {"parse", "paths", "signals", "existence", "mode", "test", "init", "compare",
                 "contains", "validate", "prefixes", "count", "scan", "cleanup", "remember",
                 "close", "vacuum", "changes"}
<1>1. DOMAIN After = D
  BY DEF After
<1>2. DOMAIN Order = D \cup Inner \cup {"idle", "exit"}
  BY DEF Order, Inner
<1>3. \A p \in DOMAIN Order : Order[p] \in 0..18
  BY <1>2 DEF Order, Inner
<1>4. \A p \in D : /\ Order[After[p]] = Order[p] + 1 /\ Order[p] < 18
                   /\ After[p] \in (D \cup {"exit"}) \ {"parse"}
  BY DEF Order, After
<1>5. \A p \in D : \A q \in D : Order[q] = Order[p] => q = p
  BY DEF Order
<1> QED
  BY <1>1, <1>2, <1>3, <1>4, <1>5

\* What a process does not change, and the four ways in which it moves along.
LEMMA Moves ==
    ASSUME TypeOK, StartInv, Works
    PROVE  /\ UNCHANGED <<opt, tree, altered, before, runs, flag, g, journal>>
           /\ Skip \/ Staying \/ Entering \/ \E p, r : Returning(p, r)
<1> DEFINE Same == UNCHANGED <<opt, tree, altered, before, runs, flag, g, journal>>
           Goes == Skip \/ Staying \/ Entering \/ \E p, r : Returning(p, r)
<1> USE DEF dbVars, treeVars, sigVars, cfgVars, scanVars, obsVars
<1>s. {"SUCCESS"} \in Results /\ {"FAILURE"} \in Results /\ {"WARNING"} \in Results
      /\ {"INFO", "HALTED"} \in Results
  BY DEF Results
<1>d. DOMAIN After = {"parse", "paths", "signals", "existence", "mode", "test", "init", "compare",
                 "contains", "validate", "prefixes", "count", "scan", "cleanup", "remember",
                 "close", "vacuum", "changes"}
  BY DEF After
<1>o. ASSUME NEW p \in DOMAIN After, NEW r \in Results, Only(p, r), "HALTED" \in r => opt.info,
             pc = p \/ <<p, pc>> \in {<<"test", "version">>, <<"init", "tables">>, <<"scan", "walk">>},
             p \in Called \/ ~Has(status, SKIP),
             NoFault \/ (Fault /\ r = {"FAILURE"})
      PROVE  Same /\ Goes
  <2>1. Same
    BY <1>o DEF Only
  <2>2. Returning(p, r)
    BY <1>o DEF Only, Returning
  <2> QED
    BY <2>1, <2>2
<1>r. ASSUME NEW p \in DOMAIN After, NEW r \in Results, Return(p, r), "HALTED" \in r => g = {"HALTED"},
             pc = p \/ <<p, pc>> \in {<<"test", "version">>, <<"init", "tables">>, <<"scan", "walk">>},
             p \in Called \/ ~Has(status, SKIP),
             NoFault \/ (Fault /\ r = {"FAILURE"})
      PROVE  Goes
  BY <1>r DEF Returning
<1>i. pc \in Inner => ~Has(status, SKIP)
  BY DEF StartInv
<1>1. CASE Skip
  BY <1>1 DEF Skip
<1>2. CASE ParseArguments \/ PathsDetect \/ InitSignals
  <2>1. opt.info \in BOOLEAN
    BY DEF TypeOK, Command
  <2> QED
    BY <1>2, <1>s, <1>d, <1>o, <2>1 DEF ParseArguments, PathsDetect, InitSignals, Succeeds, Fails, Enter
<1>3. CASE ValidateExistence
  <2>1. CASE Fails("existence")
    BY <1>3, <1>s, <1>d, <1>o, <2>1 DEF ValidateExistence, Fails, Enter
  <2>2. CASE ~Fails("existence")
    BY <1>3, <1>s, <1>d, <1>r, <2>2 DEF ValidateExistence, Enter
  <2> QED
    BY <2>1, <2>2
<1>4. CASE DetermineMode
  <2>1. pc = "mode" /\ ~Has(status, SKIP) /\ NoFault /\ Same
        /\ \E r \in {{"SUCCESS"}, {"FAILURE"}} : Return("mode", r)
    BY <1>4 DEF DetermineMode, Enter
  <2> QED
    BY <1>s, <1>d, <1>r, <2>1
<1>5. CASE TestFile
  <2>1. CASE Stay("version") /\ NoFault
    BY <1>5, <2>1 DEF TestFile, Enter, Stay, Entering, NoFault, Only, Return, After, Fails, Succeeds
  <2>2. CASE Succeeds("test") \/ Fails("test") \/ (NoFault /\ Only("test", {"FAILURE"}))
    BY <1>5, <1>s, <1>d, <1>o, <2>2 DEF TestFile, Succeeds, Fails, Enter
  <2> QED
    BY <1>5, <2>1, <2>2 DEF TestFile
<1>6. CASE CheckVersion
  <2>1. pc = "version" /\ ~Has(status, SKIP)
    BY <1>6, <1>i DEF CheckVersion, Inner
  <2>2. CASE layout' = "current" /\ NoFault /\ Return("test", {"SUCCESS"}) /\ Same
    BY <1>s, <1>d, <1>r, <2>1, <2>2
  <2>3. CASE \/ Succeeds("test") \/ Fails("test")
             \/ NoFault /\ \E r \in {{"FAILURE"}, {"WARNING"}} : Only("test", r)
    BY <1>s, <1>d, <1>o, <2>1, <2>3 DEF Succeeds, Fails
  <2> QED
    BY <1>6, <2>2, <2>3 DEF CheckVersion
<1>7. CASE OpenDatabase
  <2>1. CASE Stay("tables") /\ NoFault /\ Same
    BY <1>7, <2>1 DEF OpenDatabase, Enter, Stay, Entering, NoFault
  <2>2. CASE Succeeds("init") \/ Fails("init")
    BY <1>7, <1>s, <1>d, <1>o, <2>2 DEF OpenDatabase, Succeeds, Fails, Enter
  <2> QED
    BY <1>7, <2>1, <2>2 DEF OpenDatabase
<1>8. CASE InitTables
  <2>1. pc = "tables" /\ ~Has(status, SKIP)
    BY <1>8, <1>i DEF InitTables, Inner
  <2>2. CASE NoFault /\ Return("init", {"SUCCESS"}) /\ Same
    BY <1>s, <1>d, <1>r, <2>1, <2>2
  <2>3. CASE Fails("init")
    BY <1>s, <1>d, <1>o, <2>1, <2>3 DEF Fails
  <2> QED
    BY <1>8, <2>2, <2>3 DEF InitTables
<1>9. CASE CompareDatabases
  BY <1>9, <1>s, <1>d, <1>o DEF CompareDatabases, Succeeds, Fails, Enter
<1>10. CASE ContainsData
  <2>1. \/ Succeeds("contains") \/ Fails("contains")
        \/ NoFault /\ \E r \in {{"SUCCESS"}, {"FAILURE"}, {"WARNING"}} : Only("contains", r)
    BY <1>10 DEF ContainsData
  <2> QED
    BY <1>10, <1>s, <1>d, <1>o, <2>1 DEF ContainsData, Succeeds, Fails, Enter
<1>11. CASE ValidatePaths
  <2>1. \/ Succeeds("validate") \/ Fails("validate")
        \/ Same /\ NoFault /\ \E r \in {{"SUCCESS"}, {"WARNING"}} : Return("validate", r)
    BY <1>11 DEF ValidatePaths
  <2> QED
    BY <1>11, <1>s, <1>d, <1>o, <1>r, <2>1 DEF ValidatePaths, Succeeds, Fails, Enter
<1>12. CASE SavePrefixes
  <2>1. \/ Succeeds("prefixes") \/ Fails("prefixes")
        \/ Same /\ NoFault /\ Return("prefixes", {"SUCCESS"})
    BY <1>12 DEF SavePrefixes
  <2> QED
    BY <1>12, <1>s, <1>d, <1>o, <1>r, <2>1 DEF SavePrefixes, Succeeds, Fails, Enter
<1>13. CASE CountFiles
  BY <1>13, <1>s, <1>d, <1>o DEF CountFiles, Succeeds, Fails, Enter
<1>14. CASE ScanBegins
  <2>1. CASE Stay("walk") /\ NoFault /\ Same
    BY <1>14, <2>1 DEF ScanBegins, Enter, Stay, Entering, NoFault
  <2>2. CASE Succeeds("scan") \/ Fails("scan")
    BY <1>14, <1>s, <1>d, <1>o, <2>2 DEF ScanBegins, Succeeds, Fails, Enter
  <2> QED
    BY <1>14, <2>1, <2>2 DEF ScanBegins
<1>15. CASE BatchDeadline \/ \E n \in Names : ScanFile(n)
  BY <1>15 DEF BatchDeadline, ScanFile, CommitBatch, Staying
<1>16. CASE ScanEnds
  <2>1. pc = "walk" /\ ~Has(status, SKIP) /\ Same
    BY <1>16, <1>i DEF ScanEnds, Inner, CommitBatch
  <2>2. CASE NoFault /\ Return("scan", ScanStatus)
    <3>1. ScanStatus \in Results /\ ("HALTED" \in ScanStatus => g = {"HALTED"})
      <4>1. {"SUCCESS"} \in SUBSET Flags /\ g \in Globals
        BY DEF Flags, Globals, TypeOK
      <4>2. \A x : x \in Normalize({"SUCCESS"}, g) <=> \/ x = "HALTED" /\ g = {"HALTED"}
                                                      \/ x = "SUCCESS"
        BY <4>1, NormalizeMember DEF Has, CRITICAL
      <4>3. Normalize({"SUCCESS"}, g) = IF g = {"HALTED"} THEN {"SUCCESS", "HALTED"} ELSE {"SUCCESS"}
        BY <4>2
      <4> QED
        BY <4>3 DEF ScanStatus, Results
    <3> QED
      BY <1>d, <1>r, <2>1, <2>2, <3>1
  <2>3. CASE Fault /\ Return("scan", {"FAILURE"})
    BY <1>s, <1>d, <1>r, <2>1, <2>3
  <2> QED
    BY <1>16, <2>1, <2>2, <2>3 DEF ScanEnds
<1>17. CASE DeleteMissing
  <2>1. \/ Succeeds("cleanup") \/ Fails("cleanup") \/ (NoFault /\ Only("cleanup", {"FAILURE"}))
        \/ Same /\ NoFault /\ \E r \in {{"SUCCESS"}, {"WARNING"}} : Return("cleanup", r)
    BY <1>17 DEF DeleteMissing, CleanupBelow
  <2> QED
    BY <1>17, <1>s, <1>d, <1>o, <1>r, <2>1 DEF DeleteMissing, Succeeds, Fails, Enter
<1>18. CASE ShowRemembered
  BY <1>18, <1>s, <1>d, <1>o DEF ShowRemembered, Succeeds, Fails, Called
<1>19. CASE CloseDatabase
  <2>1. Fails("close") \/ (Same /\ NoFault /\ Return("close", {"SUCCESS"}))
    BY <1>19 DEF CloseDatabase
  <2> QED
    BY <1>19, <1>s, <1>d, <1>o, <1>r, <2>1 DEF CloseDatabase, Fails, Called
<1>20. CASE ConsiderVacuum
  <2>1. \/ Succeeds("vacuum") \/ Fails("vacuum")
        \/ Same /\ NoFault /\ Return("vacuum", {"SUCCESS"})
    BY <1>20 DEF ConsiderVacuum
  <2> QED
    BY <1>20, <1>s, <1>d, <1>o, <1>r, <2>1 DEF ConsiderVacuum, Succeeds, Fails, Enter
<1>21. CASE StatusOfChanges
  <2>1. \/ Succeeds("changes") \/ Fails("changes")
        \/ Same /\ NoFault /\ \E r \in {{"SUCCESS"}, {"WARNING"}} : Return("changes", r)
    BY <1>21 DEF StatusOfChanges
  <2> QED
    BY <1>21, <1>s, <1>d, <1>o, <1>r, <2>1 DEF StatusOfChanges, Succeeds, Fails, Enter
<1> QED
  BY <1>1, <1>2, <1>3, <1>4, <1>5, <1>6, <1>7, <1>8, <1>9, <1>10, <1>11, <1>12, <1>13, <1>14,
     <1>15, <1>16, <1>17, <1>18, <1>19, <1>20, <1>21 DEF Works, Program, Exit

\* Which phases may change which variable.
LEMMA Frames ==
    ASSUME Works
    PROVE  /\ exists' = exists \/ ValidateExistence
           /\ mode' = mode \/ DetermineMode
           /\ conn' = conn \/ OpenDatabase \/ CloseDatabase
           /\ obsolete' = obsolete \/ ValidatePaths
           /\ prefixes' = prefixes \/ SavePrefixes
           /\ layout' = layout \/ CheckVersion \/ OpenDatabase \/ InitTables
           /\ rows' = rows \/ BatchDeadline \/ ScanEnds \/ DeleteMissing
           /\ todo' = todo \/ ScanBegins \/ \E n \in Names : ScanFile(n)
           /\ batch' = batch \/ BatchDeadline \/ ScanEnds \/ \E n \in Names : ScanFile(n)
           /\ \/ modified' = modified \/ CheckVersion \/ SavePrefixes \/ DeleteMissing
              \/ \E n \in Names : ScanFile(n)
           /\ \/ touched' = touched \/ CheckVersion \/ OpenDatabase \/ SavePrefixes
              \/ BatchDeadline \/ ScanEnds \/ DeleteMissing \/ ConsiderVacuum
           /\ reported' = reported \/ DeleteMissing \/ \E n \in Names : ScanFile(n)
           /\ internal' = internal \/ StatusOfChanges
<1> USE DEF dbVars, treeVars, sigVars, cfgVars, scanVars, obsVars, Only, Succeeds, Fails
<1>1. CASE Skip \/ ParseArguments \/ PathsDetect \/ InitSignals \/ CompareDatabases
           \/ ContainsData \/ CountFiles \/ ShowRemembered
  BY <1>1 DEF Skip, ParseArguments, PathsDetect, InitSignals, CompareDatabases,
     ContainsData, CountFiles, ShowRemembered
<1>2. CASE ValidateExistence \/ DetermineMode \/ TestFile \/ CheckVersion
  BY <1>2 DEF ValidateExistence, DetermineMode, TestFile, CheckVersion
<1>3. CASE OpenDatabase \/ InitTables \/ ValidatePaths \/ SavePrefixes
  BY <1>3 DEF OpenDatabase, InitTables, ValidatePaths, SavePrefixes
<1>4. CASE ScanBegins \/ (\E n \in Names : ScanFile(n)) \/ BatchDeadline \/ ScanEnds
  BY <1>4 DEF ScanBegins, ScanFile, BatchDeadline, ScanEnds, CommitBatch
<1>5. CASE DeleteMissing \/ CloseDatabase \/ ConsiderVacuum \/ StatusOfChanges
  BY <1>5 DEF DeleteMissing, CleanupBelow, CloseDatabase, ConsiderVacuum, StatusOfChanges
<1> QED
  BY <1>1, <1>2, <1>3, <1>4, <1>5 DEF Works, Program, Exit

\* A process ends, by itself or by force.
Ends ==
    /\ ProcessEnds /\ UNCHANGED <<layout, prefixes, rows, runs>>
    /\ journal' \in {"none", "hot", journal} /\ faults' \in {faults, faults + 1}

\* What is left to look at: a process starts, is interrupted, works or ends.
LEMMA Kinds ==
    ASSUME TypeOK, [Next]_vars
    PROVE  \/ UNCHANGED vars \/ StartRun \/ Interrupt \/ PlayBack \/ Works
           \/ Ends
<1>1. pc = "exit" /\ Program => Exit
  <2>1. "exit" \notin DOMAIN After
    BY DEF After
  <2> QED
    BY <2>1 DEF Program, Skip, ParseArguments, PathsDetect, InitSignals, ValidateExistence,
       DetermineMode, TestFile, CheckVersion, OpenDatabase, InitTables, CompareDatabases,
       ContainsData, ValidatePaths, SavePrefixes, CountFiles, ScanBegins, ScanFile,
       BatchDeadline, ScanEnds, DeleteMissing, ShowRemembered, CloseDatabase, ConsiderVacuum,
       StatusOfChanges, Enter
<1> QED
  BY <1>1 DEF Next, Works, Exit, Stop, Ends, dbVars

\* What every step of main() does to its place and its status.
LEMMA Progress ==
    ASSUME TypeOK, StartInv, Works
    PROVE  /\ At \in 0..17
           /\ pc' \in (DOMAIN After \cup Inner \cup {"exit"}) \ {"parse"}
           /\ \/ /\ At' = At /\ pc' \in Inner /\ ~Has(status, SKIP)
                 /\ UNCHANGED <<status, ran, faults, disturbed>>
              \/ At' = At + 1 /\ pc' \notin Inner
           /\ status' \in Statuses
           /\ Has(status, SKIP) => Has(status', SKIP)
           /\ "FAILURE" \in status => "FAILURE" \in status'
           /\ disturbed' \in BOOLEAN /\ (disturbed => disturbed')
           /\ disturbed' /\ ~disturbed => "FAILURE" \in status'
           /\ faults' \in Nat
           /\ ran \subseteq ran' /\ ran' \subseteq DOMAIN After
           /\ pc = "parse" /\ opt.info => \/ "FAILURE" \in status'
                                          \/ Has(status', SKIP)
<1>t. /\ pc \in DOMAIN Order /\ status \in Statuses /\ g \in Globals
      /\ disturbed \in BOOLEAN /\ faults \in Nat /\ ran \subseteq DOMAIN After
  BY OrderFacts DEF TypeOK, StartInv, Globals
<1>n. Inner \cap (DOMAIN After \cup {"exit", "idle"}) = {}
  BY DEF Inner, After
<1>e. {"test", "init", "scan"} \subseteq DOMAIN After /\ Order["version"] = Order["test"]
      /\ Order["tables"] = Order["init"] /\ Order["walk"] = Order["scan"] /\ Order["test"] = 5
      /\ Order["init"] = 6 /\ Order["scan"] = 12
  BY DEF After, Order
<1>1. CASE Skip
  <2>1. /\ pc \in DOMAIN After /\ pc' = After[pc] /\ Has(status, SKIP)
        /\ UNCHANGED <<status, ran, faults, disturbed>>
    BY <1>1 DEF Skip
  <2> QED
    BY <1>t, <1>n, <2>1, OrderFacts DEF At
<1>2. CASE Staying
  BY <1>2, <1>t, <1>e DEF Staying, Inner, StartInv, At
<1>3. CASE Entering
  BY <1>3, <1>t, <1>e DEF Entering, Inner, At
<1>4. ASSUME NEW p, NEW r, Returning(p, r)
      PROVE  /\ At \in 0..17 /\ At' = At + 1 /\ pc' \notin Inner
             /\ pc' \in (DOMAIN After \cup Inner \cup {"exit"}) \ {"parse"}
             /\ status' \in Statuses
             /\ Has(status, SKIP) => Has(status', SKIP)
             /\ "FAILURE" \in status => "FAILURE" \in status'
             /\ disturbed' \in BOOLEAN /\ (disturbed => disturbed')
             /\ disturbed' /\ ~disturbed => "FAILURE" \in status'
             /\ faults' \in Nat
             /\ ran \subseteq ran' /\ ran' \subseteq DOMAIN After
  <2>1. /\ p \in DOMAIN After /\ r \in Results /\ pc' = After[p] /\ ran' = ran \cup {p}
        /\ status' = AfterCall(status, Provide(r, g), g)
    BY <1>4 DEF Returning, Return
  <2>2. At = Order[p]
    BY <1>4, <1>e DEF Returning, At
  <2>3. \/ disturbed' = disturbed /\ faults' = faults
        \/ disturbed' = TRUE /\ faults' = faults + 1 /\ r = {"FAILURE"}
    BY <1>4 DEF Returning, NoFault, Fault
  <2>4. /\ status' \in Statuses
        /\ Has(status, SKIP) => Has(status', SKIP)
        /\ "FAILURE" \in status' <=> "FAILURE" \in status \/ r = {"FAILURE"}
    BY <1>t, <2>1, AfterPhase
  <2>5. At' = Order[After[p]]
    BY <2>1 DEF At
  <2>6. At \in 0..17 /\ At' = At + 1
    BY <2>1, <2>2, <2>5, OrderFacts
  <2>7. pc' \in (DOMAIN After \cup {"exit"}) \ {"parse"}
    BY <2>1, OrderFacts
  <2>8. disturbed' \in BOOLEAN /\ (disturbed => disturbed') /\ faults' \in Nat
        /\ (disturbed' /\ ~disturbed => r = {"FAILURE"})
    <3>1. CASE disturbed' = disturbed /\ faults' = faults
      BY <3>1, <1>t
    <3>2. CASE disturbed' = TRUE /\ faults' = faults + 1 /\ r = {"FAILURE"}
      BY <3>2, <1>t
    <3> QED
      BY <2>3, <3>1, <3>2
  <2> QED
    BY <1>t, <1>n, <2>1, <2>4, <2>6, <2>7, <2>8
<1>5. pc = "parse" /\ opt.info => \/ "FAILURE" \in status'
                                 \/ Has(status', SKIP)
  <2>1. SUFFICES ASSUME pc = "parse", opt.info PROVE "FAILURE" \in status' \/ Has(status', SKIP)
    OBVIOUS
  <2>2. CASE Skip
    BY <2>2 DEF Skip
  <2>3. CASE ParseArguments
    <3>1. {"INFO", "HALTED"} \in Results /\ {"FAILURE"} \in Results
      BY DEF Results
    <3>2. \E r \in {{"INFO", "HALTED"}, {"FAILURE"}} : status' = AfterCall(status, Provide(r, g), g)
      BY <2>1, <2>3 DEF ParseArguments, Fails, Only, Return
    <3>3. PICK r \in {{"INFO", "HALTED"}, {"FAILURE"}} : status' = AfterCall(status, Provide(r, g), g)
      BY <3>2
    <3>4. r \in Results /\ r # {"SUCCESS"}
      BY <3>1
    <3>5. Has(AfterCall(status, Provide(r, g), g), SKIP)
      BY <1>t, <3>4, AfterPhase
    <3> QED
      BY <3>3, <3>5
  <2>4. Skip \/ ParseArguments
    BY <2>1 DEF Works, Program, PathsDetect, InitSignals, ValidateExistence,
       DetermineMode, TestFile, CheckVersion, OpenDatabase, InitTables, CompareDatabases,
       ContainsData, ValidatePaths, SavePrefixes, CountFiles, ScanBegins, ScanFile, Exit,
       BatchDeadline, ScanEnds, DeleteMissing, ShowRemembered, CloseDatabase, ConsiderVacuum,
       StatusOfChanges, Enter
  <2> QED
    BY <2>2, <2>3, <2>4
<1> QED
  BY <1>1, <1>2, <1>3, <1>4, <1>5, Moves

-----------------------------------------------------------------------------
(***************************************************************************)
(* Types, signals and modes.                                               *)
(***************************************************************************)

\* The initial states satisfy the invariant.
LEMMA SessionInit == Init => SessionInv
<1> SUFFICES ASSUME Init PROVE SessionInv
  OBVIOUS
<1>1. PICK d \in Databases : layout = d.layout /\ prefixes = d.prefixes /\ rows = d.rows
  BY DEF Init
<1>2. /\ layout \in Layouts /\ prefixes \subseteq Roots /\ rows \subseteq Names
      /\ layout \in {"absent", "empty"} => prefixes = {}
  BY <1>1, SessionAssumption DEF Database
<1>3. TypeOK
  BY <1>2 DEF Init, TypeOK, Listing, NoCommand, Command, Flags, Modes
<1>4. SignalInv /\ ModeInv /\ BatchInv /\ FlagInv /\ FailInv
  BY DEF Init, SignalInv, ModeInv, BatchInv, FlagInv, FailInv, NoCommand
<1>5. StartInv
  BY DEF Init, StartInv, Statuses, Inner, NoCommand
<1>6. pc = "idle" /\ At = 0
  BY DEF Init, At, Order
<1>7. KeepInv /\ LayoutInv
  BY <1>2, <1>6 DEF Init, KeepInv, LayoutInv, Running
<1>8. ExitInv
  <2>1. \A p \in DOMAIN After : ~(Order[p] < 0)
    BY OrderFacts
  <2> QED
    BY <1>6, <2>1 DEF Init, ExitInv
<1>9. ScanInv
  BY <1>6 DEF Init, ScanInv, NoCommand
<1> QED
  BY <1>3, <1>4, <1>5, <1>6, <1>7, <1>8, <1>9
     DEF SessionInv, StoredDataIsProtected, ReadOnlyModesWriteNothing, Running

\* Every step keeps the types.
LEMMA TypeNext == TypeOK /\ StartInv /\ [Next]_vars => TypeOK'
<1> SUFFICES ASSUME TypeOK, StartInv, [Next]_vars PROVE TypeOK'
  OBVIOUS
<1> USE DEF dbVars, treeVars, sigVars, cfgVars, scanVars, obsVars
<1>p. "idle" \in DOMAIN Order /\ "parse" \in DOMAIN After
  BY DEF Order, After
<1>1. CASE UNCHANGED vars
  BY <1>1 DEF vars, TypeOK
<1>2. CASE StartRun
  <2>1. /\ opt' \in Command /\ tree' \in [Roots -> Listing] /\ altered' \subseteq Names
        /\ runs' \in Nat /\ pc' = "parse"
    BY <1>2, SessionAssumption DEF StartRun, TypeOK
  <2> QED
    BY <1>2, <1>p, <2>1 DEF StartRun, TypeOK
<1>3. CASE Interrupt
  BY <1>3 DEF Interrupt, TypeOK
<1>4. CASE PlayBack
  BY <1>4 DEF PlayBack, TypeOK
<1>5. CASE Ends
  <2>1. journal' \in {"none", "hot"} /\ faults' \in Nat
    BY <1>5 DEF Ends, TypeOK
  <2> QED
    BY <1>5, <2>1 DEF Ends, ProcessEnds, TypeOK, Listing, NoCommand, Command, Flags, Modes
<1>6. CASE Works
  <2>1. /\ UNCHANGED <<opt, tree, altered, before, runs, flag, g, journal>>
    BY <1>6, Moves
  <2>2. /\ pc' \in DOMAIN After \cup Inner \cup {"idle", "exit"}
        /\ status' \subseteq Flags \ {"AWAITING"}
        /\ disturbed' \in BOOLEAN /\ faults' \in Nat /\ ran' \subseteq DOMAIN After
    BY <1>6, Progress DEF Statuses, Flags
  <2>3. exists' \in BOOLEAN /\ mode' \in Modes
    BY <1>6, Frames DEF ValidateExistence, DetermineMode, Fails, Only, Modes, ModeFor, TypeOK
  <2>4. conn' \in BOOLEAN /\ internal' \in BOOLEAN
    <3>1. conn' = conn \/ conn' = TRUE \/ conn' = FALSE
      BY <1>6, Frames DEF OpenDatabase, CloseDatabase, Fails, Succeeds, Only
    <3>2. internal' = internal \/ internal' = (touched # modified)
      BY <1>6, Frames DEF StatusOfChanges, Fails, Succeeds, Only
    <3> QED
      BY <3>1, <3>2 DEF TypeOK
  <2>5. obsolete' \subseteq Roots /\ prefixes' \subseteq Roots
    <3>1. opt.roots \subseteq Roots
      BY DEF TypeOK, Command
    <3> QED
      BY <1>6, <3>1, Frames DEF ValidatePaths, SavePrefixes, Fails, Succeeds, Only, Foreign, Stored,
         NewPrefixes, TypeOK
  <2>6. layout' \in Layouts
    BY <1>6, Frames DEF CheckVersion, OpenDatabase, InitTables, Fails, Succeeds, Only, Layouts, TypeOK
  <2>7. todo' \subseteq Names
    <3>1. \A d \in OpenRoots : tree[d] \subseteq Names
      BY DEF OpenRoots, TypeOK, Command, Listing
    <3> QED
      BY <1>6, <3>1, Frames DEF ScanBegins, ScanFile, Fails, Succeeds, Only, TypeOK
  <2>8. batch' \subseteq Names
    BY <1>6, Frames DEF ScanFile, BatchDeadline, ScanEnds, CommitBatch, TypeOK
  <2>9. rows' \subseteq Names
    <3>1. CASE BatchDeadline \/ ScanEnds
      BY <3>1 DEF BatchDeadline, ScanEnds, CommitBatch, TypeOK
    <3>2. CASE DeleteMissing
      BY <3>2 DEF DeleteMissing, CleanupBelow, Fails, Succeeds, Only, TypeOK
    <3> QED
      BY <1>6, <3>1, <3>2, Frames DEF TypeOK
  <2>10. reported' \subseteq Names
    <3>1. CASE DeleteMissing
      BY <3>1 DEF DeleteMissing, CleanupBelow, Fails, Succeeds, Only, TypeOK, Lost
    <3> QED
      BY <1>6, <3>1, Frames DEF ScanFile, TypeOK
  <2>11. modified' \in BOOLEAN
    <3>1. CASE CheckVersion
      BY <3>1 DEF CheckVersion, Fails, Succeeds, Only, TypeOK
    <3>2. CASE SavePrefixes \/ DeleteMissing \/ \E n \in Names : ScanFile(n)
      <4>1. modified' = modified \/ \E x \in BOOLEAN : modified' = (modified \/ x)
        BY <3>2 DEF SavePrefixes, DeleteMissing, CleanupBelow, ScanFile, WritesRow, Fails, Succeeds, Only
      <4> QED
        BY <4>1 DEF TypeOK
    <3> QED
      BY <1>6, <3>1, <3>2, Frames DEF TypeOK
  <2>12. touched' \in BOOLEAN
    <3>1. CASE CheckVersion \/ ConsiderVacuum
      BY <3>1 DEF CheckVersion, ConsiderVacuum, Fails, Succeeds, Only, TypeOK
    <3>2. CASE OpenDatabase \/ SavePrefixes \/ DeleteMissing \/ BatchDeadline \/ ScanEnds
      <4>1. touched' = touched \/ \E x \in BOOLEAN : touched' = (touched \/ x)
        BY <3>2 DEF OpenDatabase, SavePrefixes, DeleteMissing, CleanupBelow, BatchDeadline,
           ScanEnds, CommitBatch, Fails, Succeeds, Only
      <4> QED
        BY <4>1 DEF TypeOK
    <3> QED
      BY <1>6, <3>1, <3>2, Frames DEF TypeOK
  <2> QED
    BY <2>1, <2>2, <2>3, <2>4, <2>5, <2>6, <2>7, <2>8, <2>9, <2>10, <2>11, <2>12 DEF TypeOK
<1> QED
  BY <1>1, <1>2, <1>3, <1>4, <1>5, <1>6, Kinds

\* The place of a process that starts, ends or is interrupted.
LEMMA Places ==
    ASSUME TypeOK
    PROVE  /\ StartRun => pc = "idle" /\ pc' = "parse" /\ At = 0 /\ At' = 0
           /\ Ends => pc' = "idle" /\ At' = 0
           /\ Interrupt => pc' = pc /\ At' = At /\ At >= 3 /\ pc # "idle"
           /\ PlayBack \/ UNCHANGED vars => pc' = pc /\ At' = At
           /\ At \in 0..18 /\ (At = 0 <=> pc \in {"idle", "parse"})
           /\ (At = 3 <=> pc = "existence") /\ (At = 4 <=> pc = "mode")
           /\ (At = 8 <=> pc = "contains") /\ (At = 9 <=> pc = "validate")
           /\ (At = 10 <=> pc = "prefixes") /\ (At = 13 <=> pc = "cleanup")
           /\ (At = 17 <=> pc = "changes") /\ (At = 18 <=> pc = "exit")
           /\ (At = 5 <=> pc \in {"version", "test"}) /\ (At = 6 <=> pc \in {"tables", "init"})
           /\ (At = 12 <=> pc \in {"scan", "walk"})
<1>1. pc \in DOMAIN Order
  BY OrderFacts DEF TypeOK
<1>2. /\ At \in 0..18 /\ (At = 0 <=> pc \in {"idle", "parse"})
      /\ (At = 3 <=> pc = "existence") /\ (At = 4 <=> pc = "mode")
      /\ (At = 8 <=> pc = "contains") /\ (At = 9 <=> pc = "validate")
      /\ (At = 10 <=> pc = "prefixes") /\ (At = 13 <=> pc = "cleanup")
      /\ (At = 17 <=> pc = "changes") /\ (At = 18 <=> pc = "exit")
      /\ (At = 5 <=> pc \in {"version", "test"}) /\ (At = 6 <=> pc \in {"tables", "init"})
      /\ (At = 12 <=> pc \in {"scan", "walk"})
      /\ (At < 3 <=> pc \in {"idle", "parse", "paths", "signals"})
  BY <1>1 DEF At, Order
<1>3. Order["idle"] = 0 /\ Order["parse"] = 0
  BY DEF Order
<1>4. (pc' = pc => At' = At) /\ (pc' \in {"idle", "parse"} => At' = 0)
  BY <1>3 DEF At
<1> QED
  BY <1>2, <1>4 DEF StartRun, Ends, ProcessEnds, Interrupt, Running, PlayBack, vars

\* Where the phases are that change more than the status.
LEMMA Homes ==
    /\ ValidateExistence => pc = "existence" /\ At = 3
    /\ DetermineMode => pc = "mode" /\ At = 4
    /\ TestFile => pc = "test" /\ At = 5
    /\ CheckVersion => pc = "version" /\ At = 5
    /\ OpenDatabase => pc = "init" /\ At = 6
    /\ InitTables => pc = "tables" /\ At = 6
    /\ ValidatePaths => pc = "validate" /\ At = 9
    /\ SavePrefixes => pc = "prefixes" /\ At = 10
    /\ ScanBegins => pc = "scan" /\ At = 12
    /\ (\E n \in Names : ScanFile(n)) \/ BatchDeadline \/ ScanEnds => pc = "walk" /\ At = 12
    /\ DeleteMissing => pc = "cleanup" /\ At = 13
    /\ CloseDatabase => pc = "close" /\ At = 15
    /\ ConsiderVacuum => pc = "vacuum" /\ At = 16
    /\ StatusOfChanges => pc = "changes" /\ At = 17
<1>1. /\ Order["existence"] = 3 /\ Order["mode"] = 4 /\ Order["test"] = 5 /\ Order["version"] = 5
      /\ Order["init"] = 6 /\ Order["tables"] = 6 /\ Order["validate"] = 9 /\ Order["prefixes"] = 10
      /\ Order["scan"] = 12 /\ Order["walk"] = 12 /\ Order["cleanup"] = 13 /\ Order["close"] = 15
      /\ Order["vacuum"] = 16 /\ Order["changes"] = 17
  BY DEF Order
<1> QED
  BY <1>1 DEF At, ValidateExistence, DetermineMode, TestFile, CheckVersion, OpenDatabase,
     InitTables, ValidatePaths, SavePrefixes, ScanBegins, ScanFile, BatchDeadline, ScanEnds,
     DeleteMissing, CloseDatabase, ConsiderVacuum, StatusOfChanges, Enter

\* Every step keeps the invariant about the handler's variables.
LEMMA SignalNext == TypeOK /\ SignalInv /\ StartInv /\ [Next]_vars => SignalInv'
<1> SUFFICES ASSUME TypeOK, SignalInv, StartInv, [Next]_vars PROVE SignalInv'
  OBVIOUS
<1> USE DEF SignalInv
<1>1. CASE UNCHANGED vars \/ StartRun \/ PlayBack
  BY <1>1, Places DEF vars, StartRun, PlayBack, sigVars
<1>2. CASE Interrupt
  BY <1>2, Places DEF Interrupt
<1>3. CASE Ends
  BY <1>3 DEF Ends, ProcessEnds
<1>4. CASE Works
  BY <1>4, Moves, Progress
<1> QED
  BY <1>1, <1>2, <1>3, <1>4, Kinds

\* Every step keeps what is known of the start of a process.
LEMMA StartNext == TypeOK /\ StartInv /\ [Next]_vars => StartInv'
<1> SUFFICES ASSUME TypeOK, StartInv, [Next]_vars PROVE StartInv'
  OBVIOUS
<1> USE DEF StartInv
<1>1. CASE UNCHANGED vars \/ PlayBack
  BY <1>1, Places DEF vars, PlayBack, sigVars, treeVars, cfgVars, scanVars, obsVars
<1>2. CASE StartRun
  <2>1. opt'.compare => opt'.roots = {}
    BY <1>2, SessionAssumption DEF StartRun
  <2> QED
    BY <1>2, <2>1, Places DEF StartRun, Inner, sigVars, scanVars
<1>3. CASE Interrupt
  BY <1>3, Places DEF Interrupt, cfgVars, treeVars, scanVars
<1>4. CASE Ends
  BY <1>4, Places DEF Ends, ProcessEnds, Inner, NoCommand, Statuses
<1>5. CASE Works
  <2>1. opt' = opt
    BY <1>5, Moves
  <2>2. /\ status' \in Statuses /\ pc' \notin {"idle", "parse"}
        /\ Has(status, SKIP) => Has(status', SKIP)
        /\ pc' \in Inner => ~Has(status', SKIP)
    <3>1. "idle" \notin DOMAIN After \cup Inner \cup {"exit"}
      BY DEF After, Inner
    <3>2. pc' \in Inner => ~Has(status', SKIP)
      BY <1>5, Progress
    <3> QED
      BY <1>5, <3>1, <3>2, Progress
  <2>3. opt'.info => Has(status', SKIP)
    <3>1. pc # "idle"
      BY <1>5 DEF Works, Program, Skip, ParseArguments, PathsDetect, InitSignals,
         ValidateExistence, DetermineMode, TestFile, CheckVersion, OpenDatabase, InitTables,
         CompareDatabases, ContainsData, ValidatePaths, SavePrefixes, CountFiles, ScanBegins,
         ScanFile, Exit, BatchDeadline, ScanEnds, DeleteMissing, ShowRemembered,
         CloseDatabase, ConsiderVacuum, StatusOfChanges, Enter, After
    <3>2. "FAILURE" \in status' => Has(status', SKIP)
      BY DEF Has, SKIP
    <3> QED
      BY <1>5, <2>1, <2>2, <3>1, <3>2, Progress
  <2>4. At' < 4 => ~exists' /\ ~modified' /\ ~touched'
    <3>1. ASSUME At' < 4 PROVE UNCHANGED <<exists, modified, touched>> /\ At < 4
      <4>2. pc' \in Inner => At' \in {5, 6, 12}
        BY DEF Inner, At, Order
      <4>3. At < 3 /\ At \in 0..17
        BY <1>5, <3>1, <4>2, Progress
      <4> QED
        BY <1>5, <4>3, Frames, Homes
    <3> QED
      BY <3>1
  <2>5. At' < 5 => mode' = "READONLY"
    <3>1. ASSUME At' < 5 PROVE mode' = mode /\ At < 5
      <4>1. pc' \in Inner => At' \in {5, 6, 12}
        BY DEF Inner, At, Order
      <4>2. At < 4 /\ At \in 0..17
        BY <1>5, <3>1, <4>1, Progress
      <4>3. pc # "mode"
        BY <4>2, Places
      <4> QED
        BY <1>5, <4>2, <4>3, Frames, Homes
    <3> QED
      BY <3>1
  <2>6. pc' = "version" => exists'
    <3>1. CASE TestFile
      BY <3>1 DEF TestFile, Succeeds, Fails, Only, Stay, Return, After, cfgVars, Enter
    <3>2. pc' = "version" => TestFile
      BY <1>5, Moves, OrderFacts DEF Works, Program, Skip, ParseArguments, PathsDetect, InitSignals,
         ValidateExistence, DetermineMode, CheckVersion, OpenDatabase, InitTables,
         CompareDatabases, ContainsData, ValidatePaths, SavePrefixes, CountFiles, ScanBegins,
         ScanFile, Exit, BatchDeadline, ScanEnds, DeleteMissing, CleanupBelow, ShowRemembered,
         CloseDatabase, ConsiderVacuum, StatusOfChanges, Enter, After, Succeeds, Fails, Only, Return, Stay
    <3> QED
      BY <3>1, <3>2
  <2>7. pc' = "walk" => ~opt'.compare
    <3>1. CASE ScanBegins
      BY <3>1, <2>1 DEF ScanBegins, Succeeds, Fails, Only, Stay, Return, After
    <3>2. pc' = "walk" => ScanBegins \/ pc = "walk"
      BY <1>5, Moves, OrderFacts DEF Works, Program, Skip, ParseArguments, PathsDetect, InitSignals,
         ValidateExistence, DetermineMode, CheckVersion, OpenDatabase, InitTables, TestFile,
         CompareDatabases, ContainsData, ValidatePaths, SavePrefixes, CountFiles,
         ScanFile, Exit, BatchDeadline, ScanEnds, DeleteMissing, CleanupBelow, ShowRemembered,
         CloseDatabase, ConsiderVacuum, StatusOfChanges, Enter, After, Succeeds, Fails, Only, Return, Stay
    <3> QED
      BY <2>1, <3>1, <3>2
  <2> QED
    BY <2>1, <2>2, <2>3, <2>4, <2>5, <2>6, <2>7
<1> QED
  BY <1>1, <1>2, <1>3, <1>4, <1>5, Kinds

\* Each of these phases is skipped or does its work.
LEMMA Doing ==
    ASSUME Works
    PROVE  /\ Running
           /\ pc = "paths" => Skip \/ PathsDetect
           /\ pc = "existence" => Skip \/ ValidateExistence
           /\ pc = "mode" => Skip \/ DetermineMode
           /\ pc = "test" => Skip \/ TestFile
           /\ pc = "version" => CheckVersion
           /\ pc = "init" => Skip \/ OpenDatabase
           /\ pc = "tables" => InitTables
           /\ pc = "contains" => Skip \/ ContainsData
           /\ pc = "validate" => Skip \/ ValidatePaths
           /\ pc = "prefixes" => Skip \/ SavePrefixes
           /\ pc = "scan" => Skip \/ ScanBegins
           /\ pc = "walk" => (\E n \in Names : ScanFile(n)) \/ BatchDeadline \/ ScanEnds
           /\ pc = "cleanup" => Skip \/ DeleteMissing
           /\ pc = "close" => CloseDatabase
           /\ pc = "vacuum" => Skip \/ ConsiderVacuum
           /\ pc = "changes" => Skip \/ StatusOfChanges
           /\ ~Skip => pc \in Inner \cup Called \/ ~Has(status, SKIP)
<1>1. Skip => Has(status, SKIP) /\ pc \in DOMAIN After \ Called
  BY DEF Skip
<1>2. DOMAIN After = {"parse", "paths", "signals", "existence", "mode", "test", "init", "compare",
                 "contains", "validate", "prefixes", "count", "scan", "cleanup", "remember",
                 "close", "vacuum", "changes"}
  BY DEF After
<1> QED
  BY <1>1, <1>2 DEF Works, Program, Running, ParseArguments, PathsDetect, InitSignals,
     ValidateExistence, DetermineMode, TestFile, CheckVersion, OpenDatabase, InitTables,
     CompareDatabases, ContainsData, ValidatePaths, SavePrefixes, CountFiles, ScanBegins,
     ScanFile, Exit, BatchDeadline, ScanEnds, DeleteMissing, ShowRemembered,
     CloseDatabase, ConsiderVacuum, StatusOfChanges, Enter, Inner, Called

\* Every step keeps what the open mode tells.
LEMMA ModeNext == TypeOK /\ StartInv /\ ModeInv /\ [Next]_vars => ModeInv'
<1> SUFFICES ASSUME TypeOK, StartInv, ModeInv, [Next]_vars PROVE ModeInv'
  OBVIOUS
<1> USE DEF ModeInv
<1>1. CASE UNCHANGED vars \/ PlayBack \/ Interrupt
  BY <1>1 DEF vars, PlayBack, Interrupt, cfgVars
<1>2. CASE StartRun
  <2>1. ~exists /\ mode = "READONLY"
    BY <1>2, Places DEF StartInv
  <2> QED
    BY <1>2, <2>1 DEF StartRun
<1>3. CASE Ends
  BY <1>3 DEF Ends, ProcessEnds
<1>4. CASE Works
  <2>1. opt' = opt
    BY <1>4, Moves
  <2>2. CASE ValidateExistence
    <3>1. mode' = "READONLY"
      BY <2>2, Homes DEF StartInv, ValidateExistence, Fails, Only, cfgVars
    <3>2. exists' = exists \/ exists' = (~opt.compare /\ layout # "absent")
      BY <2>2 DEF ValidateExistence, Fails, Only, cfgVars
    <3>3. exists' => ~opt.compare
      BY <3>2
    <3> QED
      BY <2>1, <3>1, <3>3
  <2>3. CASE DetermineMode
    <3>1. exists' = exists /\ mode' \in {mode, ModeFor(exists)}
      BY <2>3 DEF DetermineMode
    <3> QED
      BY <2>1, <3>1 DEF ModeFor, TypeOK, Command
  <2>4. CASE exists' = exists /\ mode' = mode
    BY <2>1, <2>4
  <2> QED
    BY <1>4, <2>2, <2>3, <2>4, Frames
<1> QED
  BY <1>1, <1>2, <1>3, <1>4, Kinds

\* Every step keeps the batch where it belongs.
LEMMA BatchNext ==
    TypeOK /\ StartInv /\ BatchInv /\ KeepInv /\ LayoutInv /\ [Next]_vars => BatchInv'
<1> SUFFICES ASSUME TypeOK, StartInv, BatchInv, KeepInv, LayoutInv, [Next]_vars, batch' # {}
             PROVE  BatchInv'
  BY DEF BatchInv
<1>1. CASE UNCHANGED vars \/ PlayBack \/ Interrupt
  BY <1>1 DEF vars, PlayBack, Interrupt, BatchInv, dbVars, cfgVars, scanVars, obsVars
<1>2. CASE StartRun
  BY <1>2 DEF StartRun, BatchInv, dbVars, scanVars
<1>3. CASE Ends
  BY <1>3 DEF Ends, ProcessEnds
<1>4. CASE Works
  <2>1. UNCHANGED <<opt, before>>
    BY <1>4, Moves
  <2>2. CASE batch' = batch
    <3>1. pc = "walk"
      BY <1>4, <2>2 DEF BatchInv
    <3>2. prefixes' = prefixes /\ pc' = "walk"
      <4>1. ~ScanEnds
        BY <2>2 DEF ScanEnds, CommitBatch
      <4> QED
        BY <1>4, <3>1, <4>1, Frames, Homes, Doing DEF ScanFile, BatchDeadline, CommitBatch
    <3> QED
      BY <2>1, <2>2, <3>2 DEF BatchInv
  <2>3. ASSUME NEW n \in Names, ScanFile(n), WritesRow(n) PROVE BatchInv'
    <3>1. pc = "walk" /\ pc' = "walk" /\ prefixes' = prefixes /\ ~flag /\ ~opt.dry_run
      BY <2>3 DEF ScanFile, WritesRow, dbVars
    <3>2. Ready /\ At = 12
      BY <3>1, Places DEF Ready, StartInv, Inner
    <3>3. prefixes = opt.roots /\ (opt.update \/ before.prefixes = {})
      BY <3>1, <3>2 DEF LayoutInv, KeepInv
    <3> QED
      BY <2>1, <3>1, <3>3 DEF BatchInv
  <2> QED
    BY <1>4, <2>2, <2>3, Frames DEF BatchDeadline, ScanEnds, CommitBatch, ScanFile
<1> QED
  BY <1>1, <1>2, <1>3, <1>4, Kinds

-----------------------------------------------------------------------------
(***************************************************************************)
(* The stored data.                                                        *)
(***************************************************************************)

\* After anything but a success run() skips the phases that follow.
LEMMA Refuses ==
    ASSUME TypeOK, StartInv, NEW p, NEW r \in Results, Return(p, r), r # {"SUCCESS"}
    PROVE  Has(status', SKIP)
<1>1. status \in Statuses /\ g \in Globals
  BY DEF TypeOK, StartInv, Globals
<1> QED
  BY <1>1, AfterPhase DEF Return

\* Every step keeps the stored data what it is said to be.
LEMMA KeepNext ==
    TypeOK /\ StartInv /\ ModeInv /\ KeepInv /\ [Next]_vars => KeepInv'
<1> SUFFICES ASSUME TypeOK, StartInv, ModeInv, KeepInv, [Next]_vars PROVE KeepInv'
  OBVIOUS
<1> USE DEF KeepInv
<1>1. CASE UNCHANGED vars \/ PlayBack
  <2>1. /\ UNCHANGED <<prefixes, rows, before, pc, opt, flag, status>> /\ At' = At
    BY <1>1, Places DEF vars, PlayBack, dbVars, sigVars, cfgVars, obsVars
  <2> QED
    BY <2>1 DEF Running, Ready
<1>2. CASE StartRun
  <2>1. /\ prefixes' = before'.prefixes /\ rows' = before'.rows /\ At' = 0
    BY <1>2, Places DEF StartRun, dbVars
  <2> QED
    BY <2>1
<1>3. CASE Interrupt
  <2>1. /\ UNCHANGED <<prefixes, rows, before, pc>> /\ At' = At /\ flag'
    BY <1>3, Places DEF Interrupt, dbVars, obsVars
  <2> QED
    BY <2>1 DEF Running, Ready
<1>4. CASE Ends
  BY <1>4, Places DEF Running
<1>5. CASE Works
  <2>1. UNCHANGED <<opt, before, flag>> /\ Running /\ At \in 0..17
    BY <1>5, Moves, Doing, Progress
  <2>2. pc' \in Inner => At' \in {5, 6, 12}
    BY DEF Inner, At, Order
  <2>3. At' \in {At, At + 1} /\ (At' = At => pc' \in Inner) /\ (Has(status, SKIP) => Has(status', SKIP))
    BY <1>5, Progress
  <2>4. At' <= 10 => prefixes' = prefixes /\ At <= 10
    BY <1>5, <2>1, <2>2, <2>3, Frames, Homes
  <2>5. At' <= 13 => rows \subseteq rows' /\ At <= 13
    BY <1>5, <2>1, <2>2, <2>3, Frames, Homes DEF BatchDeadline, ScanEnds, CommitBatch
  <2>6. At' <= 12 /\ pc' # "walk" => rows' = rows /\ At <= 12 /\ pc # "walk"
    <3>1. ASSUME At' <= 12, pc' # "walk" PROVE pc # "walk" /\ At <= 12
      <4>1. pc = "walk" => pc' = "walk" \/ At' = 13
        BY <1>5, <2>1, <2>3, Places DEF Inner, At, Order
      <4> QED
        BY <2>1, <2>3, <3>1, <4>1
    <3> QED
      BY <1>5, <2>1, <3>1, Frames, Homes
  <2>7. ASSUME At' \in 9..13, ~opt.update, ~opt.dry_run, before.prefixes # {}, Ready'
        PROVE  FALSE
    <3>1. Ready
      BY <2>1, <2>3, <2>7 DEF Ready
    <3>2. At = 8
      BY <2>1, <2>3, <2>7, <3>1
    <3>3. ContainsData
      BY <1>5, <3>1, <3>2, Places, Doing DEF Skip, Ready
    <3>4. Stored # {}
      BY <2>1, <2>7, <3>2 DEF Stored, ModeInv
    <3>5. {"WARNING"} \in Results /\ {"FAILURE"} \in Results
      BY DEF Results
    <3>6. \E r \in {{"WARNING"}, {"FAILURE"}} : Return("contains", r)
      BY <2>7, <3>1, <3>3, <3>4 DEF ContainsData, Ready, Only, Fails
    <3> QED
      BY <2>7, <3>5, <3>6, Refuses DEF Ready
  <2> QED
    BY <2>1, <2>4, <2>5, <2>6, <2>7 DEF Ready
<1> QED
  BY <1>1, <1>2, <1>3, <1>4, <1>5, Kinds

\* Every step keeps what the phases rely on about the file.
LEMMA LayoutNext ==
    TypeOK /\ StartInv /\ ModeInv /\ LayoutInv /\ [Next]_vars => LayoutInv'
<1> SUFFICES ASSUME TypeOK, StartInv, ModeInv, LayoutInv, [Next]_vars PROVE LayoutInv'
  OBVIOUS
<1>1. CASE UNCHANGED vars \/ PlayBack
  <2>1. /\ UNCHANGED <<layout, prefixes, pc, opt, flag, status, exists, mode, obsolete>>
        /\ At' = At
    BY <1>1, Places DEF vars, PlayBack, dbVars, sigVars, cfgVars
  <2> QED
    BY <2>1 DEF Ready, Foreign, Stored, LayoutInv
<1>2. CASE StartRun
  <2>1. UNCHANGED <<layout, prefixes, exists>> /\ pc' = "parse" /\ At' = 0
    BY <1>2, Places DEF StartRun, dbVars
  <2> QED
    BY <2>1 DEF LayoutInv
<1>3. CASE Interrupt
  <2>1. UNCHANGED <<layout, prefixes, exists>> /\ ~Ready'
    BY <1>3 DEF Interrupt, dbVars, cfgVars, Ready
  <2> QED
    BY <2>1 DEF LayoutInv
<1>4. CASE Ends
  <2>1. UNCHANGED <<layout, prefixes>> /\ ~exists' /\ pc' = "idle" /\ At' = 0
    BY <1>4, Places DEF Ends, ProcessEnds
  <2> QED
    BY <2>1 DEF LayoutInv
<1>5. CASE Works
  <2>1. UNCHANGED <<opt, flag>> /\ Running /\ At \in 0..17
    BY <1>5, Moves, Doing, Progress
  <2>2. pc' \in Inner => At' \in {5, 6, 12}
    BY DEF Inner, At, Order
  <2>3. /\ At' \in {At, At + 1} /\ (At' = At => pc' \in Inner)
        /\ Ready' => Ready
    BY <1>5, <2>1, Progress DEF Ready
  <2>4. /\ At # 3 => exists' = exists
        /\ At # 4 => mode' = mode
        /\ At # 10 => prefixes' = prefixes
        /\ At \notin {5, 6} => layout' = layout
        /\ At # 9 => obsolete' = obsolete
    BY <1>5, Frames, Homes
  <2>5. layout' = layout \/ layout' = "current" \/ (OpenDatabase /\ layout' = "empty" /\ mode = "CREATE")
    BY <1>5, Frames DEF CheckVersion, OpenDatabase, InitTables, Succeeds, Fails, Only, dbVars
  <2>f. \A r \in {{"WARNING"}, {"FAILURE"}} : \A p \in DOMAIN After : Return(p, r) /\ Ready' => FALSE
    <3>1. {"WARNING"} \in Results /\ {"FAILURE"} \in Results
      BY DEF Results
    <3> QED
      BY <3>1, Refuses DEF Ready
  <2>g. {"existence", "mode", "test", "init", "contains", "validate", "prefixes"} \subseteq DOMAIN After
    BY DEF After
  <2>s. Ready' => ~Skip
    BY <2>3 DEF Skip, Ready
  <2>6. layout' \in {"absent", "empty"} => prefixes' = {}
    <3>1. CASE OpenDatabase /\ mode = "CREATE"
      <4>1. (Ready /\ At = 6 /\ ~exists) \/ layout' = layout
        BY <3>1, Homes DEF OpenDatabase, Ready, Enter, ModeInv, Succeeds, Only, dbVars
      <4>2. prefixes' = prefixes
        BY <2>4, <3>1, Homes
      <4> QED
        BY <4>1, <4>2 DEF LayoutInv
    <3>2. CASE prefixes' = prefixes /\ ~(OpenDatabase /\ mode = "CREATE")
      BY <2>5, <3>2 DEF LayoutInv
    <3>3. CASE prefixes' # prefixes
      <4>1. SavePrefixes /\ At = 10
        BY <1>5, <3>3, Frames, Homes
      <4>2. Ready /\ ~opt.dry_run
        BY <3>3, <4>1 DEF SavePrefixes, SavesPrefixes, Ready, Enter, Succeeds, Fails, Only, dbVars
      <4> QED
        BY <2>4, <4>1, <4>2 DEF LayoutInv
    <3> QED
      BY <3>1, <3>2, <3>3
  <2>7. exists' => layout' # "absent"
    <3>1. CASE At = 3
      <4>1. layout' = layout
        BY <2>4, <3>1
      <4>2. exists' = exists \/ exists' = (~opt.compare /\ layout # "absent")
        BY <1>5, Frames DEF ValidateExistence, Fails, Only, cfgVars
      <4> QED
        BY <4>1, <4>2 DEF LayoutInv
    <3>2. CASE At # 3
      BY <2>4, <2>5, <3>2 DEF LayoutInv
    <3> QED
      BY <3>1, <3>2
  <2>8. At' \in 4..10 /\ Ready' /\ ~exists' => prefixes' = {}
    <3>1. CASE At = 3
      <4>1. ASSUME Ready', ~exists' PROVE prefixes' = {}
        <5>1. ValidateExistence
          BY <1>5, <2>s, <3>1, <4>1, Places, Doing
        <5>2. exists' = (~opt.compare /\ layout # "absent")
          BY <2>3, <2>f, <2>g, <4>1, <5>1 DEF ValidateExistence, Fails, Only, Ready
        <5>3. layout = "absent"
          BY <2>3, <4>1, <5>2 DEF Ready
        <5> QED
          BY <2>4, <3>1, <5>3 DEF LayoutInv
      <4> QED
        BY <4>1
    <3>2. CASE At \in 4..9
      BY <2>3, <2>4, <3>2 DEF LayoutInv
    <3>3. At' \in 4..10 => At \in 3..9
      BY <2>1, <2>2, <2>3
    <3> QED
      BY <3>1, <3>2, <3>3
  <2>9. At' \in 5..6 /\ Ready' /\ ~opt'.dry_run /\ ~exists' => mode' = "CREATE"
    <3>1. CASE At = 4
      <4>1. ASSUME Ready', ~opt'.dry_run, ~exists' PROVE mode' = "CREATE"
        <5>1. DetermineMode
          BY <1>5, <2>s, <3>1, <4>1, Places, Doing
        <5>2. mode' = ModeFor(exists)
          BY <2>3, <2>f, <2>g, <4>1, <5>1 DEF DetermineMode, Ready
        <5> QED
          BY <2>1, <2>3, <2>4, <3>1, <4>1, <5>2 DEF ModeFor, Ready
      <4> QED
        BY <4>1
    <3>2. CASE At \in 5..6
      BY <2>1, <2>3, <2>4, <3>2 DEF LayoutInv
    <3>3. At' \in 5..6 => At \in 4..6
      BY <2>1, <2>2, <2>3
    <3> QED
      BY <3>1, <3>2, <3>3
  <2>10. pc' = "tables" \/ At' \in 7..13 => (Ready' /\ ~opt'.dry_run => layout' # "absent")
    <3>1. CASE At = 6
      <4>1. ASSUME Ready', ~opt'.dry_run PROVE layout' # "absent"
        <5>1. CASE pc = "tables"
          BY <2>1, <2>3, <2>5, <4>1, <5>1 DEF LayoutInv
        <5>2. CASE pc = "init"
          <6>1. OpenDatabase
            BY <1>5, <2>s, <4>1, <5>2, Doing
          <6>2. layout' = (IF mode = "CREATE" THEN "empty" ELSE layout)
            BY <2>3, <2>f, <2>g, <4>1, <6>1 DEF OpenDatabase, Fails, Only, Ready
          <6>3. mode = "CREATE" \/ layout # "absent"
            BY <2>1, <2>3, <3>1, <4>1 DEF LayoutInv
          <6> QED
            BY <6>2, <6>3
        <5> QED
          BY <3>1, <5>1, <5>2, Places
      <4> QED
        BY <4>1
    <3>2. CASE At \in 7..13
      BY <2>1, <2>3, <2>4, <3>2 DEF LayoutInv
    <3>3. pc' = "tables" \/ At' \in 7..13 => At \in 6..13 \/ (pc' = "tables" /\ At = 5)
      <4>1. pc' = "tables" => At' = 6
        BY DEF At, Order
      <4> QED
        BY <2>1, <2>3, <4>1
    <3>4. ~(pc' = "tables" /\ At = 5)
      <4>1. pc' = "tables" => pc' \in Inner /\ At' = 6
        BY DEF At, Order, Inner
      <4>2. At' = At \/ pc' \notin Inner
        BY <1>5, Progress
      <4> QED
        BY <4>1, <4>2
    <3> QED
      BY <3>1, <3>2, <3>3, <3>4
  <2>11. At' \in 9..13 => (Ready' /\ ~opt'.dry_run => layout' # "empty")
    <3>1. CASE At = 8
      <4>1. ASSUME Ready', ~opt'.dry_run PROVE layout # "empty"
        <5>1. ContainsData
          BY <1>5, <2>s, <3>1, <4>1, Places, Doing
        <5>2. mode # "DRY_RUN"
          BY <2>1, <4>1 DEF ModeInv
        <5> QED
          BY <2>3, <2>f, <2>g, <4>1, <5>1, <5>2 DEF ContainsData, Only, Fails, Ready
      <4> QED
        BY <2>4, <3>1, <4>1
    <3>2. CASE At \in 9..13
      BY <2>1, <2>3, <2>4, <3>2 DEF LayoutInv
    <3>3. At' \in 9..13 => At \in 8..13
      BY <2>1, <2>3
    <3> QED
      BY <3>1, <3>2, <3>3
  <2>12. pc' = "prefixes" /\ Ready' => obsolete' = Foreign' /\ (exists' => opt'.force \/ Foreign' = {})
    <3>1. pc' = "prefixes" => At = 9
      <4>1. pc' = "prefixes" => pc' \notin Inner /\ At' = 10
        BY DEF At, Order, Inner
      <4> QED
        BY <2>1, <2>3, <4>1
    <3>2. ASSUME At = 9, Ready' PROVE obsolete' = Foreign' /\ (exists' => opt'.force \/ Foreign' = {})
      <4>1. ValidatePaths
        BY <1>5, <2>s, <3>2, Places, Doing
      <4>2. obsolete' = Foreign /\ ~(exists /\ Foreign # {} /\ ~opt.force)
        BY <2>3, <2>f, <2>g, <3>2, <4>1 DEF ValidatePaths, Only, Fails, Ready
      <4>3. Foreign' = Foreign
        BY <2>1, <2>4, <3>2 DEF Foreign, Stored
      <4> QED
        BY <2>1, <2>4, <3>2, <4>2, <4>3
    <3> QED
      BY <3>1, <3>2
  <2>13. At' \in 11..13 /\ Ready' /\ ~opt'.dry_run => prefixes' = opt'.roots
    <3>1. CASE At = 10
      <4>1. ASSUME Ready', ~opt'.dry_run PROVE prefixes' = opt'.roots
        <5>1. SavePrefixes
          BY <1>5, <2>s, <3>1, <4>1, Places, Doing
        <5>2. SavesPrefixes
          BY <2>1, <2>3, <4>1 DEF Ready, SavesPrefixes
        <5>3. prefixes' = NewPrefixes
          BY <2>3, <2>f, <2>g, <4>1, <5>1, <5>2 DEF SavePrefixes, Only, Fails
        <5>4. Foreign = prefixes \ opt.roots
          BY <2>1, <4>1 DEF Foreign, Stored, ModeInv
        <5>5. obsolete = Foreign /\ (exists => opt.force \/ Foreign = {}) /\ (~exists => prefixes = {})
          BY <2>3, <3>1, <4>1, Places DEF LayoutInv
        <5> QED
          BY <2>1, <5>3, <5>4, <5>5 DEF NewPrefixes
      <4> QED
        BY <4>1
    <3>2. CASE At \in 11..13
      BY <2>1, <2>3, <2>4, <3>2 DEF LayoutInv
    <3>3. At' \in 11..13 => At \in 10..13
      BY <2>1, <2>3
    <3> QED
      BY <3>1, <3>2, <3>3
  <2> QED
    BY <2>6, <2>7, <2>8, <2>9, <2>10, <2>11, <2>12, <2>13 DEF LayoutInv
<1> QED
  BY <1>1, <1>2, <1>3, <1>4, <1>5, Kinds

\* Every step protects the stored data.
LEMMA ProtectedNext ==
    /\ TypeOK /\ StartInv /\ BatchInv /\ KeepInv /\ StoredDataIsProtected
    /\ [Next]_vars
    => StoredDataIsProtected'
<1> SUFFICES ASSUME TypeOK, StartInv, BatchInv, KeepInv, StoredDataIsProtected, [Next]_vars,
                    Running'
             PROVE  /\ ~opt'.update /\ before'.prefixes # {} =>
                          rows' = before'.rows /\ prefixes' = before'.prefixes
                    /\ ~opt'.force => before'.prefixes \subseteq prefixes'
  BY DEF StoredDataIsProtected
<1>1. CASE UNCHANGED vars \/ PlayBack \/ Interrupt
  <2>1. UNCHANGED <<rows, prefixes, before, opt, pc>>
    BY <1>1 DEF vars, PlayBack, Interrupt, dbVars, cfgVars, obsVars
  <2> QED
    BY <2>1 DEF Running, StoredDataIsProtected
<1>2. CASE StartRun
  BY <1>2 DEF StartRun, dbVars
<1>3. CASE Ends
  BY <1>3 DEF Ends, ProcessEnds, Running
<1>4. CASE Works
  <2>1. UNCHANGED <<opt, before>> /\ Running
    BY <1>4, Moves, Doing
  <2>2. prefixes' # prefixes => SavePrefixes /\ At = 10 /\ Ready /\ ~opt.dry_run /\ prefixes' = NewPrefixes
    BY <1>4, Frames, Homes
       DEF SavePrefixes, SavesPrefixes, Ready, Enter, Succeeds, Fails, Only, dbVars
  <2>3. ASSUME ~opt.update, before.prefixes # {}
        PROVE  rows' = rows /\ prefixes' = prefixes
    <3>1. prefixes' = prefixes
      BY <2>2, <2>3 DEF KeepInv
    <3>2. batch = {}
      BY <2>3 DEF BatchInv
    <3>3. rows' = rows
      BY <1>4, <2>3, <3>2, Frames DEF BatchDeadline, ScanEnds, CommitBatch, DeleteMissing, Cleans,
         Succeeds, Fails, Only, dbVars, TypeOK
    <3> QED
      BY <3>1, <3>3
  <2>4. ~opt.force => prefixes \subseteq prefixes'
    BY <2>2 DEF NewPrefixes
  <2> QED
    BY <2>1, <2>3, <2>4 DEF StoredDataIsProtected
<1> QED
  BY <1>1, <1>2, <1>3, <1>4, Kinds

\* Every step leaves the file alone in the modes that only read.
LEMMA ReadOnlyNext ==
    /\ TypeOK /\ StartInv /\ ModeInv /\ BatchInv /\ ReadOnlyModesWriteNothing
    /\ [Next]_vars
    => ReadOnlyModesWriteNothing'
<1> SUFFICES ASSUME TypeOK, StartInv, ModeInv, BatchInv, ReadOnlyModesWriteNothing, [Next]_vars,
                    Running', opt'.info \/ opt'.compare \/ opt'.dry_run
             PROVE  /\ ~touched' /\ ~modified'
                    /\ rows' = before'.rows /\ prefixes' = before'.prefixes
  BY DEF ReadOnlyModesWriteNothing
<1>1. CASE UNCHANGED vars \/ PlayBack \/ Interrupt
  <2>1. UNCHANGED <<rows, prefixes, before, opt, pc, touched, modified>>
    BY <1>1 DEF vars, PlayBack, Interrupt, dbVars, cfgVars, obsVars
  <2> QED
    BY <2>1 DEF Running, ReadOnlyModesWriteNothing
<1>2. CASE StartRun
  BY <1>2, Places DEF StartRun, dbVars, StartInv
<1>3. CASE Ends
  BY <1>3 DEF Ends, ProcessEnds, Running
<1>4. CASE Works
  <2>1. UNCHANGED <<opt, before>> /\ Running
    BY <1>4, Moves, Doing
  <2>2. ~touched /\ ~modified /\ rows = before.rows /\ prefixes = before.prefixes
    BY <2>1 DEF ReadOnlyModesWriteNothing
  <2>3. opt.info => (Has(status, SKIP) \/ pc = "parse") /\ pc \notin Inner
    BY <2>1 DEF StartInv, Running, Inner
  <2>4. UNCHANGED <<prefixes, touched, modified, rows>>
    <3>1. CASE CheckVersion
      BY <2>1, <2>3, <3>1 DEF CheckVersion, Succeeds, Fails, Only, dbVars, Inner, StartInv, ModeInv
    <3>2. CASE OpenDatabase
      <4>1. mode # "CREATE"
        BY <2>1, <2>3, <3>2 DEF OpenDatabase, Enter, ModeInv
      <4> QED
        BY <2>2, <3>2, <4>1 DEF OpenDatabase, Succeeds, Fails, Only, dbVars, TypeOK
    <3>3. CASE SavePrefixes
      BY <2>1, <2>3, <3>3 DEF SavePrefixes, SavesPrefixes, Enter, Succeeds, Fails, Only, dbVars
    <3>4. CASE \E n \in Names : ScanFile(n)
      <4>1. opt.dry_run
        BY <2>1, <2>3, <3>4 DEF ScanFile, StartInv, Inner
      <4> QED
        BY <2>2, <3>4, <4>1 DEF ScanFile, WritesRow, dbVars, TypeOK
    <3>5. CASE BatchDeadline \/ ScanEnds
      <4>1. opt.dry_run
        BY <2>1, <2>3, <3>5 DEF BatchDeadline, ScanEnds, StartInv, Inner
      <4>2. batch = {}
        BY <4>1 DEF BatchInv
      <4> QED
        BY <2>2, <3>5, <4>2 DEF BatchDeadline, ScanEnds, CommitBatch, TypeOK
    <3>6. CASE DeleteMissing
      <4>1. opt.compare \/ opt.dry_run
        BY <2>1, <2>3, <3>6 DEF DeleteMissing, Enter
      <4>2. CASE opt.compare
        BY <3>6, <4>2 DEF DeleteMissing, Cleans, Succeeds, Only, dbVars
      <4>3. CASE opt.dry_run
        BY <2>2, <3>6, <4>3 DEF DeleteMissing, CleanupBelow, Dropped, Succeeds, Fails, Only, dbVars, TypeOK
      <4> QED
        BY <4>1, <4>2, <4>3
    <3>7. CASE ConsiderVacuum
      BY <2>2, <3>7 DEF ConsiderVacuum, Vacuums, Succeeds, Fails, Only, dbVars
    <3> QED
      BY <1>4, <3>1, <3>2, <3>3, <3>4, <3>5, <3>6, <3>7, Frames
  <2> QED
    BY <2>1, <2>2, <2>4
<1> QED
  BY <1>1, <1>2, <1>3, <1>4, Kinds

\* Every step keeps the flag of db_check_changes() right.
LEMMA FlagNext ==
    TypeOK /\ StartInv /\ ModeInv /\ BatchInv /\ FlagInv /\ [Next]_vars => FlagInv'
<1> SUFFICES ASSUME TypeOK, StartInv, ModeInv, BatchInv, FlagInv, [Next]_vars PROVE FlagInv'
  OBVIOUS
<1> USE DEF FlagInv
<1>1. CASE UNCHANGED vars \/ PlayBack \/ Interrupt
  <2>1. UNCHANGED <<internal, exists, status, touched, modified, batch>>
    BY <1>1 DEF vars, PlayBack, Interrupt, cfgVars, obsVars, scanVars
  <2> QED
    BY <2>1
<1>2. CASE StartRun
  BY <1>2, Places DEF StartRun, StartInv, obsVars
<1>3. CASE Ends
  BY <1>3 DEF Ends, ProcessEnds
<1>4. CASE Works
  <2>1. "FAILURE" \in status => "FAILURE" \in status'
    BY <1>4, Progress
  <2>2. pc # "walk" => batch = {}
    BY DEF BatchInv
  <2>3. ~internal'
    <3>1. CASE StatusOfChanges
      <4>1. ~Has(status, SKIP) /\ batch = {}
        BY <2>2, <3>1 DEF StatusOfChanges, Enter
      <4>2. "FAILURE" \notin status
        BY <4>1 DEF Has, SKIP
      <4>3. exists => touched = modified
        BY <4>1, <4>2 DEF TypeOK
      <4> QED
        BY <3>1, <4>3 DEF StatusOfChanges, ChecksChanges, Succeeds, Fails, Only, obsVars
    <3> QED
      BY <1>4, <3>1, Frames
  <2>4. ASSUME exists', "FAILURE" \notin status' PROVE modified' <=> touched' \/ batch' # {}
    <3>1. "FAILURE" \notin status
      BY <2>1, <2>4
    <3>2. CASE ValidateExistence
      <4>1. ~modified /\ ~touched /\ batch = {}
        BY <2>2, <3>2, Homes DEF StartInv
      <4>2. UNCHANGED <<modified, touched, batch>>
        BY <3>2 DEF ValidateExistence, Fails, Only, scanVars
      <4> QED
        BY <4>1, <4>2
    <3> SUFFICES ASSUME ~ValidateExistence PROVE modified' <=> touched' \/ batch' # {}
      BY <3>2
    <3>3. exists /\ (modified <=> touched \/ batch # {})
      BY <1>4, <2>4, <3>1, Frames
    <3>4. CASE CheckVersion \/ ConsiderVacuum
      <4>1. batch' = {} /\ batch = {}
        BY <2>2, <3>4 DEF CheckVersion, ConsiderVacuum, Enter, Succeeds, Fails, Only, scanVars
      <4>2. \/ modified' = modified /\ touched' = touched
            \/ modified' = TRUE /\ touched' = TRUE
            \/ modified /\ modified' = modified /\ touched' = TRUE
        BY <3>4 DEF CheckVersion, ConsiderVacuum, Vacuums, Succeeds, Fails, Only
      <4> QED
        BY <3>3, <4>1, <4>2
    <3>5. CASE OpenDatabase
      <4>1. mode # "CREATE"
        BY <3>3 DEF ModeInv
      <4>2. UNCHANGED <<modified, batch>> /\ touched' \in {touched, (touched \/ mode = "CREATE")}
        BY <3>5 DEF OpenDatabase, Succeeds, Fails, Only, scanVars
      <4>3. touched' = touched
        BY <4>1, <4>2 DEF TypeOK
      <4> QED
        BY <3>3, <4>2, <4>3
    <3>6. CASE SavePrefixes \/ DeleteMissing
      <4>1. batch' = {} /\ batch = {}
        BY <2>2, <3>6 DEF SavePrefixes, DeleteMissing, CleanupBelow, Enter, Succeeds, Fails, Only, scanVars
      <4>2. \/ modified' = modified /\ touched' = touched
            \/ \E x \in BOOLEAN : modified' = (modified \/ x) /\ touched' = (touched \/ x)
        <5>1. CASE SavePrefixes
          BY <5>1 DEF SavePrefixes, Succeeds, Fails, Only
        <5>2. CASE DeleteMissing
          BY <5>2 DEF DeleteMissing, CleanupBelow, Succeeds, Fails, Only
        <5> QED
          BY <3>6, <5>1, <5>2
      <4> QED
        BY <3>3, <4>1, <4>2
    <3>7. CASE \E n \in Names : ScanFile(n)
      <4>1. PICK n \in Names : ScanFile(n)
        BY <3>7
      <4>2. touched' = touched
        BY <4>1 DEF ScanFile
      <4>3. CASE WritesRow(n)
        BY <3>3, <4>1, <4>2, <4>3 DEF ScanFile
      <4>4. CASE ~WritesRow(n)
        <5>1. batch' = batch /\ modified' = (modified \/ FALSE)
          BY <4>1, <4>4 DEF ScanFile
        <5> QED
          BY <3>3, <4>2, <5>1
      <4> QED
        BY <4>3, <4>4
    <3>8. CASE BatchDeadline \/ ScanEnds
      <4>1. CommitBatch /\ modified' = modified
        <5>1. CASE ScanEnds /\ Return("scan", {"FAILURE"})
          <6>1. "FAILURE" \in status'
            <7>1. status \in Statuses /\ g \in Globals /\ {"FAILURE"} \in Results
              BY DEF TypeOK, StartInv, Globals, Results
            <7> QED
              BY <5>1, <7>1, AfterPhase DEF Return
          <6> QED
            BY <2>4, <6>1
        <5> QED
          BY <3>8, <5>1 DEF BatchDeadline, ScanEnds
      <4> QED
        BY <3>3, <4>1 DEF CommitBatch
    <3> QED
      BY <1>4, <3>3, <3>4, <3>5, <3>6, <3>7, <3>8, Frames
  <2> QED
    BY <2>3, <2>4
<1> QED
  BY <1>1, <1>2, <1>3, <1>4, Kinds

-----------------------------------------------------------------------------
(***************************************************************************)
(* The end of a process.                                                   *)
(***************************************************************************)

\* Without an interrupt only a reported file makes file_list() return a problem.
LEMMA CalmScan ==
    ASSUME g = {"SUCCESS"}
    PROVE  ScanStatus = IF reported # {} THEN {"WARNING"} ELSE {"SUCCESS"}
<1>1. {"SUCCESS"} \in SUBSET Flags /\ g \in Globals
  BY DEF Flags, Globals
<1>2. ~Has({"SUCCESS"}, CRITICAL) /\ g # {"HALTED"}
  BY DEF Has, CRITICAL
<1>3. \A x : x \in Normalize({"SUCCESS"}, g) <=> x = "SUCCESS"
  BY <1>1, <1>2, NormalizeMember
<1>4. Normalize({"SUCCESS"}, g) = {"SUCCESS"}
  BY <1>3
<1> QED
  BY <1>4 DEF ScanStatus

\* Every step keeps what a clean status says.
LEMMA ExitNext ==
    /\ TypeOK /\ SignalInv /\ StartInv /\ ScanInv /\ ExitInv /\ [Next]_vars
    => ExitInv'
<1> SUFFICES ASSUME TypeOK, SignalInv, StartInv, ScanInv, ExitInv, [Next]_vars,
                    ~flag', ~opt'.info
             PROVE  /\ status' = {"SUCCESS"} \/ Problem(status')
                    /\ status' = {"SUCCESS"} =>
                          /\ ~disturbed'
                          /\ pc' # "walk" => reported' = {}
                          /\ ran' = {p \in DOMAIN After : Order[p] < At'}
                          /\ At' >= 16 => ~conn'
  BY Zenon DEF ExitInv
<1>0. /\ status = {"SUCCESS"} \/ Problem(status) \/ flag \/ opt.info
      /\ status = {"SUCCESS"} /\ ~flag /\ ~opt.info =>
            /\ ~disturbed
            /\ pc # "walk" => reported = {}
            /\ ran = {p \in DOMAIN After : Order[p] < At}
            /\ At >= 16 => ~conn
  BY DEF ExitInv
<1>z. {p \in DOMAIN After : Order[p] < 0} = {}
  BY OrderFacts
<1>1. CASE UNCHANGED vars \/ PlayBack
  <2>1. /\ UNCHANGED <<flag, opt, status, disturbed, pc, reported, ran, conn>> /\ At' = At
    BY <1>1, Places DEF vars, PlayBack, sigVars, cfgVars, obsVars
  <2> QED
    BY <1>0, <2>1
<1>2. CASE StartRun
  <2>1. /\ UNCHANGED <<flag, status, disturbed, reported, ran>>
        /\ pc = "idle" /\ At = 0 /\ At' = 0
    BY <1>2, Places DEF StartRun, sigVars, obsVars
  <2>2. ~opt.info /\ ~flag /\ status = {"SUCCESS"}
    BY <2>1 DEF StartInv
  <2> QED
    BY <1>0, <2>1, <2>2
<1>3. CASE Interrupt
  BY <1>3 DEF Interrupt
<1>4. CASE Ends
  <2>1. /\ status' = {"SUCCESS"} /\ ~disturbed' /\ reported' = {} /\ ran' = {} /\ At' = 0
    BY <1>4, Places DEF Ends, ProcessEnds
  <2> QED
    BY <1>z, <2>1
<1>5. CASE Works
  <2>1. UNCHANGED <<opt, flag, g>> /\ ~opt.info /\ ~flag /\ At \in 0..17
    BY <1>5, Moves, Progress
  <2>2. g = {"SUCCESS"} /\ g \in Globals /\ status \in Statuses
    BY <2>1 DEF SignalInv, StartInv, TypeOK, Globals
  <2>3. status = {"SUCCESS"} \/ Problem(status)
    BY <1>0, <2>1
  <2>4. \A s : Problem(s) => Has(s, SKIP) /\ s # {"SUCCESS"}
    BY DEF Problem, Has, SKIP, CRITICAL
  <2>5. ~Has({"SUCCESS"}, SKIP)
    BY DEF Has, SKIP
  <2>6. At' \in {At, At + 1}
    BY <1>5, Progress
  <2>7. CASE Skip
    <3>1. status' = status /\ Has(status, SKIP)
      BY <2>7 DEF Skip
    <3> QED
      BY <2>3, <2>4, <2>5, <3>1
  <2>8. CASE Staying
    <3>1. UNCHANGED <<pc, status, ran, disturbed>> /\ pc = "walk"
      BY <2>8 DEF Staying
    <3>2. At' = At /\ At = 12
      BY <3>1, Places DEF At
    <3> QED
      BY <1>0, <2>1, <2>3, <3>1, <3>2
  <2>9. CASE Entering
    <3>1. UNCHANGED <<status, ran, disturbed>> /\ pc \in {"test", "init", "scan"} /\ pc' \in Inner
      BY <2>9 DEF Entering, Inner
    <3>2. At' = At /\ At <= 12 /\ pc # "walk"
      BY <1>5, <2>1, <3>1, Progress, Places
    <3>3. reported' = reported
      BY <1>5, <3>2, Frames, Homes
    <3> QED
      BY <1>0, <2>1, <2>3, <3>1, <3>2, <3>3
  <2>10. ASSUME NEW p, NEW r, Returning(p, r)
         PROVE  /\ status' = {"SUCCESS"} \/ Problem(status')
                /\ status' = {"SUCCESS"} =>
                      /\ ~disturbed'
                      /\ reported' = {}
                      /\ ran' = {q \in DOMAIN After : Order[q] < At'}
                      /\ At' >= 16 => ~conn'
    <3>1. /\ p \in DOMAIN After /\ r \in Results /\ "HALTED" \notin r /\ Return(p, r)
      BY <2>1, <2>2, <2>10 DEF Returning
    <3>2. /\ status' = {"SUCCESS"} => status \subseteq {"SUCCESS"} /\ r = {"SUCCESS"}
          /\ status = {"SUCCESS"} => status' = r
          /\ Problem(status) => Problem(status')
      BY <2>2, <3>1, AfterPhase DEF Return
    <3>3. r = {"SUCCESS"} \/ Problem(r)
      BY <3>1 DEF Results, Problem, CRITICAL
    <3>4. status' = {"SUCCESS"} \/ Problem(status')
      BY <2>3, <3>2, <3>3
    <3>5. ASSUME status' = {"SUCCESS"}
          PROVE  ~disturbed' /\ reported' = {} /\ ran' = {q \in DOMAIN After : Order[q] < At'}
                 /\ (At' >= 16 => ~conn')
      <4>1. status = {"SUCCESS"} /\ r = {"SUCCESS"}
        BY <2>3, <2>4, <3>2, <3>5
      <4>2. ~disturbed'
        BY <1>0, <2>1, <2>10, <4>1 DEF Returning, NoFault
      <4>n. ~Has(status', SKIP)
        BY <2>5, <3>5
      <4>w. {"WARNING"} \in Results /\ {"FAILURE"} \in Results
        BY DEF Results
      <4>3. At = Order[p] /\ At' = At + 1
        <5>1. /\ Order["version"] = Order["test"] /\ Order["tables"] = Order["init"]
              /\ Order["walk"] = Order["scan"]
          BY DEF Order
        <5> QED
          BY <2>10, <3>1, <5>1, OrderFacts DEF Returning, Return, At
      <4>4. ran' = {q \in DOMAIN After : Order[q] < At'}
        <5>1. ran' = {q \in DOMAIN After : Order[q] < At} \cup {p}
          BY <1>0, <2>1, <3>1, <4>1 DEF Return
        <5>2. \A q \in DOMAIN After : Order[q] < At + 1 <=> Order[q] < At \/ q = p
          BY <2>1, <3>1, <4>3, OrderFacts
        <5> QED
          BY <3>1, <4>3, <5>1, <5>2
      <4>5. At' >= 16 => ~conn'
        <5>1. CASE At = 15
          <6>1. CloseDatabase
            <7>1. pc = "close"
              BY <3>1, <4>3, <5>1, <2>10 DEF Returning, At, Order, After
            <7> QED
              BY <1>5, <7>1, Doing
          <6> QED
            BY <4>n, <4>w, <6>1, Refuses DEF CloseDatabase, Fails, Only
        <5>2. CASE At >= 16
          BY <1>0, <1>5, <2>1, <4>1, <5>2, Frames, Homes
        <5> QED
          BY <2>1, <4>3, <5>1, <5>2
      <4>6. reported' = {}
        <5>1. CASE pc = "walk"
          <6>1. ScanEnds
            BY <1>5, <2>1, <4>3, <5>1, Doing DEF BatchDeadline, ScanFile, At
          <6>2. reported = {}
            <7>1. Return("scan", ScanStatus)
              BY <4>n, <4>w, <6>1, Refuses DEF ScanEnds
            <7>2. ScanStatus # {"WARNING"}
              BY <4>n, <4>w, <7>1, Refuses
            <7> QED
              BY <2>2, <7>2, CalmScan
          <6> QED
            BY <6>1, <6>2 DEF ScanEnds, obsVars
        <5>2. CASE DeleteMissing
          <6>1. reported = {}
            BY <1>0, <2>1, <4>1, <5>2, Homes
          <6>2. ASSUME NEW d \in prefixes, CleanupBelow(d) PROVE reported' = {}
            <7>1. Lost(d) \cap opt.locked = {}
              BY <4>n, <4>w, <6>2, Refuses DEF CleanupBelow
            <7> QED
              BY <6>1, <6>2, <7>1 DEF CleanupBelow
          <6> QED
            BY <5>2, <6>1, <6>2 DEF DeleteMissing, Succeeds, Fails, Only, obsVars
        <5>3. CASE pc # "walk" /\ ~DeleteMissing
          BY <1>0, <1>5, <2>1, <4>1, <5>3, Frames, Homes
        <5> QED
          BY <5>1, <5>2, <5>3
      <4> QED
        BY <4>2, <4>4, <4>5, <4>6
    <3> QED
      BY <3>4, <3>5
  <2> QED
    BY <1>5, <2>7, <2>8, <2>9, <2>10, Moves
<1> QED
  BY <1>1, <1>2, <1>3, <1>4, <1>5, Kinds

\* Every step keeps what is known of the traversal and the cleanup.
LEMMA ScanNext ==
    /\ TypeOK /\ SignalInv /\ StartInv /\ ModeInv /\ BatchInv /\ KeepInv /\ LayoutInv
    /\ ExitInv /\ ScanInv /\ [Next]_vars
    => ScanInv'
<1> SUFFICES ASSUME TypeOK, SignalInv, StartInv, ModeInv, BatchInv, KeepInv, LayoutInv,
                    ExitInv, ScanInv, [Next]_vars
             PROVE  ScanInv'
  OBVIOUS
<1>1. CASE UNCHANGED vars \/ PlayBack
  <2>1. /\ UNCHANGED <<ran, pc, reported, todo, tree, altered, rows, before, batch, opt, status,
                       disturbed>>
        /\ At' = At
    BY <1>1, Places DEF vars, PlayBack, dbVars, sigVars, treeVars, cfgVars, scanVars, obsVars
  <2>2. Alarm' = Alarm /\ OpenRoots' = OpenRoots
    BY <2>1 DEF Alarm, OpenRoots
  <2> QED
    BY <2>1, <2>2 DEF ScanInv
<1>2. CASE StartRun
  <2>1. UNCHANGED <<ran, reported>> /\ At = 0 /\ At' = 0 /\ pc' = "parse" /\ pc = "idle"
    BY <1>2, Places DEF StartRun, obsVars
  <2> QED
    BY <2>1 DEF ScanInv
<1>3. CASE Interrupt
  <2>1. /\ UNCHANGED <<ran, pc, reported, todo, tree, altered, rows, before, batch, opt>>
        /\ disturbed' /\ At' = At
    BY <1>3, Places DEF Interrupt, treeVars, cfgVars, scanVars, obsVars, dbVars
  <2>2. Alarm' = Alarm /\ OpenRoots' = OpenRoots
    BY <2>1 DEF Alarm, OpenRoots
  <2> QED
    BY <2>1, <2>2 DEF ScanInv
<1>4. CASE Ends
  <2>1. ran' = {} /\ reported' = {} /\ At' = 0 /\ pc' = "idle"
    BY <1>4, Places DEF Ends, ProcessEnds
  <2> QED
    BY <2>1 DEF ScanInv
<1>5. CASE Works
  <2>1. UNCHANGED <<opt, flag, g, tree, altered, before>> /\ Running /\ At \in 0..17
    BY <1>5, Moves, Doing, Progress
  <2>2. Alarm' = Alarm /\ OpenRoots' = OpenRoots
    BY <2>1 DEF Alarm, OpenRoots
  <2>3. /\ At' \in {At, At + 1} /\ (At' = At => pc' \in Inner)
        /\ (At' = At + 1 => pc' \notin Inner)
    BY <1>5, <2>1, Progress
  <2>i. pc' \in Inner => At' \in {5, 6, 12}
    BY DEF Inner, At, Order
  <2>4. "scan" \in ran' /\ "scan" \notin ran => At = 12 /\ At' = 13 /\ \E r : Returning("scan", r)
    <3>1. ASSUME "scan" \in ran', "scan" \notin ran PROVE \E r : Returning("scan", r)
      <4>1. \E p, r : Returning(p, r)
        BY <1>5, <3>1, Moves DEF Skip, Staying, Entering
      <4> QED
        BY <3>1, <4>1 DEF Returning, Return
    <3>2. ASSUME NEW r, Returning("scan", r) PROVE At = 12 /\ At' = 13
      <4>1. pc \in {"scan", "walk"} /\ pc' = "cleanup"
        BY <3>2 DEF Returning, Return, After
      <4> QED
        BY <4>1 DEF At, Order
    <3> QED
      BY <3>1, <3>2
  <2>5. pc = "walk" => \/ pc' = "walk" /\ ~ScanEnds
                       \/ At' = 13 /\ ScanEnds
    <3>1. ASSUME ScanEnds PROVE At' = 13
      BY <3>1 DEF ScanEnds, Return, After, At, Order
    <3>2. ASSUME BatchDeadline \/ (\E n \in Names : ScanFile(n)), pc = "walk" PROVE pc' = "walk"
      BY <3>2 DEF BatchDeadline, ScanFile
    <3>3. At' = 13 => pc' # "walk"
      BY DEF At, Order
    <3> QED
      BY <1>5, <3>1, <3>2, <3>3, Doing
  <2>6. At' <= 12 => "scan" \notin ran'
    BY <2>1, <2>3, <2>4 DEF ScanInv
  <2>7. At' <= 12 /\ pc' # "walk" => reported' = {}
    <3>1. ASSUME At' <= 12, pc' # "walk" PROVE At <= 12 /\ pc # "walk"
      BY <2>1, <2>3, <2>5, <3>1
    <3>2. At <= 12 /\ pc # "walk" => reported' = reported
      BY <1>5, Frames, Homes
    <3> QED
      BY <3>1, <3>2 DEF ScanInv
  <2>8. pc' = "walk" => /\ todo' \subseteq UNION {tree'[d] : d \in OpenRoots'}
                        /\ rows' \cap todo' \subseteq before'.rows
                        /\ batch' \cap todo' = {}
    <3>0. SUFFICES ASSUME pc' = "walk"
                   PROVE  /\ todo' \subseteq UNION {tree[d] : d \in OpenRoots}
                          /\ rows' \cap todo' \subseteq before.rows
                          /\ batch' \cap todo' = {}
      BY <2>1, <2>2
    <3>1. CASE pc = "walk"
      <4>1. /\ todo \subseteq UNION {tree[d] : d \in OpenRoots}
            /\ rows \cap todo \subseteq before.rows
            /\ batch \cap todo = {}
        BY <3>1 DEF ScanInv
      <4>2. ~ScanEnds
        BY <2>5, <3>0, <3>1 DEF At, Order
      <4>3. CASE BatchDeadline
        BY <4>1, <4>3 DEF BatchDeadline, CommitBatch
      <4>4. CASE \E n \in Names : ScanFile(n)
        BY <4>1, <4>4 DEF ScanFile, dbVars
      <4> QED
        BY <1>5, <3>1, <4>2, <4>3, <4>4, Doing
    <3>2. CASE pc # "walk"
      <4>1. pc = "scan"
        <5>1. At = 12
          <6>1. At' = 12 /\ pc' \in Inner
            BY <3>0 DEF At, Order, Inner
          <6> QED
            BY <2>1, <2>3, <6>1
        <5> QED
          BY <3>2, <5>1, Places
      <4>2. ScanBegins
        <5>1. ~Skip
          BY <3>0, <4>1 DEF Skip, After
        <5> QED
          BY <1>5, <4>1, <5>1, Doing
      <4>3. todo' = UNION {tree[d] : d \in OpenRoots} /\ UNCHANGED <<rows, batch>>
        BY <3>0, <4>2 DEF ScanBegins, Succeeds, Fails, Only, Return, After, dbVars
      <4>4. rows = before.rows /\ batch = {}
        BY <2>1, <3>2, <4>2, Homes DEF KeepInv, BatchInv
      <4> QED
        BY <4>3, <4>4
    <3> QED
      BY <3>1, <3>2
  <2>9. At' \in 12..13 /\ reported' # {} => Alarm'
    <3>1. CASE At <= 12
      <4>1. CASE reported' = reported
        <5>1. reported # {} => At = 12
          BY <2>1, <2>3, <3>1, Places DEF ScanInv
        <5> QED
          BY <2>2, <4>1, <5>1 DEF ScanInv
      <4>2. ASSUME NEW n \in Names, ScanFile(n), Sealed(n), n \in altered PROVE Alarm
        <5>1. pc = "walk" /\ n \in todo
          BY <4>2 DEF ScanFile
        <5>2. n \in before.rows /\ n \in opt.locked
          BY <4>2, <5>1 DEF ScanInv, Sealed
        <5>3. PICK d \in OpenRoots : n \in tree[d]
          BY <5>1 DEF ScanInv
        <5> QED
          BY <4>2, <5>2, <5>3 DEF Alarm
      <4>3. ~DeleteMissing
        BY <3>1, Homes
      <4>4. reported' = reported \/ Alarm
        BY <1>5, <4>2, <4>3, Frames DEF ScanFile
      <4>5. Alarm => Alarm'
        BY <2>2
      <4> QED
        BY <4>1, <4>4, <4>5
    <3>2. CASE At > 12
      BY <2>1, <2>3, <2>i, <3>2
    <3> QED
      BY <2>1, <3>1, <3>2
  <2>10. pc' = "cleanup" /\ ~disturbed' /\ "scan" \in ran' => status' = {"SUCCESS"} \/ Alarm'
    <3>1. SUFFICES ASSUME pc' = "cleanup", ~disturbed', "scan" \in ran', ~Alarm'
                   PROVE  status' = {"SUCCESS"}
      BY Zenon
    <3>2. At = 12
      <4>1. At' = 13 /\ pc' \notin Inner
        BY <3>1 DEF At, Order, Inner
      <4> QED
        BY <2>1, <2>3, <4>1
    <3>3. PICK r : Returning("scan", r)
      BY <2>4, <3>1, <3>2 DEF ScanInv
    <3>4. ~disturbed /\ ~flag /\ g = {"SUCCESS"}
      BY <1>5, <3>1, Progress DEF SignalInv, TypeOK
    <3>5. ~Has(status, SKIP) /\ ~opt.info
      <4>1. ~Has(status, SKIP)
        BY <3>3 DEF Returning, Called
      <4> QED
        BY <2>1, <3>2, <4>1, Places DEF StartInv
    <3>6. status = {"SUCCESS"}
      BY <3>4, <3>5 DEF ExitInv, Problem, Has, SKIP, CRITICAL
    <3>8. ~Fault
      BY <3>1 DEF Fault
    <3>9. Return("scan", {"SUCCESS"})
      <4>1. CASE pc = "scan"
        <5>1. ScanBegins
          BY <1>5, <3>5, <4>1, Doing DEF Skip
        <5>2. ~Stay("walk")
          BY <3>1 DEF Stay
        <5> QED
          BY <3>8, <5>1, <5>2 DEF ScanBegins, Succeeds, Fails, Only
      <4>2. CASE pc = "walk"
        <5>1. ScanEnds
          BY <2>5, <3>1, <4>2
        <5>2. Return("scan", ScanStatus)
          BY <3>8, <5>1 DEF ScanEnds
        <5>3. reported = {}
          BY <2>2, <3>1, <3>2 DEF ScanInv
        <5> QED
          BY <3>4, <5>2, <5>3, CalmScan
      <4> QED
        BY <3>2, <4>1, <4>2, Places
    <3>10. {"SUCCESS"} \in Results /\ g \in Globals /\ status \in Statuses
      BY DEF Results, TypeOK, Globals, StartInv
    <3> QED
      BY <3>4, <3>6, <3>9, <3>10, AfterPhase DEF Return
  <2>11. ASSUME NEW d \in OpenRoots, At' >= 14, ~disturbed', "scan" \in ran', opt.update,
                ~opt.dry_run, opt.roots = {d}, ~Alarm
         PROVE  /\ rows' \subseteq tree[d] \cup opt.locked
                /\ (opt.locked \cap before.rows) \ tree[d] \subseteq reported'
    <3>1. ~disturbed /\ ~flag
      BY <1>5, <2>11, Progress DEF SignalInv
    <3>2. At >= 13 /\ "scan" \in ran
      BY <2>1, <2>3, <2>4, <2>11
    <3>3. CASE At = 13
      <4>1. pc = "cleanup"
        BY <3>3, Places
      <4>2. status = {"SUCCESS"}
        BY <2>11, <3>1, <3>2, <4>1 DEF ScanInv
      <4>3. ~Has(status, SKIP)
        BY <4>2 DEF Has, SKIP
      <4>4. DeleteMissing
        BY <1>5, <4>1, <4>3, Doing DEF Skip
      <4>5. Cleans /\ Ready
        BY <2>11, <3>1, <4>3 DEF Cleans, Ready, StartInv
      <4>6. prefixes = {d}
        BY <2>11, <3>3, <4>5 DEF LayoutInv
      <4>7. CleanupBelow(d)
        <5>1. ~Fails("cleanup")
          BY <2>11 DEF Fails, Fault
        <5> QED
          BY <4>4, <4>5, <4>6, <5>1 DEF DeleteMissing
      <4>8. Lost(d) = rows \ tree[d] /\ before.rows \subseteq rows
        BY <2>1, <3>3 DEF Lost, OpenRoots, KeepInv
      <4>9. rows' = rows \ (Lost(d) \ opt.locked) /\ reported' = reported \cup (Lost(d) \cap opt.locked)
        BY <2>11, <4>7 DEF CleanupBelow, Dropped
      <4> QED
        BY <4>8, <4>9
    <3>4. CASE At >= 14
      <4>1. UNCHANGED <<rows, reported>>
        BY <1>5, <3>4, Frames, Homes
      <4> QED
        BY <2>11, <3>1, <3>2, <3>4, <4>1 DEF ScanInv
    <3> QED
      BY <2>1, <3>2, <3>3, <3>4
  <2>12. \A d \in OpenRoots' :
            (/\ At' >= 14 /\ ~disturbed' /\ "scan" \in ran'
             /\ opt'.update /\ ~opt'.dry_run /\ opt'.roots = {d})
            => \/ Alarm'
               \/ /\ rows' \subseteq tree'[d] \cup opt'.locked
                  /\ (opt'.locked \cap before'.rows) \ tree'[d] \subseteq reported'
    BY <2>1, <2>2, <2>11
  <2> QED
    BY <2>6, <2>7, <2>8, <2>9, <2>10, <2>12 DEF ScanInv
<1> QED
  BY <1>1, <1>2, <1>3, <1>4, <1>5, Kinds

\* The failures that no call of SQLite or of the operating system is to blame for.
LEMMA Failures ==
    ASSUME TypeOK, StartInv, Works, "FAILURE" \notin status, "FAILURE" \in status', ~disturbed'
    PROVE  \/ PathsDetect /\ ~opt.compare /\ opt.roots = {}
           \/ DetermineMode /\ ~exists
           \/ TestFile /\ journal = "hot"
           \/ CheckVersion /\ layout = "empty" /\ layout' = layout
           \/ ContainsData /\ layout = "empty" /\ layout' = layout
           \/ DeleteMissing /\ Ready /\ prefixes = {}
<1>1. status \in Statuses /\ g \in Globals
  BY DEF TypeOK, StartInv, Globals
<1>2. \A r \in Results \ {{"FAILURE"}} : \A p : ~Return(p, r)
  BY <1>1, AfterPhase DEF Return
<1>r. {{"SUCCESS"}, {"WARNING"}, {"INFO", "HALTED"}} \subseteq Results \ {{"FAILURE"}}
  BY DEF Results
<1>3. ~Fault
  BY DEF Fault
<1>4. \A p : ~Succeeds(p) /\ ~Fails(p)
  BY <1>2, <1>3, <1>r DEF Succeeds, Fails, Only
<1>5. \A r \in {{"SUCCESS"}, {"WARNING"}, {"INFO", "HALTED"}} : \A p : ~Return(p, r) /\ ~Only(p, r)
  BY <1>2, <1>r DEF Only
<1>6. ~Skip /\ status' # status
  BY DEF Skip
<1>7. ~ParseArguments /\ ~InitSignals /\ ~CompareDatabases /\ ~CountFiles /\ ~ShowRemembered
  <2>1. ~ParseArguments
    BY <1>4, <1>5 DEF ParseArguments
  <2> QED
    BY <2>1, <1>4, <1>5 DEF InitSignals, CompareDatabases, CountFiles, ShowRemembered
<1>8. ~ValidateExistence /\ ~OpenDatabase /\ ~InitTables /\ ~ValidatePaths /\ ~SavePrefixes
  <2>1. ~ValidateExistence /\ ~InitTables /\ ~SavePrefixes
    BY <1>4, <1>5 DEF ValidateExistence, InitTables, SavePrefixes
  <2>2. ~OpenDatabase
    BY <1>4, <1>6 DEF OpenDatabase, Stay
  <2>3. ~ValidatePaths
    BY <1>4, <1>5 DEF ValidatePaths
  <2> QED
    BY <2>1, <2>2, <2>3
<1>9. ~ScanBegins /\ ~BatchDeadline /\ ~(\E n \in Names : ScanFile(n)) /\ ~CloseDatabase
      /\ ~ConsiderVacuum /\ ~StatusOfChanges
  <2>1. ~ScanBegins /\ ~BatchDeadline /\ ~(\E n \in Names : ScanFile(n))
    BY <1>4, <1>6 DEF ScanBegins, BatchDeadline, ScanFile, Stay
  <2>2. ~CloseDatabase /\ ~ConsiderVacuum /\ ~StatusOfChanges
    BY <1>4, <1>5 DEF CloseDatabase, ConsiderVacuum, StatusOfChanges
  <2> QED
    BY <2>1, <2>2
<1>10. ~ScanEnds
  <2>1. ScanStatus # {"FAILURE"} /\ ScanStatus \in Results
    <3>1. {"SUCCESS"} \in SUBSET Flags
      BY DEF Flags
    <3>2. \A x : x \in Normalize({"SUCCESS"}, g) <=> \/ x = "HALTED" /\ g = {"HALTED"}
                                                    \/ x = "SUCCESS"
      BY <1>1, <3>1, NormalizeMember DEF Has, CRITICAL
    <3>3. Normalize({"SUCCESS"}, g) = IF g = {"HALTED"} THEN {"SUCCESS", "HALTED"} ELSE {"SUCCESS"}
      BY <3>2
    <3> QED
      BY <3>3 DEF ScanStatus, Results
  <2> QED
    BY <1>2, <1>3, <2>1 DEF ScanEnds
<1>11. DeleteMissing => Ready /\ prefixes = {}
  BY <1>4, <1>5 DEF DeleteMissing, CleanupBelow, Cleans, Ready, Enter
<1>12. DetermineMode => ~exists
  BY <1>5 DEF DetermineMode
<1>13. TestFile => journal = "hot"
  BY <1>4, <1>6 DEF TestFile, Stay
<1>14. CheckVersion => layout = "empty" /\ layout' = layout
  <2>1. ASSUME CheckVersion PROVE layout = "empty" /\ Only("test", {"FAILURE"})
    BY <1>4, <1>5, <2>1 DEF CheckVersion
  <2> QED
    BY <2>1 DEF Only, dbVars
<1>15. ContainsData => layout = "empty" /\ layout' = layout
  <2>1. ASSUME ContainsData PROVE layout = "empty" /\ Only("contains", {"FAILURE"})
    BY <1>4, <1>5, <2>1 DEF ContainsData
  <2> QED
    BY <2>1 DEF Only, dbVars
<1>16. PathsDetect => ~opt.compare /\ opt.roots = {}
  BY <1>5 DEF PathsDetect
<1> QED
  BY <1>6, <1>7, <1>8, <1>9, <1>10, <1>11, <1>12, <1>13, <1>14, <1>15, <1>16
     DEF Works, Program, Exit

\* Every step keeps what is known of the failures of an undisturbed --update.
LEMMA FailNext ==
    TypeOK /\ StartInv /\ LayoutInv /\ FailInv /\ [Next]_vars => FailInv'
<1> SUFFICES ASSUME TypeOK, StartInv, LayoutInv, FailInv, [Next]_vars, ~disturbed',
                    "FAILURE" \in status', opt'.update, ~opt'.compare, ~opt'.dry_run,
                    opt'.roots # {}
             PROVE  journal' = "hot" \/ layout' = "empty" \/ (~exists' /\ At' > 4)
  BY DEF FailInv
<1>1. CASE UNCHANGED vars
  <2>1. UNCHANGED <<disturbed, status, opt, journal, layout, exists>> /\ At' = At
    BY <1>1, Places DEF vars, dbVars, cfgVars
  <2> QED
    BY <2>1 DEF FailInv
<1>2. CASE StartRun \/ PlayBack
  <2>1. pc = "idle" /\ status' = status
    BY <1>2 DEF StartRun, PlayBack, Running
  <2> QED
    BY <2>1 DEF StartInv
<1>3. CASE Interrupt
  BY <1>3 DEF Interrupt
<1>4. CASE Ends
  BY <1>4 DEF Ends, ProcessEnds
<1>5. CASE Works
  <2>1. UNCHANGED <<opt, journal>> /\ At \in 0..17 /\ At' \in {At, At + 1} /\ ~disturbed
    BY <1>5, Moves, Progress
  <2>2. CASE "FAILURE" \in status
    <3>1. Has(status, SKIP)
      BY <2>2 DEF Has, SKIP
    <3>2. layout' = layout /\ exists' = exists
      BY <1>5, <3>1, Frames DEF CheckVersion, InitTables, OpenDatabase, ValidateExistence, Enter,
         StartInv, Inner
    <3> QED
      BY <2>1, <2>2, <3>2 DEF FailInv
  <2>3. CASE "FAILURE" \notin status
    <3>1. CASE DetermineMode /\ ~exists
      <4>1. exists' = exists /\ At = 4 /\ pc' \notin Inner
        BY <3>1, Homes DEF DetermineMode, Return, After, Inner
      <4>2. At' = 5
        BY <1>5, <4>1, Progress
      <4> QED
        BY <3>1, <4>1, <4>2
    <3>2. ~(DeleteMissing /\ Ready /\ prefixes = {})
      BY <2>1, Homes DEF LayoutInv
    <3> QED
      BY <1>5, <2>1, <2>3, <3>1, <3>2, Failures
  <2> QED
    BY <2>2, <2>3
<1> QED
  BY <1>1, <1>2, <1>3, <1>4, <1>5, Kinds

-----------------------------------------------------------------------------
(***************************************************************************)
(* The theorems.                                                           *)
(***************************************************************************)

\* Every step keeps the invariant.
LEMMA SessionNext == SessionInv /\ [Next]_vars => SessionInv'
  BY TypeNext, SignalNext, StartNext, ModeNext, BatchNext, KeepNext, LayoutNext, FlagNext,
     ExitNext, ScanNext, FailNext, ProtectedNext, ReadOnlyNext, Zenon DEF SessionInv

\* The invariant of the pipeline holds of every process on the database.
LEMMA SessionAlways == Spec => []SessionInv
<1>1. Init => SessionInv
  BY SessionInit
<1>2. SessionInv /\ [Next]_vars => SessionInv'
  BY SessionNext
<1> QED
  BY <1>1, <1>2, PTL DEF Spec

\* Without --update the rows and prefixes of an existing database stay what they
\* were, and without --force no stored prefix is forgotten: db_contains_data(),
\* db_validate_paths() and db_save_prefixes(), with interrupts and faults anywhere.
THEOREM StoredDataStaysProtected == Spec => []StoredDataIsProtected
<1>1. SessionInv => StoredDataIsProtected
  BY DEF SessionInv
<1> QED
  BY <1>1, SessionAlways, PTL

\* file_list() adds rows only while the database names exactly the roots of the run.
THEOREM WalksKnowTheirRoots == Spec => []WalkKnowsItsRoots
<1>1. SessionInv => WalkKnowsItsRoots
  BY DEF SessionInv, BatchInv, WalkKnowsItsRoots
<1> QED
  BY <1>1, SessionAlways, PTL

\* --help, --compare and --dry-run change nothing in the database file.
THEOREM ReadersWriteNothing == Spec => []ReadOnlyModesWriteNothing
<1>1. SessionInv => ReadOnlyModesWriteNothing
  BY DEF SessionInv
<1> QED
  BY <1>1, SessionAlways, PTL

\* db_check_changes() never finds the flag db_primary_file_modified wrong.
THEOREM ChangeFlagStaysRight == Spec => []ChangeFlagIsRight
<1>1. SessionInv => ChangeFlagIsRight
  BY DEF SessionInv, FlagInv, ChangeFlagIsRight
<1> QED
  BY <1>1, SessionAlways, PTL

\* exit_status() answers 0 only when every phase ran, nothing failed, nothing was
\* reported and the database is closed.
THEOREM ExitZeroStaysClean == Spec => []ExitZeroIsClean
<1>1. SessionInv => ExitZeroIsClean
  <2>1. SUFFICES ASSUME SessionInv, pc = "exit", ExitCode = {}, ~opt.info
                 PROVE  ran = DOMAIN After /\ reported = {} /\ ~disturbed /\ ~conn
    BY DEF ExitZeroIsClean
  <2>2. At = 18
    BY <2>1 DEF At, Order
  <2>3. ~flag /\ Has(status, TRIUMPH)
    <3>1. status \in Statuses
      BY <2>1 DEF SessionInv, StartInv
    <3> QED
      BY <2>1, <3>1 DEF ExitCode, Statuses
  <2>4. status = {"SUCCESS"} \/ Problem(status)
    BY <2>1, <2>3 DEF SessionInv, ExitInv
  <2>5. ~Problem(status)
    BY <2>3 DEF Problem, Has, TRIUMPH, CRITICAL
  <2>6. /\ ~disturbed /\ reported = {} /\ ~conn
        /\ ran = {p \in DOMAIN After : Order[p] < 18}
    BY <2>1, <2>2, <2>3, <2>4, <2>5 DEF SessionInv, ExitInv
  <2>7. \A p \in DOMAIN After : Order[p] < 18
    BY OrderFacts
  <2> QED
    BY <2>6, <2>7
<1> QED
  BY <1>1, SessionAlways, PTL

\* A completed --update of one open root has dealt with every row whose file is
\* gone, unless the traversal raised an alarm: run() skips the cleanup then.
THEOREM MissingFilesStayHandled == Spec => []MissingFilesAreHandledUnlessAlarm
<1>1. SessionInv => MissingFilesAreHandledUnlessAlarm
  <2>1. pc = "exit" => At = 18
    BY DEF At, Order
  <2> QED
    BY <2>1 DEF SessionInv, ScanInv, MissingFilesAreHandledUnlessAlarm
<1> QED
  BY <1>1, SessionAlways, PTL

\* An undisturbed --update that is entitled to its database fails only because of a
\* hot journal or of a database file without tables.
THEOREM UpdatesWorkUnlessLeftover == Spec => []NextUpdateWorksUnlessLeftover
<1>1. SessionInv => NextUpdateWorksUnlessLeftover
  BY DEF SessionInv, FailInv, NextUpdateWorksUnlessLeftover, Entitled
<1> QED
  BY <1>1, SessionAlways, PTL

=============================================================================
