------------------------------ MODULE Compare ------------------------------
(***************************************************************************)
(* --compare: db_compare() checks two database files, attaches both to one *)
(* connection, runs a query per category of differences and draws its      *)
(* conclusions from the rows that were shown.  Other processes may update  *)
(* the files meanwhile, and Ctrl+C may end any of the loops.               *)
(***************************************************************************)
EXTENDS ReturnStatus, Sequences, Naturals

CONSTANTS
    Paths,       \* relative paths
    Hidden,      \* those that --ignore and --include keep out of the report
    Digests,     \* SHA512 values
    Databases,   \* the content of the two files at the start
    Filters,     \* values of --compare-filter: sets of categories
    Conditions,  \* what db_integrity_check() may find, for each file
    MaxWrites,   \* updates of the files by other processes
    MaxFaults    \* calls of SQLite that fail

Sides == {1, 2}

\* What a database says of a path.  A row whose hashing has not come to its end,
\* and the row of an empty file, have no checksum.
Content == {"no row", "partial", "empty"} \cup Digests

\* Good; of another version; missing or damaged.
Condition == {"SUCCESS", "WARNING", "FAILURE"}

Categories == {"first-source", "second-source", "checksum-mismatch"}

ASSUME CompareAssumption ==
    /\ Hidden \subseteq Paths
    /\ {"no row", "partial", "empty", "NULL"} \cap Digests = {}
    /\ Databases \subseteq [Sides -> [Paths -> Content]]
    /\ Filters \subseteq SUBSET Categories
    /\ Conditions \subseteq [Sides -> Condition]
    /\ MaxWrites \in Nat /\ MaxFaults \in Nat

VARIABLES
    db,         \* the content of the two files
    condition,
    filter,     \* config->compare_filter
    pc,
    side,       \* the file at hand
    attached,   \* the databases of the connection
    category,   \* the query at hand
    left,       \* its rows that have not been read
    found,      \* *_differences_found, checksum_mismatches_found
    status, flag, g,
    \* Observations.
    frozen,     \* the content of the files once both are attached
    shown,      \* the paths reported in each category
    claims,     \* the summary lines printed
    writes, faults

vars == <<db, condition, filter, pc, side, attached, category, left, found, status, flag, g,
          frozen, shown, claims, writes, faults>>

envVars == <<db, condition, filter, writes>>
sigVars == <<flag, g>>
qryVars == <<category, left, found, shown>>

-----------------------------------------------------------------------------
(***************************************************************************)
(* Up to the attached databases.                                           *)
(***************************************************************************)

\* The early returns of db_compare(); main() calls it with a clean status.
Begin ==
    /\ pc = "begin"
    /\ pc' = (IF flag THEN "done" ELSE "check")
    /\ status' = (IF flag THEN Provide(status, g) ELSE status)
    /\ UNCHANGED <<envVars, side, attached, qryVars, sigVars, frozen, claims, faults>>

\* What db_integrity_check() says; db_check_version() skips its work after Ctrl+C.
Checkup == IF flag /\ condition[side] = "WARNING" THEN "SUCCESS" ELSE condition[side]

\* file_availability() and db_integrity_check() of one of the files.
CheckFile ==
    /\ pc = "check"
    /\ LET st == Provide({Checkup}, g)
       IN  /\ status' = st
           /\ IF side = 1 /\ st = {"SUCCESS"}
              THEN side' = 2 /\ UNCHANGED pc
              ELSE side' = 1 /\ pc' = "attach"
    /\ UNCHANGED <<envVars, attached, qryVars, sigVars, frozen, claims, faults>>

\* db_attach().  The connection holds its locks from here on: db_init() has chosen
\* locking_mode=EXCLUSIVE, which databases attached later take over.
Attach ==
    /\ pc = "attach"
    /\ IF status = {"SUCCESS"}
       THEN LET st == Provide({"SUCCESS"}, g)
            IN  /\ status' = st
                /\ attached' = (IF st = {"SUCCESS"} THEN attached \cup {side} ELSE attached)
       ELSE UNCHANGED <<status, attached>>
    /\ frozen' = db
    /\ IF side = 1 THEN side' = 2 /\ UNCHANGED pc ELSE side' = 1 /\ pc' = "query"
    /\ UNCHANGED <<envVars, qryVars, sigVars, claims, faults>>

-----------------------------------------------------------------------------
(***************************************************************************)
(* The report.                                                             *)
(***************************************************************************)

Order == <<"first-source", "second-source", "checksum-mismatch">>

Has1(p) == db[1][p] # "no row"
Has2(p) == db[2][p] # "no row"

\* The column sha512.
Sha512(s, p) == IF db[s][p] \in Digests THEN db[s][p] ELSE "NULL"

\* The rows of compare_B_sql, compare_A_sql and compare_checksums_sql.
Rows(c) ==
    {p \in Paths :
        CASE c = "first-source"  -> Has1(p) /\ ~Has2(p)
          [] c = "second-source" -> Has2(p) /\ ~Has1(p)
          [] OTHER               -> Has1(p) /\ Has2(p) /\ Sha512(1, p) # Sha512(2, p)}

\* Without --compare-filter every category is checked.
Checks(c) == filter = {} \/ c \in filter

\* The next of the three run(db_report_category()).
BeginCategory ==
    /\ pc = "query" /\ category < Len(Order)
    /\ category' = category + 1
    /\ IF Checks(Order[category + 1]) /\ ~Has(status, SKIP)
       THEN pc' = "rows" /\ left' = Rows(Order[category + 1])
       ELSE UNCHANGED <<pc, left>>
    /\ UNCHANGED <<envVars, side, attached, found, status, sigVars, frozen, shown, claims,
                   faults>>

\* One row of the query; only visible paths count.
ReadRow(p) ==
    /\ pc = "rows" /\ ~flag
    /\ p \in left
    /\ left' = left \ {p}
    /\ IF p \in Hidden
       THEN UNCHANGED <<found, shown>>
       ELSE /\ found' = found \cup {Order[category]}
            /\ shown' = [shown EXCEPT ![Order[category]] = @ \cup {p}]
    /\ UNCHANGED <<envVars, pc, side, attached, category, status, sigVars, frozen, claims,
                   faults>>

\* Mutant of EndCategory: waits for the rows that an interrupt left.
EndCategoryWhenRead ==
    /\ pc = "rows" /\ left = {}
    /\ pc' = "query"
    /\ status' = AfterCall(status, Provide({"SUCCESS"}, g), g)
    /\ UNCHANGED <<envVars, side, attached, qryVars, sigVars, frozen, claims, faults>>

\* The end of db_report_category(): all rows read, or Ctrl+C.
EndCategory ==
    /\ pc = "rows" /\ (left = {} \/ flag)
    /\ left' = {}
    /\ pc' = "query"
    /\ status' = AfterCall(status, Provide({"SUCCESS"}, g), g)
    /\ UNCHANGED <<envVars, side, attached, category, found, shown, sigVars, frozen, claims,
                   faults>>

EndReport ==
    /\ pc = "query" /\ category = Len(Order)
    /\ pc' = "detach"
    /\ UNCHANGED <<envVars, side, attached, qryVars, status, sigVars, frozen, claims, faults>>

\* call(db_detach()) of one database, whatever the status.
Detach ==
    /\ pc = "detach"
    /\ IF side \in attached
       THEN /\ status' = AfterCall(status, Provide({"SUCCESS"}, g), g)
            /\ attached' = attached \ {side}
       ELSE UNCHANGED <<status, attached>>
    /\ IF side = 1 THEN side' = 2 /\ UNCHANGED pc ELSE side' = 1 /\ pc' = "summary"
    /\ UNCHANGED <<envVars, qryVars, sigVars, frozen, claims, faults>>

FullScope == \A c \in Categories : Checks(c)

\* Mutant of Claims: any status but a failure will do.
ClaimsAnyway ==
    IF Has(status, CRITICAL) THEN {}
    ELSE {c \in Categories \ found : Checks(c)}

\* The summary lines: one for each category, and "absolutely equal" for all of them.
\* A full comparison does not mention the sources one by one.
Claims ==
    IF status # {"SUCCESS"} THEN {}
    ELSE {c \in Categories \ found : Checks(c) /\ (FullScope => c = "checksum-mismatch")}
         \cup (IF FullScope /\ found = {} THEN {"equal"} ELSE {})

Summary ==
    /\ pc = "summary"
    /\ pc' = "done"
    /\ claims' = Claims
    /\ status' = Provide(status, g)
    /\ UNCHANGED <<envVars, side, attached, qryVars, sigVars, frozen, faults>>

\* A call of SQLite fails in one of the steps.
StepFails ==
    /\ faults < MaxFaults
    /\ faults' = faults + 1
    /\ status' = Provide({"FAILURE"}, g)
    /\ \/ /\ pc = "check"
          /\ pc' = "attach" /\ side' = 1
          /\ UNCHANGED <<attached, left, frozen>>
       \/ /\ pc = "attach" /\ status = {"SUCCESS"}
          /\ IF side = 1 THEN side' = 2 /\ UNCHANGED pc ELSE side' = 1 /\ pc' = "query"
          /\ frozen' = db
          /\ UNCHANGED <<attached, left>>
       \/ /\ pc = "rows"
          /\ pc' = "query" /\ left' = {}
          /\ UNCHANGED <<side, attached, frozen>>
       \/ /\ pc = "detach" /\ side \in attached
          /\ IF side = 1 THEN side' = 2 /\ UNCHANGED pc ELSE side' = 1 /\ pc' = "summary"
          /\ UNCHANGED <<attached, left, frozen>>
    /\ UNCHANGED <<envVars, category, found, shown, sigVars, claims>>

-----------------------------------------------------------------------------
(***************************************************************************)
(* Everybody else.                                                         *)
(***************************************************************************)

\* signal_notify_quit_handler(); see Session for the overwritten HALTED.
Interrupt ==
    /\ pc # "done" /\ ~flag
    /\ flag' = TRUE
    /\ g' \in {g, {"HALTED"}}
    /\ UNCHANGED <<envVars, pc, side, attached, qryVars, status, frozen, claims, faults>>

\* Mutant of Writable: the locks end with each query.
WritableBetweenQueries(s) == s \notin attached \/ pc # "rows"

\* Another process gets the lock that it needs to commit.
Writable(s) == s \notin attached

\* Another process updates a row of one of the files.
WriteElsewhere ==
    /\ pc # "done" /\ writes < MaxWrites
    /\ writes' = writes + 1
    /\ \E s \in Sides, p \in Paths, v \in Content :
        Writable(s) /\ db' = [db EXCEPT ![s][p] = v]
    /\ UNCHANGED <<condition, filter, pc, side, attached, qryVars, status, sigVars, frozen,
                   claims, faults>>

Init ==
    /\ db \in Databases
    /\ condition \in Conditions /\ filter \in Filters
    /\ pc = "begin" /\ side = 1 /\ attached = {} /\ category = 0 /\ left = {}
    /\ found = {} /\ shown = [c \in Categories |-> {}] /\ claims = {}
    /\ status = {"SUCCESS"} /\ flag = FALSE /\ g = {"SUCCESS"}
    /\ frozen = db /\ writes = 0 /\ faults = 0

Program ==
    \/ Begin \/ CheckFile \/ Attach \/ BeginCategory \/ (\E p \in Paths : ReadRow(p))
    \/ EndCategory \/ EndReport \/ Detach \/ Summary

Next == Program \/ StepFails \/ Interrupt \/ WriteElsewhere

Spec == Init /\ [][Next]_vars

\* The thread goes on running.
FairSpec == Spec /\ WF_vars(Program)

-----------------------------------------------------------------------------
(***************************************************************************)
(* Properties.                                                             *)
(***************************************************************************)

TypeOK ==
    /\ db \in [Sides -> [Paths -> Content]] /\ frozen \in [Sides -> [Paths -> Content]]
    /\ condition \in Conditions /\ filter \in Filters
    /\ pc \in {"begin", "check", "attach", "query", "rows", "detach", "summary", "done"}
    /\ side \in Sides /\ attached \subseteq Sides
    /\ category \in 0 .. Len(Order) /\ left \subseteq Paths
    /\ found \subseteq Categories /\ shown \in [Categories -> SUBSET Paths]
    /\ claims \subseteq Categories \cup {"equal"}
    /\ status \subseteq Flags \ {"AWAITING"} /\ flag \in BOOLEAN
    /\ g \in {{"SUCCESS"}, {"HALTED"}}
    /\ writes \in Nat /\ faults \in Nat

\* What a category is about, in terms of the two files and not of the queries.
Difference(c, p) ==
    LET one == frozen[1][p]
        two == frozen[2][p]
    IN  CASE c = "first-source"  -> one # "no row" /\ two = "no row"
          [] c = "second-source" -> one = "no row" /\ two # "no row"
          [] OTHER               -> "no row" \notin {one, two} /\ one # two

\* Both rows have no checksum, and one of them only because its hashing was
\* interrupted: IS NOT takes NULL for equal to NULL.
Unhashed(p) ==
    /\ {frozen[1][p], frozen[2][p]} \subseteq {"partial", "empty"}
    /\ "partial" \in {frozen[1][p], frozen[2][p]}

\* The signal handler's HALTED was overwritten.
Lost == flag /\ g # {"HALTED"}

\* A summary line of db_compare() is true of both files as they were at one moment,
\* although the categories are queried one after the other and other processes
\* write - unless Ctrl+C came and its HALTED was lost.  "Identical checksums" does
\* not hold for rows that were never hashed to the end.
ClaimsAreTrue ==
    \A k \in claims, c \in Categories, p \in Paths \ Hidden :
        k \in {c, "equal"} /\ Difference(c, p) => Lost \/ Unhashed(p)

\* A comparison shows visible differences only, and one that ends with SUCCESS has
\* shown those of every category it was asked for, with two exceptions.  When Ctrl+C
\* came and its HALTED was lost, rows may be unread or nothing compared at all,
\* and the outcome is SUCCESS all the same.  And a difference between rows of which
\* one was never hashed to the end and neither has a digest is not shown.
ReportIsExact ==
    \A c \in Categories :
        /\ shown[c] \subseteq {p \in Paths \ Hidden : Difference(c, p)}
        /\ pc = "done" /\ status = {"SUCCESS"} /\ ~Lost /\ Checks(c) =>
              {p \in Paths \ Hidden : Difference(c, p) /\ ~Unhashed(p)} \subseteq shown[c]

\* db_compare() returns.
CompareEnds == <>(pc = "done")

=============================================================================
