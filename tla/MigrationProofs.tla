-------------------------- MODULE MigrationProofs --------------------------
(***************************************************************************)
(* Proofs about the upgrade of a database, for any set of rows and any     *)
(* number of runs, faults and interrupts.                                  *)
(***************************************************************************)
EXTENDS Migration, ReturnStatusProofs

-----------------------------------------------------------------------------
(***************************************************************************)
(* The invariant.                                                          *)
(***************************************************************************)

Upgrading == pc \in {"begin", "convert", "migrated", "specify"}

\* A migration leads forward, a status is never empty, and no signal handler runs
\* without a process.
Direction ==
    /\ status # {}
    /\ pc = "idle" => ~interrupted
    /\ Upgrading => target \in {1, CURRENT_DB_VERSION} /\ version < target

\* Outside of its transaction the connection sees the durable rows; inside, the
\* rows that were read are converted and the others are not.
Transaction ==
    /\ pc # "convert" => working = durable
    /\ pc = "convert" => ~opts.dry_run
    /\ pc = "convert" /\ status = {"SUCCESS"} =>
          \A r \in Rows :
              working[r] = IF r \in pending THEN durable[r] ELSE Convert(durable[r], target)

\* A migration that is about to be recorded has been committed.
Committed ==
    /\ pc = "specify" \/ (pc = "migrated" /\ ~Has(status, SKIP))
    /\ ~opts.dry_run /\ ~interrupted
    => \A r \in Rows : durable[r].format = target

\* Unless an earlier run tore them apart, rows and version belong together
\* wherever a migration may begin, and in a dry run always.
TogetherUnlessTorn ==
    ~torn =>
        /\ pc \in {"idle", "check", "begin", "convert"} /\ ~interrupted => Together
        /\ opts.dry_run => Together

\* The second migration follows the first one.
InOrder ==
    pc \in {"begin", "convert"} /\ ~opts.dry_run /\ ~interrupted /\ target = 4 => version # 0

\* The inductive invariant, next to TypeOK.
MigrationInv ==
    /\ Direction /\ Transaction /\ Committed /\ TogetherUnlessTorn /\ InOrder
    /\ VersionNeverAhead /\ MetadataSurvivesUnlessTorn /\ SuccessMeansCurrent

-----------------------------------------------------------------------------
(***************************************************************************)
(* Lemmas about the operators.                                             *)
(***************************************************************************)

Statuses == SUBSET {"SUCCESS", "FAILURE", "HALTED", "WARNING"}

\* The statuses that the functions of the upgrade return.
LEMMA StatusFacts ==
    /\ Provide({"SUCCESS"}, Global) = IF halted THEN {"SUCCESS", "HALTED"} ELSE {"SUCCESS"}
    /\ Provide({"WARNING"}, Global) = IF halted THEN {"WARNING", "HALTED"} ELSE {"WARNING"}
    /\ \A s \in Statuses : s # {} => Provide(s, Global) \in Statuses \ {{}}
    /\ \A s \in Statuses :
          LET r == Provide(AfterCall(s, Provide({"SUCCESS"}, Global), Global), Global)
          IN  r \in Statuses \ {{}} /\ (r = {"SUCCESS"} => ~Has(s, SKIP) /\ ~halted)
<1>1. Global \in Globals
  BY DEF Global, Globals
<1>2. /\ Provide({"SUCCESS"}, Global) = IF halted THEN {"SUCCESS", "HALTED"} ELSE {"SUCCESS"}
      /\ Provide({"WARNING"}, Global) = IF halted THEN {"WARNING", "HALTED"} ELSE {"WARNING"}
  BY ProvideOne DEF Global
<1>3. Statuses \subseteq Plain
  BY DEF Statuses, Plain, Flags
<1>4. ASSUME NEW s \in Statuses
      PROVE  Provide(s, Global) \in Statuses /\ (s # {} => Provide(s, Global) # {})
  <2>1. \A x : x \in Provide(s, Global) <=>
           \/ x = "HALTED" /\ Global = {"HALTED"}
           \/ x \in s /\ ~(x = "SUCCESS" /\ Has(s, CRITICAL))
    BY <1>1, <1>3, ProvidePlain
  <2>2. Provide(s, Global) \in Statuses
    BY <2>1 DEF Statuses
  <2>3. s # {} => Provide(s, Global) # {}
    BY <2>1 DEF Has, CRITICAL
  <2> QED
    BY <2>2, <2>3
<1>5. ASSUME NEW s \in Statuses
      PROVE  LET c == AfterCall(s, Provide({"SUCCESS"}, Global), Global)
                 r == Provide(c, Global)
             IN  r \in Statuses \ {{}} /\ (r = {"SUCCESS"} => ~Has(s, SKIP) /\ ~halted)
  <2> DEFINE one == Provide({"SUCCESS"}, Global)
             c == AfterCall(s, one, Global)
             r == Provide(c, Global)
  <2>1. one \in Statuses /\ "SUCCESS" \in one /\ ("HALTED" \in one <=> halted)
    BY <1>2 DEF Statuses
  <2> HIDE DEF one
  <2>2. \A x : x \in c <=>
           \/ x = "HALTED" /\ Global = {"HALTED"}
           \/ x \in s \cup one /\ ~(x = "SUCCESS" /\ Has(s \cup one, CRITICAL))
    BY <1>1, <1>3, <2>1, CallPlain
  <2>3. c \in Statuses /\ c # {} /\ (Has(s, SKIP) => Has(c, SKIP)) /\ (halted => "HALTED" \in c)
    BY <2>1, <2>2 DEF Statuses, Has, SKIP, CRITICAL
  <2> HIDE DEF c
  <2>4. \A x : x \in r <=>
           \/ x = "HALTED" /\ Global = {"HALTED"}
           \/ x \in c /\ ~(x = "SUCCESS" /\ Has(c, CRITICAL))
    BY <1>1, <1>3, <2>3, ProvidePlain
  <2>5. r \in Statuses /\ r # {} /\ (Has(c, SKIP) => Has(r, SKIP)) /\ (halted => "HALTED" \in r)
    BY <2>3, <2>4 DEF Statuses, Has, SKIP, CRITICAL
  <2> HIDE DEF r
  <2>6. r = {"SUCCESS"} => ~Has(s, SKIP) /\ ~halted
    BY <2>3, <2>5 DEF Has, SKIP
  <2> QED
    BY <2>5, <2>6 DEF r, c, one
<1> QED
  BY <1>2, <1>4, <1>5

\* A converted blob has the layout of the target version.
LEMMA ConvertFacts ==
    ASSUME NEW b \in Blob, NEW to \in {1, 4}
    PROVE  /\ Convert(b, to) \in Blob
           /\ Convert(b, to).format = to
           /\ b.kept /\ (b.format = IF to = 1 THEN 0 ELSE 1) => Convert(b, to).kept
BY DEF Convert, Blob

\* Where the layouts change.
LEMMA FormatFacts ==
    ASSUME NEW v \in 0..(CURRENT_DB_VERSION + 1)
    PROVE  /\ FormatOf(v) \in {0, 1, 4}
           /\ v < 1 => FormatOf(v) = 0
           /\ v < 4 => FormatOf(v) \in {0, 1}
           /\ v < 4 /\ v # 0 => FormatOf(v) = 1
           /\ v >= 4 => FormatOf(v) = 4
           /\ FormatOf(1) = 1
BY DEF FormatOf, CURRENT_DB_VERSION

-----------------------------------------------------------------------------
(***************************************************************************)
(* Type correctness.                                                       *)
(***************************************************************************)

\* The initial state is well typed.
LEMMA TypeInit == Init => TypeOK
<1> SUFFICES ASSUME Init PROVE TypeOK
  OBVIOUS
<1>1. durable \in [Rows -> Blob]
  BY DEF Init
<1> QED
  BY <1>1 DEF Init, TypeOK, RunOptions, CURRENT_DB_VERSION

\* Every step preserves the types.
LEMMA TypeNext == TypeOK /\ Direction /\ [Next]_vars => TypeOK'
<1> SUFFICES ASSUME TypeOK, Direction, [Next]_vars PROVE TypeOK'
  OBVIOUS
<1> USE DEF dbVars, signalVars
<1>s. /\ Provide({"SUCCESS"}, Global) \in Statuses /\ Provide({"WARNING"}, Global) \in Statuses
      /\ {"SUCCESS"} \in Statuses /\ {"FAILURE"} \in Statuses /\ {"WARNING"} \in Statuses
  BY StatusFacts DEF Statuses
<1>f. faults + 1 \in Nat /\ runs + 1 \in Nat
  BY DEF TypeOK
<1>t. status \in Statuses
  BY DEF TypeOK, Statuses
<1>1. CASE StartRun
  BY <1>1, <1>f DEF StartRun, TypeOK
<1>2. CASE CheckVersion
  BY <1>2, <1>s, <1>f, <1>t DEF Statuses, CheckVersion, FirstTarget, Fault, TypeOK, CURRENT_DB_VERSION
<1>3. CASE BeginMigration
  BY <1>3, <1>s, <1>f, <1>t DEF Statuses, BeginMigration, Fault, TypeOK
<1>4. ASSUME NEW r \in Rows, ConvertRow(r) PROVE TypeOK'
  <2>1. Convert(working[r], target) \in Blob
    BY <1>4, ConvertFacts DEF ConvertRow, Direction, Upgrading, CURRENT_DB_VERSION, TypeOK
  <2> QED
    BY <1>4, <2>1, <1>s, <1>f, <1>t DEF Statuses, ConvertRow, Fault, TypeOK
<1>5. CASE EndMigration
  <2>1. Provide(status, Global) \in Statuses
    BY <1>t, StatusFacts DEF Direction
  <2>2. status' \in Statuses
    BY <1>5, <1>s, <1>t, <2>1 DEF EndMigration, Fault
  <2> QED
    BY <1>5, <2>2, <1>f, <1>t DEF Statuses, EndMigration, Rollback, Fault, TypeOK
<1>6. CASE MigrationReturns
  <2>1. status' \in Statuses
    BY <1>6, <1>t, StatusFacts DEF MigrationReturns
  <2> QED
    BY <1>6, <2>1 DEF Statuses, MigrationReturns, TypeOK
<1>7. CASE SpecifyVersion
  BY <1>7, <1>s, <1>f, <1>t DEF Statuses, SpecifyVersion, Direction, Upgrading, Fault, TypeOK,
                                CURRENT_DB_VERSION
<1>8. CASE Exit
  BY <1>8, <1>s DEF Statuses, Exit, ProcessEnds, TypeOK, RunOptions
<1>9. CASE Interrupt
  BY <1>9 DEF Interrupt, TypeOK
<1>10. CASE Crash
  BY <1>10, <1>s, <1>f DEF Statuses, Crash, ProcessEnds, Rollback, Fault, TypeOK, RunOptions
<1>11. CASE UNCHANGED vars
  BY <1>11 DEF vars, TypeOK
<1> QED
  BY <1>1, <1>2, <1>3, <1>4, <1>5, <1>6, <1>7, <1>8, <1>9, <1>10, <1>11 DEF Next, Program

-----------------------------------------------------------------------------
(***************************************************************************)
(* The invariant is inductive.                                             *)
(***************************************************************************)

\* A database as a release left it.
LEMMA InvInit == Init => MigrationInv
<1> SUFFICES ASSUME Init PROVE MigrationInv
  OBVIOUS
<1>1. Together
  BY DEF Init, Together
<1>2. VersionNeverAhead
  <2>1. FormatOf(version) \in {0, 1, 4}
    BY FormatFacts DEF Init
  <2> QED
    BY <1>1, <2>1 DEF Together, VersionNeverAhead
<1> QED
  BY <1>1, <1>2 DEF Init, MigrationInv, Direction, Upgrading, Transaction, Committed,
     TogetherUnlessTorn, InOrder, MetadataSurvivesUnlessTorn, MetadataSurvives, SuccessMeansCurrent

\* Steps that change neither the database nor what was recorded about it keep
\* what is said of the durable rows.
LEMMA RowsStay ==
    ASSUME MigrationInv, UNCHANGED <<durable, version, sound>>,
           torn' = torn \/ torn' = (torn \/ ~Together)
    PROVE  VersionNeverAhead' /\ MetadataSurvivesUnlessTorn' /\ (Together' <=> Together)
BY DEF MigrationInv, VersionNeverAhead, MetadataSurvivesUnlessTorn, MetadataSurvives, Together

\* Every step of a run, of the signal handler and of the operating system
\* preserves the invariant.
LEMMA InvNext == TypeOK /\ MigrationInv /\ [Next]_vars => MigrationInv'
<1> SUFFICES ASSUME TypeOK, MigrationInv, [Next]_vars PROVE MigrationInv'
  OBVIOUS
<1> USE DEF dbVars, signalVars
<1>t. status \in Statuses
  BY DEF TypeOK, Statuses
<1>v. version \in 0..(CURRENT_DB_VERSION + 1)
  BY DEF TypeOK
<1>c. ASSUME UNCHANGED <<durable, version, sound>>,
             torn' = torn \/ torn' = (torn \/ ~Together),
             (Direction /\ Transaction /\ Committed /\ TogetherUnlessTorn /\ InOrder
                /\ SuccessMeansCurrent)'
      PROVE  MigrationInv'
  BY <1>c, RowsStay DEF MigrationInv
<1>1. CASE StartRun
  BY <1>1, <1>c, RowsStay DEF StartRun, MigrationInv, Direction, Upgrading, Transaction, Committed,
     TogetherUnlessTorn, InOrder, SuccessMeansCurrent
<1>2. CASE CheckVersion
  <2>1. SuccessMeansCurrent'
    <3>1. pc' = "done" /\ status' = {"SUCCESS"} =>
             ~halted /\ (interrupted \/ version = CURRENT_DB_VERSION)
      BY <1>2, StatusFacts DEF CheckVersion
    <3>2. version = CURRENT_DB_VERSION => \A r \in Rows : durable[r].format = 4
      BY <1>v, FormatFacts DEF MigrationInv, VersionNeverAhead, TypeOK, Blob, CURRENT_DB_VERSION
    <3> QED
      BY <1>2, <3>1, <3>2 DEF CheckVersion, SuccessMeansCurrent, Current
  <2>2. Direction'
    BY <1>2, StatusFacts, <1>v DEF CheckVersion, Direction, Upgrading, FirstTarget, MigrationInv, CURRENT_DB_VERSION
  <2> QED
    BY <1>2, <1>c, <1>v, <2>1, <2>2, RowsStay DEF CheckVersion, MigrationInv, Transaction, Committed,
       TogetherUnlessTorn, InOrder, FirstTarget
<1>3. CASE BeginMigration
  <2>1. Direction'
    BY <1>3, StatusFacts DEF BeginMigration, Direction, Upgrading, MigrationInv
  <2>2. Committed'
    BY <1>3, StatusFacts DEF BeginMigration, Committed, Has, SKIP, TypeOK
  <2> QED
    BY <1>3, <1>c, <2>1, <2>2, RowsStay DEF BeginMigration, MigrationInv, Transaction,
       TogetherUnlessTorn, InOrder, SuccessMeansCurrent
<1>4. ASSUME NEW r \in Rows, ConvertRow(r) PROVE MigrationInv'
  <2>1. Transaction'
    BY <1>4 DEF ConvertRow, MigrationInv, Transaction, TypeOK
  <2> QED
    BY <1>4, <1>c, <2>1, RowsStay DEF ConvertRow, MigrationInv, Direction, Upgrading, Committed,
       TogetherUnlessTorn, InOrder, SuccessMeansCurrent
<1>5. CASE EndMigration
  <2>1. CASE Rollback /\ (interrupted \/ Has(status', SKIP))
    <3>1. status' # {}
      BY <1>5, <1>t, StatusFacts DEF EndMigration, MigrationInv, Direction
    <3>2. Committed'
      BY <1>5, <2>1 DEF EndMigration, Committed
    <3> QED
      BY <1>5, <1>c, <2>1, <3>1, <3>2, RowsStay DEF EndMigration, Rollback, MigrationInv, Direction, Upgrading,
         Transaction, TogetherUnlessTorn, InOrder, SuccessMeansCurrent
  <2>2. CASE ~interrupted /\ status = {"SUCCESS"} /\ durable' = working /\ UNCHANGED <<working, version, status>>
    <3>1. pending = {} /\ target \in {1, 4} /\ version < target /\ ~opts.dry_run
      BY <1>5, <2>2 DEF EndMigration, MigrationInv, Direction, Upgrading, Transaction, CURRENT_DB_VERSION
    <3>2. \A r \in Rows : durable'[r] = Convert(durable[r], target)
      BY <1>5, <2>2, <3>1 DEF EndMigration, MigrationInv, Transaction
    <3>3. \A r \in Rows : durable'[r].format = target
      BY <3>1, <3>2, ConvertFacts DEF TypeOK
    <3>4. VersionNeverAhead'
      BY <2>2, <3>1, <3>3, <1>v, FormatFacts DEF VersionNeverAhead
    <3>5. MetadataSurvivesUnlessTorn'
      <4>1. ~torn => \A r \in Rows : durable[r].format = IF target = 1 THEN 0 ELSE 1
        BY <1>5, <2>2, <3>1, <1>v, FormatFacts DEF EndMigration, MigrationInv, TogetherUnlessTorn,
           Together, InOrder
      <4>2. ~torn => \A r \in sound : durable'[r].kept
        BY <3>1, <3>2, <4>1, ConvertFacts DEF MigrationInv, MetadataSurvivesUnlessTorn,
           MetadataSurvives, TypeOK
      <4> QED
        BY <1>5, <4>2 DEF EndMigration, MetadataSurvivesUnlessTorn, MetadataSurvives
    <3> QED
      BY <1>5, <2>2, <3>1, <3>3, <3>4, <3>5 DEF EndMigration, MigrationInv, Direction, Upgrading, Transaction,
         Committed, TogetherUnlessTorn, InOrder, SuccessMeansCurrent
  <2>3. status # {"SUCCESS"} => Has(status, SKIP)
    BY <1>t DEF Statuses, MigrationInv, Direction, Has, SKIP
  <2>4. Has({"FAILURE"}, SKIP)
    BY DEF Has, SKIP
  <2> QED
    BY <1>5, <2>1, <2>2, <2>3, <2>4 DEF EndMigration
<1>6. CASE MigrationReturns
  <2>1. status' # {} /\ (status' = {"SUCCESS"} => ~Has(status, SKIP) /\ ~halted)
    BY <1>6, <1>t, StatusFacts DEF MigrationReturns
  <2> QED
    BY <1>6, <1>c, <2>1, RowsStay DEF MigrationReturns, MigrationInv, Direction, Upgrading, Transaction,
       Committed, TogetherUnlessTorn, InOrder, SuccessMeansCurrent
<1>7. CASE SpecifyVersion
  <2>1. target \in {1, 4} /\ version < target /\ working = durable /\ pc = "specify"
    BY <1>7 DEF SpecifyVersion, MigrationInv, Direction, Upgrading, Transaction, CURRENT_DB_VERSION
  <2>2. CASE version' = version /\ (interrupted \/ opts.dry_run \/ status' = {"FAILURE"})
    <3>1. Direction'
      BY <1>7, <1>v, <2>1, <2>2, StatusFacts DEF SpecifyVersion, Direction, Upgrading, CURRENT_DB_VERSION
    <3>2. SuccessMeansCurrent'
      BY <1>7, <2>1, <2>2, StatusFacts DEF SpecifyVersion, SuccessMeansCurrent
    <3> QED
      BY <1>7, <1>c, <2>1, <2>2, <3>1, <3>2, RowsStay DEF SpecifyVersion, MigrationInv, Transaction, Committed,
         TogetherUnlessTorn, InOrder
  <2>3. CASE version' = target /\ ~interrupted /\ ~opts.dry_run
    <3>1. \A r \in Rows : durable'[r].format = target
      BY <1>7, <2>1, <2>3 DEF SpecifyVersion, MigrationInv, Committed
    <3>2. FormatOf(target) = target
      BY <2>1 DEF FormatOf
    <3>3. VersionNeverAhead' /\ Together'
      BY <2>1, <2>3, <3>1, <3>2 DEF VersionNeverAhead, Together
    <3>4. Direction'
      BY <1>7, <2>1, <2>3, StatusFacts DEF SpecifyVersion, Direction, Upgrading, CURRENT_DB_VERSION
    <3>5. SuccessMeansCurrent'
      BY <1>7, <2>1, <2>3, <3>1 DEF SpecifyVersion, SuccessMeansCurrent, Current, CURRENT_DB_VERSION
    <3> QED
      BY <1>7, <2>1, <2>3, <3>3, <3>4, <3>5 DEF SpecifyVersion, MigrationInv, Transaction, Committed,
         TogetherUnlessTorn, InOrder, MetadataSurvivesUnlessTorn, MetadataSurvives, CURRENT_DB_VERSION
  <2> QED
    BY <1>7, <2>2, <2>3 DEF SpecifyVersion
<1>8. CASE Exit \/ Crash
  <2>1. ProcessEnds /\ UNCHANGED <<durable, version, sound>> /\ working' = durable
    BY <1>8 DEF Exit, Crash, Rollback, MigrationInv, Transaction
  <2> QED
    BY <1>c, <2>1, RowsStay DEF ProcessEnds, MigrationInv, Direction, Upgrading, Transaction, Committed,
       TogetherUnlessTorn, InOrder, SuccessMeansCurrent
<1>9. CASE Interrupt
  BY <1>9, <1>c, RowsStay DEF Interrupt, MigrationInv, Direction, Upgrading, Transaction, Committed,
     TogetherUnlessTorn, InOrder, SuccessMeansCurrent
<1>10. CASE UNCHANGED vars
  BY <1>10, <1>c, RowsStay DEF vars, MigrationInv, Direction, Upgrading, Transaction, Committed,
     TogetherUnlessTorn, InOrder, SuccessMeansCurrent, Current
<1> QED
  BY <1>1, <1>2, <1>3, <1>4, <1>5, <1>6, <1>7, <1>8, <1>9, <1>10 DEF Next, Program

-----------------------------------------------------------------------------
(***************************************************************************)
(* The theorems.                                                           *)
(***************************************************************************)

\* The invariant and the types hold together in every reachable state.
LEMMA MigrationInvariant == Spec => [](TypeOK /\ MigrationInv)
<1>1. Init => TypeOK /\ MigrationInv
  BY TypeInit, InvInit
<1>2. TypeOK /\ MigrationInv /\ [Next]_vars => (TypeOK /\ MigrationInv)'
  BY TypeNext, InvNext DEF MigrationInv
<1> QED
  BY <1>1, <1>2, PTL DEF Spec

\* Wherever db_upgrade() is interrupted, fails or is killed, over any number of
\* runs: the version in the table metadata never runs ahead of the rows.
THEOREM VersionIsNeverAhead == Spec => []VersionNeverAhead
<1>1. TypeOK /\ MigrationInv => VersionNeverAhead
  BY DEF MigrationInv
<1> QED
  BY <1>1, MigrationInvariant, PTL

\* The metadata of a row is lost only if a run ended between the COMMIT of a
\* migration and the store of its version.
THEOREM MetadataIsKept == Spec => []MetadataSurvivesUnlessTorn
<1>1. TypeOK /\ MigrationInv => MetadataSurvivesUnlessTorn
  BY DEF MigrationInv
<1> QED
  BY <1>1, MigrationInvariant, PTL

\* db_check_version() lets the program go on only with a current database.
THEOREM SuccessIsCurrent == Spec => []SuccessMeansCurrent
<1>1. TypeOK /\ MigrationInv => SuccessMeansCurrent
  BY DEF MigrationInv
<1> QED
  BY <1>1, MigrationInvariant, PTL

=============================================================================
