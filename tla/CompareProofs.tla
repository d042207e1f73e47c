--------------------------- MODULE CompareProofs ---------------------------
(***************************************************************************)
(* Proofs about --compare, for any files, digests, filters, updates by     *)
(* other processes, interrupts and failing calls.                          *)
(***************************************************************************)
EXTENDS Compare, ReturnStatusProofs

-----------------------------------------------------------------------------
(***************************************************************************)
(* The invariants.                                                         *)
(***************************************************************************)

\* A status of db_compare(): clean, or one that makes run() skip what follows.
Settled(s) == s = {"SUCCESS"} \/ Has(s, SKIP)

\* What db_compare() has not begun leaves no trace, and it does not end with SUCCESS
\* when a HALTED was kept.
FlowInv ==
    /\ Settled(status) /\ status \in Plain
    /\ pc = "rows" => ~Has(status, SKIP) /\ category \in 1 .. 3
    /\ pc \in {"begin", "check", "attach"} =>
          category = 0 /\ found = {} /\ shown = [c \in Categories |-> {}]
    /\ pc \in {"detach", "summary"} \/ (pc = "done" /\ ~flag) => category = 3
    /\ pc = "done" /\ status = {"SUCCESS"} => g = {"SUCCESS"}
    /\ pc # "done" => claims = {}
    /\ found = {c \in Categories : shown[c] # {}}

\* With a clean status both files are attached while they are queried: nobody
\* writes to them, and what is read is what they held when the second was attached.
LockInv ==
    /\ pc = "attach" /\ side = 2 /\ status = {"SUCCESS"} => 1 \in attached
    /\ pc \in {"query", "rows"} /\ status = {"SUCCESS"} => attached = Sides /\ db = frozen

\* The visible differences of a category that a query can see.
Visible(c) == {p \in Paths \ Hidden : Difference(c, p)}

Expected(c) == {p \in Visible(c) : ~Unhashed(p)}

\* The rows that have not been read are differences.
LeftInv == pc = "rows" => \A p \in left : p \in Paths /\ Difference(Order[category], p)

\* What was shown are visible differences, and those that have been read were all
\* shown.
ReadInv ==
    /\ \A c \in Categories : shown[c] \subseteq Visible(c)
    /\ LeftInv
    /\ status = {"SUCCESS"} /\ ~Lost =>
          \A i \in 1 .. category :
              Checks(Order[i]) =>
                  Expected(Order[i]) \subseteq
                      shown[Order[i]] \cup (IF pc = "rows" /\ i = category THEN left ELSE {})

\* The inductive invariant.
CompareInv == TypeOK /\ FlowInv /\ LockInv /\ ReadInv /\ ClaimsAreTrue

-----------------------------------------------------------------------------
(***************************************************************************)
(* The statuses.                                                           *)
(***************************************************************************)

\* A settled status is clean or says that something happened, never both.
LEMMA CleanOrNot ==
    /\ ~Has({"SUCCESS"}, SKIP)
    /\ \A s : "FAILURE" \in s \/ "HALTED" \in s \/ "WARNING" \in s => Has(s, SKIP)
  BY DEF Has, SKIP

\* What provide() makes of the outcome of one step.
LEMMA OneOutcome ==
    ASSUME g \in Globals, NEW x \in {"SUCCESS", "FAILURE", "WARNING"}
    PROVE  /\ Provide({x}, g) \in Plain /\ Settled(Provide({x}, g))
           /\ Provide({x}, g) = {"SUCCESS"} <=> x = "SUCCESS" /\ g = {"SUCCESS"}
<1>1. {x} \in Plain
  BY DEF Plain, Flags
<1>2. Provide({x}, g) \in Plain
  BY <1>1, ProvidePlain
<1>3. CASE g = {"SUCCESS"}
  <2>1. Provide({x}, g) = {x}
    BY <1>3, ProvideOne
  <2> QED
    BY <1>2, <1>3, <2>1, CleanOrNot DEF Settled
<1>4. CASE g = {"HALTED"}
  <2>1. Provide({x}, g) = {x, "HALTED"}
    BY <1>4, ProvideOne
  <2> QED
    BY <1>2, <1>4, <2>1, CleanOrNot DEF Settled
<1> QED
  BY <1>3, <1>4 DEF Globals

\* What call() makes of the status after a callee that was successful.
LEMMA CallOutcome ==
    ASSUME g \in Globals, status \in Plain, Settled(status)
    PROVE  LET s == AfterCall(status, Provide({"SUCCESS"}, g), g)
           IN  /\ s \in Plain /\ Settled(s)
               /\ s = {"SUCCESS"} <=> status = {"SUCCESS"} /\ g = {"SUCCESS"}
<1> DEFINE r == Provide({"SUCCESS"}, g)
           s == AfterCall(status, r, g)
<1>1. {"SUCCESS"} \in Plain /\ ~Has({"SUCCESS"}, CRITICAL)
  BY DEF Plain, Flags, Has, CRITICAL
<1>2. r \in Plain /\ \A x : x \in r <=> \/ x = "HALTED" /\ g = {"HALTED"}
                                       \/ x = "SUCCESS"
  BY <1>1, ProvidePlain
<1> HIDE DEF r
<1>3. s \in Plain /\ \A x : x \in s <=>
            \/ x = "HALTED" /\ g = {"HALTED"}
            \/ x \in status \cup r /\ ~(x = "SUCCESS" /\ Has(status \cup r, CRITICAL))
  BY <1>2, CallPlain
<1> HIDE DEF s
<1>4. CASE status = {"SUCCESS"} /\ g = {"SUCCESS"}
  <2>1. \A x : x \in status \cup r <=> x = "SUCCESS"
    BY <1>2, <1>4
  <2>2. ~Has(status \cup r, CRITICAL)
    BY <2>1 DEF Has, CRITICAL
  <2>3. \A x : x \in s <=> x = "SUCCESS"
    BY <1>3, <1>4, <2>1, <2>2
  <2>4. s = {"SUCCESS"}
    BY <2>3
  <2> QED
    BY <1>3, <1>4, <2>4 DEF Settled, s, r
<1>5. CASE g = {"HALTED"}
  <2>1. "HALTED" \in s
    BY <1>3, <1>5
  <2> QED
    BY <1>3, <1>5, <2>1, CleanOrNot DEF Settled, s, r
<1>6. CASE Has(status, SKIP)
  <2>1. Has(s, SKIP)
    BY <1>3, <1>6 DEF Has, SKIP
  <2> QED
    BY <1>3, <1>6, <2>1, CleanOrNot DEF Settled, s, r
<1> QED
  BY <1>4, <1>5, <1>6 DEF Settled, Globals

\* What provide(status) makes of the status at the end.
LEMMA LastOutcome ==
    ASSUME g \in Globals, status \in Plain, Settled(status)
    PROVE  /\ Provide(status, g) \in Plain /\ Settled(Provide(status, g))
           /\ Provide(status, g) = {"SUCCESS"} <=> status = {"SUCCESS"} /\ g = {"SUCCESS"}
<1>1. CASE status = {"SUCCESS"}
  BY <1>1, OneOutcome
<1>2. CASE Has(status, SKIP)
  <2> DEFINE s == Provide(status, g)
  <2>1. s \in Plain /\ \A x : x \in s <=> \/ x = "HALTED" /\ g = {"HALTED"}
                                         \/ /\ x \in status
                                            /\ ~(x = "SUCCESS" /\ Has(status, CRITICAL))
    BY ProvidePlain
  <2>2. Has(s, SKIP)
    BY <1>2, <2>1 DEF Has, SKIP
  <2> QED
    BY <1>2, <2>1, <2>2, CleanOrNot DEF Settled
<1> QED
  BY <1>1, <1>2 DEF Settled

\* The check of a file has one of three outcomes.
LEMMA CheckupType == TypeOK => Checkup \in {"SUCCESS", "WARNING", "FAILURE"}
  BY CompareAssumption DEF TypeOK, Checkup, Condition

\* A failing call always shows.
LEMMA Failing ==
    ASSUME g \in Globals
    PROVE  Provide({"FAILURE"}, g) # {"SUCCESS"}
  BY OneOutcome

-----------------------------------------------------------------------------
(***************************************************************************)
(* Types and the flow of db_compare().                                     *)
(***************************************************************************)

\* The initial states satisfy the invariant.
LEMMA CompareInit == Init => CompareInv
<1> SUFFICES ASSUME Init PROVE CompareInv
  OBVIOUS
<1>1. TypeOK
  <2>1. /\ db \in [Sides -> [Paths -> Content]] /\ frozen \in [Sides -> [Paths -> Content]]
        /\ condition \in Conditions /\ filter \in Filters
    BY CompareAssumption DEF Init
  <2>2. category \in 0 .. Len(Order) /\ side \in Sides /\ status \subseteq Flags \ {"AWAITING"}
    BY DEF Init, Order, Sides, Flags
  <2> QED
    BY <2>1, <2>2 DEF Init, TypeOK
<1>2. {"SUCCESS"} \in Plain
  BY DEF Plain, Flags
<1>3. FlowInv
  BY <1>2 DEF Init, FlowInv, Settled
<1>4. LockInv /\ ReadInv /\ ClaimsAreTrue
  BY DEF Init, LockInv, ReadInv, LeftInv, ClaimsAreTrue
<1> QED
  BY <1>1, <1>3, <1>4 DEF CompareInv

\* Every step keeps the types.
LEMMA TypeNext == TypeOK /\ FlowInv /\ [Next]_vars => TypeOK'
<1> SUFFICES ASSUME TypeOK, FlowInv, [Next]_vars PROVE TypeOK'
  OBVIOUS
<1> USE DEF envVars, sigVars, qryVars
<1>s. Plain \subseteq SUBSET (Flags \ {"AWAITING"})
  BY DEF Plain
<1>g. g \in Globals /\ status \in Plain /\ Settled(status)
  BY DEF TypeOK, Globals, FlowInv
<1>a. Provide({"SUCCESS"}, g) \in Plain /\ Provide({"FAILURE"}, g) \in Plain
  BY <1>g, OneOutcome
<1>c. AfterCall(status, Provide({"SUCCESS"}, g), g) \in Plain
  BY <1>g, CallOutcome
<1>l. Provide(status, g) \in Plain
  BY <1>g, LastOutcome
<1>1. CASE UNCHANGED vars
  BY <1>1 DEF vars, TypeOK
<1>2. CASE Begin
  BY <1>2, <1>s, <1>l DEF Begin, TypeOK
<1>3. CASE CheckFile
  <2>1. Checkup \in {"SUCCESS", "WARNING", "FAILURE"}
    BY CheckupType
  <2>2. Provide({Checkup}, g) \in Plain
    BY <1>g, <2>1, OneOutcome
  <2>3. status' \subseteq Flags \ {"AWAITING"}
    BY <1>3, <1>s, <2>2 DEF CheckFile
  <2>4. side' \in Sides /\ pc' \in {"check", "attach"}
    BY <1>3 DEF CheckFile, Sides
  <2> QED
    BY <1>3, <2>3, <2>4 DEF CheckFile, TypeOK
<1>4. CASE Attach
  <2>1. status' \subseteq Flags \ {"AWAITING"} /\ attached' \subseteq Sides
    BY <1>4, <1>s, <1>a DEF Attach, TypeOK
  <2>2. side' \in Sides /\ pc' \in {"attach", "query"}
    BY <1>4 DEF Attach, Sides
  <2> QED
    BY <1>4, <2>1, <2>2 DEF Attach, TypeOK
<1>5. CASE BeginCategory
  <2>1. category' \in 0 .. Len(Order) /\ left' \subseteq Paths /\ pc' \in {"query", "rows"}
    BY <1>5 DEF BeginCategory, Rows, TypeOK, Order
  <2> QED
    BY <1>5, <2>1 DEF BeginCategory, TypeOK
<1>6. ASSUME NEW p \in Paths, ReadRow(p) PROVE TypeOK'
  <2>1. Order[category] \in Categories
    BY <1>6 DEF ReadRow, FlowInv, Order, Categories
  <2>2. found' \subseteq Categories /\ shown' \in [Categories -> SUBSET Paths]
    BY <1>6, <2>1 DEF ReadRow, TypeOK
  <2> QED
    BY <1>6, <2>2 DEF ReadRow, TypeOK
<1>7. CASE EndCategory
  BY <1>7, <1>s, <1>c DEF EndCategory, TypeOK
<1>8. CASE EndReport
  BY <1>8 DEF EndReport, TypeOK
<1>9. CASE Detach
  <2>1. status' \subseteq Flags \ {"AWAITING"} /\ attached' \subseteq Sides
    BY <1>9, <1>s, <1>c DEF Detach, TypeOK
  <2>2. side' \in Sides /\ pc' \in {"detach", "summary"}
    BY <1>9 DEF Detach, Sides
  <2> QED
    BY <1>9, <2>1, <2>2 DEF Detach, TypeOK
<1>10. CASE Summary
  BY <1>10, <1>s, <1>l DEF Summary, Claims, TypeOK
<1>11. CASE StepFails
  <2>1. status' \subseteq Flags \ {"AWAITING"} /\ faults' \in Nat
    BY <1>11, <1>s, <1>a DEF StepFails, TypeOK
  <2>2. /\ side' \in Sides /\ pc' \in {"attach", "query", "detach", "summary"}
        /\ left' \subseteq Paths /\ frozen' \in [Sides -> [Paths -> Content]]
        /\ attached' \subseteq Sides
    BY <1>11 DEF StepFails, TypeOK, Sides
  <2> QED
    BY <1>11, <2>1, <2>2 DEF StepFails, TypeOK
<1>12. CASE Interrupt
  BY <1>12 DEF Interrupt, TypeOK
<1>13. CASE WriteElsewhere
  <2>1. db' \in [Sides -> [Paths -> Content]] /\ writes' \in Nat
    BY <1>13 DEF WriteElsewhere, TypeOK
  <2> QED
    BY <1>13, <2>1 DEF WriteElsewhere, TypeOK
<1> QED
  BY <1>1, <1>2, <1>3, <1>4, <1>5, <1>6, <1>7, <1>8, <1>9, <1>10, <1>11, <1>12, <1>13
     DEF Next, Program

\* Every step keeps the flow.
LEMMA FlowNext == TypeOK /\ FlowInv /\ [Next]_vars => FlowInv'
<1> SUFFICES ASSUME TypeOK, FlowInv, [Next]_vars PROVE FlowInv'
  OBVIOUS
<1> USE DEF envVars, sigVars, qryVars, FlowInv
<1>g. g \in Globals /\ status \in Plain /\ Settled(status)
  BY DEF TypeOK, Globals
<1>o. \A x \in {"SUCCESS", "FAILURE", "WARNING"} :
          Provide({x}, g) \in Plain /\ Settled(Provide({x}, g))
  BY <1>g, OneOutcome
<1>c. /\ AfterCall(status, Provide({"SUCCESS"}, g), g) \in Plain
      /\ Settled(AfterCall(status, Provide({"SUCCESS"}, g), g))
  BY <1>g, CallOutcome
<1>l. /\ Provide(status, g) \in Plain /\ Settled(Provide(status, g))
      /\ Provide(status, g) = {"SUCCESS"} => g = {"SUCCESS"}
  BY <1>g, LastOutcome
<1>3. Len(Order) = 3
  BY DEF Order
<1>4. CASE UNCHANGED vars
  BY <1>4 DEF vars
<1>5. CASE Begin
  BY <1>5, <1>l DEF Begin
<1>6. CASE CheckFile
  <2>1. Checkup \in {"SUCCESS", "WARNING", "FAILURE"}
    BY CheckupType
  <2> QED
    BY <1>6, <1>o, <2>1 DEF CheckFile
<1>7. CASE Attach
  BY <1>7, <1>g, <1>o DEF Attach
<1>8. CASE BeginCategory
  BY <1>8, <1>3 DEF BeginCategory, TypeOK
<1>9. ASSUME NEW p \in Paths, ReadRow(p) PROVE FlowInv'
  <2>1. Order[category] \in Categories /\ shown \in [Categories -> SUBSET Paths]
    BY <1>9 DEF ReadRow, Order, Categories, TypeOK
  <2>2. found' = {c \in Categories : shown'[c] # {}}
    BY <1>9, <2>1 DEF ReadRow
  <2> QED
    BY <1>9, <2>2 DEF ReadRow
<1>10. CASE EndCategory \/ EndReport \/ Detach
  BY <1>10, <1>3, <1>c DEF EndCategory, EndReport, Detach
<1>11. CASE Summary
  BY <1>11, <1>l DEF Summary
<1>12. CASE StepFails
  BY <1>12, <1>o DEF StepFails
<1>13. CASE Interrupt \/ WriteElsewhere
  BY <1>13 DEF Interrupt, WriteElsewhere
<1> QED
  BY <1>4, <1>5, <1>6, <1>7, <1>8, <1>9, <1>10, <1>11, <1>12, <1>13 DEF Next, Program

-----------------------------------------------------------------------------
(***************************************************************************)
(* What is read is what both files held at one moment.                     *)
(***************************************************************************)

\* Every step keeps the files still while they are queried.
LEMMA LockNext == TypeOK /\ FlowInv /\ LockInv /\ [Next]_vars => LockInv'
<1> SUFFICES ASSUME TypeOK, FlowInv, LockInv, [Next]_vars PROVE LockInv'
  OBVIOUS
<1> USE DEF envVars, sigVars, qryVars, LockInv
<1>g. g \in Globals /\ status \in Plain /\ Settled(status)
  BY DEF TypeOK, Globals, FlowInv
<1>f. Provide({"FAILURE"}, g) # {"SUCCESS"}
  BY <1>g, Failing
<1>c. AfterCall(status, Provide({"SUCCESS"}, g), g) = {"SUCCESS"} => status = {"SUCCESS"}
  BY <1>g, CallOutcome
<1>1. CASE UNCHANGED vars \/ Interrupt
  BY <1>1 DEF vars, Interrupt
<1>2. CASE Begin \/ CheckFile \/ EndReport \/ Detach \/ Summary
  BY <1>2 DEF Begin, CheckFile, EndReport, Detach, Summary
<1>3. CASE Attach
  <2>1. /\ pc = "attach" /\ frozen' = db /\ db' = db /\ side \in {1, 2} /\ attached \subseteq {1, 2}
        /\ status' = {"SUCCESS"} => status = {"SUCCESS"} /\ attached' = attached \cup {side}
        /\ \/ side = 1 /\ side' = 2 /\ pc' = "attach"
           \/ side = 2 /\ side' = 1 /\ pc' = "query"
    BY <1>3 DEF Attach, Sides, TypeOK
  <2>2. CASE side = 1
    BY <2>1, <2>2
  <2>3. CASE side = 2
    BY <2>1, <2>3 DEF Sides
  <2> QED
    BY <2>1, <2>2, <2>3
<1>4. CASE BeginCategory \/ (\E p \in Paths : ReadRow(p))
  BY <1>4 DEF BeginCategory, ReadRow
<1>5. CASE EndCategory
  BY <1>5, <1>c DEF EndCategory
<1>6. CASE StepFails
  BY <1>6, <1>f DEF StepFails
<1>7. CASE WriteElsewhere
  <2>1. attached # Sides
    BY <1>7 DEF WriteElsewhere, Writable
  <2> QED
    BY <1>7, <2>1 DEF WriteElsewhere
<1> QED
  BY <1>1, <1>2, <1>3, <1>4, <1>5, <1>6, <1>7 DEF Next, Program

\* The rows of a query are differences between the files, and the ones that it
\* leaves out were not hashed to the end.
LEMMA RowsAreDifferences ==
    ASSUME TypeOK, db = frozen, NEW c \in Categories, NEW p \in Paths
    PROVE  /\ p \in Rows(c) => Difference(c, p)
           /\ Difference(c, p) /\ ~Unhashed(p) => p \in Rows(c)
<1> DEFINE one == frozen[1][p]
           two == frozen[2][p]
<1>1. /\ one \in {"no row", "partial", "empty"} \cup Digests
      /\ two \in {"no row", "partial", "empty"} \cup Digests
  BY DEF TypeOK, Sides, Content
<1>2. {"no row", "partial", "empty", "NULL"} \cap Digests = {}
  BY CompareAssumption
<1>3. CASE c \in {"first-source", "second-source"}
  BY <1>3 DEF Rows, Difference, Has1, Has2
<1>4. CASE c = "checksum-mismatch"
  <2>1. p \in Rows(c) <=> one # "no row" /\ two # "no row" /\ Sha512(1, p) # Sha512(2, p)
    BY <1>4 DEF Rows, Has1, Has2
  <2>2. Difference(c, p) <=> one # "no row" /\ two # "no row" /\ one # two
    BY <1>4 DEF Difference
  <2>3. one = two => Sha512(1, p) = Sha512(2, p)
    BY DEF Sha512
  <2>4. ASSUME one # "no row", two # "no row", one # two, ~Unhashed(p)
        PROVE  Sha512(1, p) # Sha512(2, p)
    <3>1. one \in Digests \/ two \in Digests
      BY <1>1, <2>4 DEF Unhashed
    <3> QED
      BY <1>2, <2>4, <3>1 DEF Sha512
  <2> QED
    BY <2>1, <2>2, <2>3, <2>4
<1> QED
  BY <1>3, <1>4 DEF Categories

\* Every step keeps what has been read.
LEMMA ReadNext ==
    TypeOK /\ FlowInv /\ LockInv /\ ReadInv /\ [Next]_vars => ReadInv'
<1> SUFFICES ASSUME TypeOK, FlowInv, LockInv, ReadInv, [Next]_vars PROVE ReadInv'
  OBVIOUS
<1> USE DEF envVars, sigVars, qryVars
<1>g. g \in Globals /\ status \in Plain /\ Settled(status)
  BY DEF TypeOK, Globals, FlowInv
<1>c. AfterCall(status, Provide({"SUCCESS"}, g), g) = {"SUCCESS"} => status = {"SUCCESS"} /\ g = {"SUCCESS"}
  BY <1>g, CallOutcome
<1>l. Provide(status, g) = {"SUCCESS"} => status = {"SUCCESS"} /\ g = {"SUCCESS"}
  BY <1>g, LastOutcome
<1>o. \A i \in 1 .. 3 : Order[i] \in Categories
  BY DEF Order, Categories
<1>n. Len(Order) = 3 /\ category \in 0 .. 3
  BY DEF Order, TypeOK
<1>e. \A c : Expected(c) \subseteq Visible(c)
  BY DEF Expected
\* Nothing that the invariant is about moves.
<1>1. ASSUME UNCHANGED <<frozen, shown, category, filter>>,
             pc' # "rows" \/ (pc' = pc /\ left' = left),
             pc = "rows" => pc' = "rows" \/ status' # {"SUCCESS"} \/ Lost' \/ left = {},
             status' = {"SUCCESS"} /\ ~Lost' => status = {"SUCCESS"} /\ ~Lost
      PROVE  ReadInv'
  <2>1. \A c : Visible(c)' = Visible(c) /\ Expected(c)' = Expected(c) /\ Checks(c)' = Checks(c)
    BY <1>1 DEF Visible, Expected, Difference, Unhashed, Checks
  <2>3. \A c \in Categories : shown'[c] \subseteq Visible(c)'
    BY <1>1, <2>1 DEF ReadInv
  <2>4. LeftInv'
    BY <1>1 DEF ReadInv, LeftInv, Difference
  <2>5. ASSUME status' = {"SUCCESS"}, ~Lost', NEW i \in 1 .. category', Checks(Order[i])'
        PROVE  Expected(Order[i])' \subseteq
                   shown'[Order[i]] \cup (IF pc' = "rows" /\ i = category' THEN left' ELSE {})
    <3>1. Expected(Order[i]) \subseteq
              shown[Order[i]] \cup (IF pc = "rows" /\ i = category THEN left ELSE {})
      BY <1>1, <2>1, <2>5 DEF ReadInv
    <3>2. (IF pc = "rows" /\ i = category THEN left ELSE {})
              \subseteq (IF pc' = "rows" /\ i = category' THEN left' ELSE {})
      BY <1>1, <2>5
    <3> QED
      BY <1>1, <2>1, <3>1, <3>2
  <2> QED
    BY <2>3, <2>4, <2>5 DEF ReadInv
\* Nothing has been read so far.
<1>2. ASSUME pc \in {"begin", "check", "attach"}, pc' # "rows", UNCHANGED <<category, shown>>
      PROVE  ReadInv'
  <2>1. category = 0 /\ shown = [c \in Categories |-> {}]
    BY <1>2 DEF FlowInv
  <2> QED
    BY <1>2, <2>1 DEF ReadInv, LeftInv
<1>3. CASE UNCHANGED vars
  BY <1>1, <1>3 DEF vars, Lost
<1>4. CASE Begin \/ CheckFile \/ Attach
  BY <1>2, <1>4 DEF Begin, CheckFile, Attach
<1>5. CASE BeginCategory
  <2> DEFINE k == category + 1
  <2>1. /\ category' = k /\ k \in 1 .. 3 /\ pc = "query"
        /\ UNCHANGED <<frozen, shown, filter, status, flag, g>>
    BY <1>5, <1>n DEF BeginCategory
  <2>2. \A c : Visible(c)' = Visible(c) /\ Expected(c)' = Expected(c) /\ Checks(c)' = Checks(c)
    BY <2>1 DEF Visible, Expected, Difference, Unhashed, Checks
  <2>4. \/ pc' = "rows" /\ left' = Rows(Order[k]) /\ status = {"SUCCESS"} /\ db = frozen
        \/ pc' = "query" /\ (~Checks(Order[k]) \/ status # {"SUCCESS"})
    <3>1. Has(status, SKIP) => status # {"SUCCESS"}
      BY CleanOrNot
    <3> QED
      BY <1>5, <1>g, <2>1, <3>1 DEF BeginCategory, LockInv, Settled
  <2>5. LeftInv'
    <3>1. ASSUME pc' = "rows", NEW p \in left' PROVE p \in Paths /\ Difference(Order[k], p)
      BY <1>o, <2>1, <2>4, <3>1, RowsAreDifferences DEF Rows
    <3> QED
      BY <2>1, <3>1 DEF LeftInv, Difference
  <2>6. ASSUME status' = {"SUCCESS"}, ~Lost', NEW i \in 1 .. category', Checks(Order[i])'
        PROVE  Expected(Order[i])' \subseteq
                   shown'[Order[i]] \cup (IF pc' = "rows" /\ i = category' THEN left' ELSE {})
    <3>1. CASE i = k
      <4>1. pc' = "rows" /\ left' = Rows(Order[k]) /\ db = frozen
        BY <2>1, <2>2, <2>4, <2>6, <3>1
      <4>2. Expected(Order[k]) \subseteq Rows(Order[k])
        BY <1>o, <2>1, <4>1, RowsAreDifferences DEF Expected, Visible
      <4> QED
        BY <2>1, <2>2, <3>1, <4>1, <4>2
    <3>2. CASE i # k
      <4>1. i \in 1 .. category /\ ~Lost
        BY <1>n, <2>1, <2>6, <3>2 DEF Lost
      <4>2. Expected(Order[i]) \subseteq shown[Order[i]]
        BY <2>1, <2>2, <2>6, <4>1 DEF ReadInv
      <4> QED
        BY <2>1, <2>2, <4>2
    <3> QED
      BY <3>1, <3>2
  <2>7. \A c \in Categories : shown'[c] \subseteq Visible(c)'
    BY <2>1, <2>2 DEF ReadInv
  <2> QED
    BY <2>5, <2>6, <2>7 DEF ReadInv
<1>6. ASSUME NEW q \in Paths, ReadRow(q) PROVE ReadInv'
  <2> DEFINE c0 == Order[category]
  <2>1. /\ pc = "rows" /\ pc' = pc /\ q \in left /\ left' = left \ {q} /\ category \in 1 .. 3
        /\ UNCHANGED <<frozen, category, filter, status, flag, g>>
        /\ c0 \in Categories
    BY <1>6, <1>o DEF ReadRow, FlowInv
  <2>2. \A c : Visible(c)' = Visible(c) /\ Expected(c)' = Expected(c) /\ Checks(c)' = Checks(c)
    BY <2>1 DEF Visible, Expected, Difference, Unhashed, Checks
  <2>4. /\ \A c \in Categories : c # c0 => shown'[c] = shown[c]
        /\ shown'[c0] = shown[c0] \cup ({q} \ Hidden)
    BY <1>6, <2>1 DEF ReadRow, TypeOK
  <2>5. q \notin Hidden => q \in Visible(c0)
    BY <2>1 DEF ReadInv, LeftInv, Visible
  <2>6. \A c \in Categories : shown'[c] \subseteq Visible(c)'
    BY <2>2, <2>4, <2>5 DEF ReadInv
  <2>7. LeftInv'
    BY <2>1 DEF ReadInv, LeftInv, Difference
  <2>8. ASSUME status' = {"SUCCESS"}, ~Lost', NEW i \in 1 .. category', Checks(Order[i])'
        PROVE  Expected(Order[i])' \subseteq
                   shown'[Order[i]] \cup (IF pc' = "rows" /\ i = category' THEN left' ELSE {})
    <3>1. Expected(Order[i]) \subseteq
              shown[Order[i]] \cup (IF pc = "rows" /\ i = category THEN left ELSE {})
      BY <2>1, <2>2, <2>8 DEF ReadInv, Lost
    <3>2. q \in Expected(Order[i]) => q \notin Hidden
      BY DEF Expected, Visible
    <3>3. Order[i] \in Categories
      BY <1>o, <1>n, <2>1, <2>8
    <3>4. CASE i = category
      BY <2>1, <2>2, <2>4, <3>1, <3>2, <3>4
    <3>5. CASE i # category
      <4>1. shown[Order[i]] \subseteq shown'[Order[i]]
        BY <2>4, <3>3
      <4> QED
        BY <2>1, <2>2, <3>1, <3>5, <4>1
    <3> QED
      BY <3>4, <3>5
  <2> QED
    BY <2>6, <2>7, <2>8 DEF ReadInv
<1>7. CASE EndCategory
  <2>1. status' = {"SUCCESS"} /\ ~Lost' => status = {"SUCCESS"} /\ ~Lost /\ left = {}
    BY <1>7, <1>c DEF EndCategory, Lost
  <2> QED
    BY <1>1, <1>7, <2>1 DEF EndCategory
<1>8. CASE EndReport \/ Detach
  BY <1>1, <1>8, <1>c DEF EndReport, Detach, Lost
<1>9. CASE Summary
  BY <1>1, <1>9, <1>l DEF Summary, Lost
<1>10. CASE StepFails
  <2>1. status' # {"SUCCESS"}
    BY <1>10, <1>g, Failing DEF StepFails
  <2>2. CASE pc \in {"check", "attach"}
    BY <1>2, <1>10, <2>2 DEF StepFails
  <2>3. CASE pc \in {"rows", "detach"}
    BY <1>1, <1>10, <2>1, <2>3 DEF StepFails
  <2> QED
    BY <1>10, <2>2, <2>3 DEF StepFails
<1>11. CASE Interrupt
  BY <1>1, <1>11 DEF Interrupt, Lost
<1>12. CASE WriteElsewhere
  BY <1>1, <1>12 DEF WriteElsewhere, Lost
<1> QED
  BY <1>3, <1>4, <1>5, <1>6, <1>7, <1>8, <1>9, <1>10, <1>11, <1>12 DEF Next, Program

\* Every step keeps the claims true.
LEMMA ClaimsNext ==
    TypeOK /\ FlowInv /\ ReadInv /\ ClaimsAreTrue /\ [Next]_vars => ClaimsAreTrue'
<1> SUFFICES ASSUME TypeOK, FlowInv, ReadInv, ClaimsAreTrue, [Next]_vars PROVE ClaimsAreTrue'
  OBVIOUS
<1>1. CASE Summary
  <2>1. UNCHANGED <<frozen, flag, g, filter>> /\ claims' = Claims /\ category = 3 /\ pc = "summary"
    BY <1>1 DEF Summary, envVars, sigVars, FlowInv
  <2>2. ASSUME NEW k \in Claims, NEW c \in Categories, NEW p \in Paths \ Hidden, k \in {c, "equal"},
               Difference(c, p), ~Lost, ~Unhashed(p)
        PROVE  FALSE
    <3>1. status = {"SUCCESS"}
      BY <2>2 DEF Claims
    <3>2. Checks(c) /\ c \notin found
      BY <2>2, <3>1 DEF Claims, FullScope, Categories
    <3>3. PICK i \in 1 .. 3 : Order[i] = c
      BY DEF Order, Categories
    <3>4. Expected(c) \subseteq shown[c]
      BY <2>1, <2>2, <3>1, <3>2, <3>3 DEF ReadInv
    <3>5. p \in shown[c]
      BY <2>2, <3>4 DEF Expected, Visible
    <3> QED
      BY <3>2, <3>5 DEF FlowInv
  <2>3. Lost' = Lost /\ \A p : Unhashed(p)' = Unhashed(p)
    BY <2>1 DEF Lost, Unhashed
  <2>4. \A c, p : Difference(c, p)' = Difference(c, p)
    BY <2>1 DEF Difference
  <2> QED
    BY <2>1, <2>2, <2>3, <2>4 DEF ClaimsAreTrue
<1>2. CASE ~Summary /\ ~UNCHANGED vars
  <2>1. claims' = claims /\ pc # "done"
    BY <1>2 DEF Next, Program, Begin, CheckFile, Attach, BeginCategory, ReadRow, EndCategory,
       EndReport, Detach, StepFails, Interrupt, WriteElsewhere, envVars, sigVars, qryVars
  <2> QED
    BY <2>1 DEF FlowInv, ClaimsAreTrue
<1>3. CASE UNCHANGED vars
  <2>1. UNCHANGED <<frozen, flag, g, claims>>
    BY <1>3 DEF vars
  <2>2. Lost' = Lost /\ \A p : Unhashed(p)' = Unhashed(p)
    BY <2>1 DEF Lost, Unhashed
  <2>3. \A c, p : Difference(c, p)' = Difference(c, p)
    BY <2>1 DEF Difference
  <2> QED
    BY <2>1, <2>2, <2>3 DEF ClaimsAreTrue
<1> QED
  BY <1>1, <1>2, <1>3

-----------------------------------------------------------------------------
(***************************************************************************)
(* The theorems.                                                           *)
(***************************************************************************)

\* The invariant holds in every state of a comparison.
LEMMA CompareAlways == Spec => []CompareInv
<1>1. CompareInv /\ [Next]_vars => CompareInv'
  BY TypeNext, FlowNext, LockNext, ReadNext, ClaimsNext DEF CompareInv
<1> QED
  BY CompareInit, <1>1, PTL DEF Spec

\* What db_compare() says in its summary is true of both files as they were at one
\* moment, unless a signal whose HALTED was lost cut the queries short.
THEOREM ClaimsStayTrue == Spec => []ClaimsAreTrue
<1>1. CompareInv => ClaimsAreTrue
  BY DEF CompareInv
<1> QED
  BY <1>1, CompareAlways, PTL

\* db_compare() reports differences only, and with SUCCESS all of those that it was
\* asked for, except after a Ctrl+C whose HALTED was lost, and except for pairs of
\* rows without a digest of which one was not hashed to the end.
THEOREM ReportStaysExact == Spec => []ReportIsExact
<1>1. CompareInv => ReportIsExact
  <2>1. SUFFICES ASSUME CompareInv, NEW c \in Categories
                 PROVE  /\ shown[c] \subseteq Visible(c)
                        /\ pc = "done" /\ status = {"SUCCESS"} /\ ~Lost /\ Checks(c) =>
                              Expected(c) \subseteq shown[c]
    BY DEF ReportIsExact, Visible, Expected
  <2>2. shown[c] \subseteq Visible(c)
    BY <2>1 DEF CompareInv, ReadInv
  <2>3. ASSUME pc = "done", status = {"SUCCESS"}, ~Lost, Checks(c)
        PROVE  Expected(c) \subseteq shown[c]
    <3>1. category = 3
      BY <2>1, <2>3 DEF CompareInv, FlowInv, Lost
    <3>2. PICK i \in 1 .. 3 : Order[i] = c
      BY DEF Order, Categories
    <3> QED
      BY <2>1, <2>3, <3>1, <3>2 DEF CompareInv, ReadInv
  <2> QED
    BY <2>2, <2>3
<1> QED
  BY <1>1, CompareAlways, PTL

=============================================================================
