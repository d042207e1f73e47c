--------------------------- MODULE CleanupProofs ---------------------------
(***************************************************************************)
(* Proofs about the removal of the rows of missing files, for any set of   *)
(* files, rows and command lines and any number of edits and faults.       *)
(***************************************************************************)
EXTENDS Cleanup, ReturnStatusProofs

-----------------------------------------------------------------------------
(***************************************************************************)
(* The checks that protect a row.                                          *)
(***************************************************************************)

Statuses == SUBSET {"SUCCESS", "FAILURE", "HALTED", "WARNING"}

\* The status after a call that went well, and after one that did not.
Ok  == IF halted THEN {"SUCCESS", "HALTED"} ELSE {"SUCCESS"}
Bad == IF halted THEN {"FAILURE", "HALTED"} ELSE {"FAILURE"}

\* What provide() makes of the outcomes of the helpers.
LEMMA StatusFacts ==
    /\ Global \in Globals /\ (Global = {"HALTED"} <=> halted)
    /\ Provide({"SUCCESS"}, Global) = Ok /\ Provide({"FAILURE"}, Global) = Bad
    /\ Ok \in Plain /\ Bad \in Plain /\ {"SUCCESS"} \in Plain /\ {"FAILURE"} \in Plain
    /\ "FAILURE" \notin Ok /\ "FAILURE" \in Bad /\ (Ok = {"SUCCESS"} <=> ~halted)
    /\ ~Has(Ok, CRITICAL) /\ Has(Bad, CRITICAL) /\ Has(Ok, TRIUMPH) /\ (Has(Bad, TRIUMPH) => halted)
    /\ Bad # {"SUCCESS"} /\ Ok # Bad
    /\ Ok \in Statuses /\ Bad \in Statuses
<1>1. Global \in Globals /\ (Global = {"HALTED"} <=> halted)
  BY DEF Global, Globals
<1>2. Provide({"SUCCESS"}, Global) = Ok /\ Provide({"FAILURE"}, Global) = Bad
  BY ProvideOne DEF Global, Ok, Bad
<1>3. Ok \in Plain /\ Bad \in Plain /\ {"SUCCESS"} \in Plain /\ {"FAILURE"} \in Plain
  BY DEF Plain, Flags, Ok, Bad
<1>4. "FAILURE" \notin Ok /\ "FAILURE" \in Bad /\ (Ok = {"SUCCESS"} <=> ~halted)
  BY DEF Ok, Bad
<1>5. ~Has(Ok, CRITICAL) /\ Has(Bad, CRITICAL) /\ Has(Ok, TRIUMPH) /\ (Has(Bad, TRIUMPH) => halted)
  BY DEF Ok, Bad, Has, CRITICAL, TRIUMPH
<1> QED
  BY <1>1, <1>2, <1>3, <1>4, <1>5 DEF Statuses, Ok, Bad

\* The answer that a helper gives, and what the caller makes of it.
LEMMA AskFacts ==
    ASSUME NEW d \in {"YES", "NO"}
    PROVE  /\ \A a \in {{"SUCCESS"}, Ok} :
                 /\ Answer(Provide(a \cup {d}, Global), Global) <=> d = "YES"
                 /\ AfterAsk({"SUCCESS"}, Provide(a \cup {d}, Global), Global) = Ok
           /\ \A a \in {{"FAILURE"}, Bad} :
                 /\ ~Answer(Provide(a \cup {d}, Global), Global)
                 /\ AfterAsk({"SUCCESS"}, Provide(a \cup {d}, Global), Global) = Bad
<1>1. d \in DECISION
  BY DEF DECISION
<1>2. ~Has({"SUCCESS"}, CRITICAL) /\ Has({"FAILURE"}, CRITICAL)
  BY DEF Has, CRITICAL
<1>3. ASSUME NEW a \in {{"SUCCESS"}, Ok}
      PROVE  /\ Answer(Provide(a \cup {d}, Global), Global) <=> d = "YES"
             /\ AfterAsk({"SUCCESS"}, Provide(a \cup {d}, Global), Global) = Ok
  <2>1. a \in Plain /\ ~Has(a, CRITICAL)
    BY <1>2, StatusFacts
  <2>2. Answer(Provide(a \cup {d}, Global), Global) <=> d = "YES"
    BY <1>1, <2>1, StatusFacts, AskPlain
  <2>3. \A x : x \in AfterAsk({"SUCCESS"}, Provide(a \cup {d}, Global), Global) <=>
                 \/ x = "HALTED" /\ halted
                 \/ x \in {"SUCCESS"} \cup a
    BY <1>1, <1>2, <2>1, StatusFacts, AskPlain
  <2> QED
    BY <2>2, <2>3 DEF Ok
<1>4. ASSUME NEW a \in {{"FAILURE"}, Bad}
      PROVE  /\ ~Answer(Provide(a \cup {d}, Global), Global)
             /\ AfterAsk({"SUCCESS"}, Provide(a \cup {d}, Global), Global) = Bad
  <2>1. a \in Plain /\ Has(a, CRITICAL)
    BY <1>2, StatusFacts
  <2>2. ~Answer(Provide(a \cup {d}, Global), Global)
    BY <1>1, <2>1, StatusFacts, AskPlain
  <2>3. \A x : x \in AfterAsk({"SUCCESS"}, Provide(a \cup {d}, Global), Global) <=>
                 \/ x = "HALTED" /\ halted
                 \/ x \in {"SUCCESS"} \cup a /\ x # "SUCCESS"
    BY <1>1, <2>1, StatusFacts, AskPlain
  <2> QED
    BY <2>2, <2>3 DEF Bad
<1> QED
  BY <1>3, <1>4

\* path_check_locked_checksum() and db_check_locked_unavailable_violation(): yes
\* for a locked path, unless the check fails, which the caller's status tells.
LEMMA LockCheckFacts ==
    ASSUME NEW f, NEW fails \in BOOLEAN,
           NEW r \in {PathCheckLocked(f, fails), LockedUnavailableViolation(f, fails)}
    PROVE  /\ Answer(r, Global) <=> f \in opts.locked /\ ~fails
           /\ AfterAsk({"SUCCESS"}, r, Global) = IF fails THEN Bad ELSE Ok
<1> DEFINE one == PathCheckLocked(f, fails)
           two == LockedUnavailableViolation(f, fails)
<1>1. ASSUME fails
      PROVE  /\ ~Answer(one, Global) /\ AfterAsk({"SUCCESS"}, one, Global) = Bad
             /\ ~Answer(two, Global) /\ AfterAsk({"SUCCESS"}, two, Global) = Bad
  <2>1. one = Provide({"FAILURE"} \cup {"NO"}, Global)
    <3>1. {"FAILURE", "NO"} = {"FAILURE"} \cup {"NO"}
      OBVIOUS
    <3> QED
      BY <1>1, <3>1 DEF PathCheckLocked
  <2>2. ~Answer(one, Global) /\ AfterAsk({"SUCCESS"}, one, Global) = Bad
    BY <2>1, AskFacts
  <2>3. two = Provide(Bad \cup {"NO"}, Global)
    BY <2>2 DEF LockedUnavailableViolation
  <2> QED
    BY <2>2, <2>3, AskFacts
<1>2. ASSUME ~fails
      PROVE  /\ Answer(one, Global) <=> f \in opts.locked
             /\ AfterAsk({"SUCCESS"}, one, Global) = Ok
             /\ Answer(two, Global) <=> f \in opts.locked
             /\ AfterAsk({"SUCCESS"}, two, Global) = Ok
  <2> DEFINE d == IF f \in opts.locked THEN "YES" ELSE "NO"
  <2>0. d \in {"YES", "NO"} /\ (d = "YES" <=> f \in opts.locked)
    OBVIOUS
  <2>1. one = Provide({"SUCCESS"} \cup {d}, Global)
    <3>1. {"SUCCESS", d} = {"SUCCESS"} \cup {d}
      OBVIOUS
    <3> QED
      BY <1>2, <3>1 DEF PathCheckLocked
  <2> HIDE DEF d
  <2>2. (Answer(one, Global) <=> f \in opts.locked) /\ AfterAsk({"SUCCESS"}, one, Global) = Ok
    BY <2>0, <2>1, AskFacts
  <2>3. two = Provide(Ok \cup {d}, Global)
    BY <2>2, StatusFacts DEF LockedUnavailableViolation, d
  <2> QED
    BY <2>0, <2>2, <2>3, AskFacts
<1> QED
  BY <1>1, <1>2

\* db_preserve_locked_ignored_record() keeps a locked row, or fails.
LEMMA PreserveFacts ==
    ASSUME NEW f, NEW acc, NEW bad \in 0..2
    PROVE  LET p     == Preserve(f, acc, bad)
               keep  == Answer(p.result, Global)
               after == AfterAsk({"SUCCESS"}, p.result, Global)
           IN  /\ after \in {Ok, Bad}
               /\ after = {"SUCCESS"} => (keep <=> f \in opts.locked)
               /\ bad = 0 => /\ after = Ok
                             /\ ~halted => (p.reported <=> f \in opts.locked /\ acc # "ALLOWED")
<1> DEFINE p      == Preserve(f, acc, bad)
           first  == PathCheckLocked(f, bad = 1)
           t      == AfterAsk({"SUCCESS"}, first, Global)
           probes == Answer(first, Global) /\ t = {"SUCCESS"} /\ acc # "ALLOWED"
           second == LockedUnavailableViolation(f, bad = 2)
           final  == IF probes THEN AfterAsk(t, second, Global) ELSE t
           keeps  == Answer(first, Global) /\ Has(final, TRIUMPH)
           d      == IF keeps THEN "YES" ELSE "NO"
<1>1. p.reported = (probes /\ Answer(second, Global)) /\ p.result = Provide(final \cup {d}, Global)
  BY DEF Preserve
<1>2. (Answer(first, Global) <=> f \in opts.locked /\ bad # 1) /\ t = IF bad = 1 THEN Bad ELSE Ok
  BY LockCheckFacts
<1>3. (Answer(second, Global) <=> f \in opts.locked /\ bad # 2)
      /\ AfterAsk({"SUCCESS"}, second, Global) = IF bad = 2 THEN Bad ELSE Ok
  BY LockCheckFacts
<1> HIDE DEF first, t, second, p
<1>4. probes <=> f \in opts.locked /\ bad # 1 /\ ~halted /\ acc # "ALLOWED"
  BY <1>2, StatusFacts
<1>5. final = IF bad = 1 \/ (probes /\ bad = 2) THEN Bad ELSE Ok
  BY <1>2, <1>3
<1>6. final = Ok => (keeps <=> f \in opts.locked)
  BY <1>2, <1>5, StatusFacts
<1>7. d \in {"YES", "NO"} /\ (d = "YES" <=> keeps) /\ final \in {Ok, Bad}
  BY <1>5
<1> HIDE DEF probes, final, keeps, d
<1>8. (final = Ok => (Answer(p.result, Global) <=> keeps))
      /\ AfterAsk({"SUCCESS"}, p.result, Global) = final
  BY <1>1, <1>7, AskFacts
<1>9. p.reported <=> probes /\ Answer(second, Global)
  BY <1>1
<1>10. bad = 0 /\ ~halted => (p.reported <=> f \in opts.locked /\ acc # "ALLOWED")
  BY <1>3, <1>4, <1>9
<1>11. bad = 0 => final = Ok
  BY <1>5
<1>12. final = {"SUCCESS"} => (Answer(p.result, Global) <=> f \in opts.locked)
  BY <1>6, <1>7, <1>8, StatusFacts
<1> QED
  BY <1>7, <1>8, <1>10, <1>11, <1>12 DEF p

\* The judgement about the row in hand.  A failing check is a fault; a locked row
\* is never judged to go; and without a disturbance the row goes exactly when it
\* should, and a locked row without its file is noticed.
LEMMA JudgeFacts ==
    ASSUME TypeOK, Judge, status = {"SUCCESS"}, cur \in Files
    PROVE  /\ pc = "judge" /\ pc' \in {"fetch", "delete"}
           /\ status' \in {Ok, Bad} \cup {{"SUCCESS"}}
           /\ violation' \in BOOLEAN
           /\ UNCHANGED <<calm, faults>> \/ Fault
           /\ UNCHANGED <<calm, faults>> => "FAILURE" \notin status'
           /\ pc' = "delete" =>
                 /\ status' = {"SUCCESS"} /\ cur \notin opts.locked
                 /\ \/ cur \in opts.ignored /\ opts.drop_ignored
                    \/ access[FirstRoot][cur] \in Unavailable /\ Drops(access[FirstRoot][cur])
           /\ UNCHANGED <<calm, faults>> /\ ~halted =>
                 /\ status' = {"SUCCESS"}
                 /\ pc' = "delete" <=> ~Kept(cur)
                 /\ violation' <=> \/ violation
                                   \/ cur \in opts.locked /\ access[FirstRoot][cur] # "ALLOWED"
<1>1. PICK bad \in 0..2 : /\ LockChecks(bad)
                          /\ KeepIgnored(bad) \/ DropIgnored(bad) \/ Probe(bad)
  BY DEF Judge
<1>2. pc = "judge" /\ UNCHANGED <<access, opts, halted, cur>>
  BY DEF Judge, envVars, baseVars, signalVars
<1>3. (UNCHANGED <<calm, faults>> \/ Fault) /\ (UNCHANGED <<calm, faults>> => bad = 0)
  BY <1>1 DEF LockChecks, NoFault, Fault, TypeOK
<1>4. access[FirstRoot][cur] \in Access /\ violation \in BOOLEAN
  BY CleanupAssumption DEF TypeOK
<1> DEFINE one(k) == PathCheckLocked(cur, bad = k)
           two(k) == LockedUnavailableViolation(cur, bad = k)
<1>5. \A k \in 1..2 :
        /\ Answer(one(k), Global) <=> cur \in opts.locked /\ bad # k
        /\ AfterAsk({"SUCCESS"}, one(k), Global) = IF bad = k THEN Bad ELSE Ok
        /\ Answer(two(k), Global) <=> cur \in opts.locked /\ bad # k
        /\ AfterAsk({"SUCCESS"}, two(k), Global) = IF bad = k THEN Bad ELSE Ok
  BY LockCheckFacts
<1>6. CASE KeepIgnored(bad)
  <2> DEFINE t     == AfterAsk({"SUCCESS"}, one(1), Global)
             asked == Answer(one(1), Global) /\ access[FirstRoot][cur] # "ALLOWED" /\ Asks(t)
  <2>1. /\ cur \in opts.ignored /\ ~opts.drop_ignored /\ pc' = "fetch"
        /\ status' = IF asked THEN AfterAsk(t, two(2), Global) ELSE t
        /\ violation' = (violation \/ (asked /\ Answer(two(2), Global)))
    BY <1>6 DEF KeepIgnored
  <2>2. Asks(t) <=> t = {"SUCCESS"}
    BY <1>5 DEF Asks, Has, SKIP, Ok, Bad
  <2>3. t = IF bad = 1 THEN Bad ELSE Ok
    BY <1>5
  <2>4. asked => t = {"SUCCESS"}
    BY <2>2
  <2>5. asked <=> cur \in opts.locked /\ bad # 1 /\ access[FirstRoot][cur] # "ALLOWED" /\ ~halted
    BY <1>5, <2>2, <2>3, StatusFacts
  <2> HIDE DEF t, asked
  <2>6. status' \in {Ok, Bad} /\ (bad = 0 => status' = Ok)
    BY <1>5, <2>1, <2>3, <2>4
  <2>7. bad = 0 /\ ~halted => (violation' <=> violation \/ (cur \in opts.locked /\ access[FirstRoot][cur] # "ALLOWED"))
    <3>1. violation' <=> violation \/ (asked /\ Answer(two(2), Global))
      BY <2>1
    <3> QED
      BY <1>5, <2>5, <3>1
  <2>8. Kept(cur)
    BY <2>1 DEF Kept
  <2> QED
    BY <1>2, <1>3, <1>4, <2>1, <2>6, <2>7, <2>8, StatusFacts
<1>7. CASE DropIgnored(bad)
  <2> DEFINE p     == Preserve(cur, access[FirstRoot][cur], bad)
             keep  == Answer(p.result, Global)
             after == AfterAsk({"SUCCESS"}, p.result, Global)
  <2>1. /\ cur \in opts.ignored /\ opts.drop_ignored
        /\ status' = after
        /\ violation' = (violation \/ (keep /\ p.reported))
        /\ pc' = IF keep \/ status' # {"SUCCESS"} THEN "fetch" ELSE "delete"
    BY <1>7 DEF DropIgnored
  <2>2. /\ after \in {Ok, Bad}
        /\ after = {"SUCCESS"} => (keep <=> cur \in opts.locked)
        /\ bad = 0 => /\ after = Ok
                      /\ ~halted => (p.reported <=> cur \in opts.locked /\ access[FirstRoot][cur] # "ALLOWED")
    BY PreserveFacts
  <2>3. Kept(cur) <=> cur \in opts.locked
    BY <2>1 DEF Kept
  <2> HIDE DEF p, keep, after
  <2> QED
    BY <1>2, <1>3, <1>4, <2>1, <2>2, <2>3, StatusFacts
<1>8. CASE Probe(bad)
  <2> DEFINE acc == access[FirstRoot][cur]
  <2>1. CASE acc = "ALLOWED"
    <3>1. pc' = "fetch" /\ UNCHANGED <<status, violation>> /\ cur \notin opts.ignored
      BY <1>8, <2>1 DEF Probe
    <3>2. Kept(cur)
      BY <2>1, <3>1 DEF Kept
    <3> QED
      BY <1>2, <1>3, <1>4, <2>1, <3>1, <3>2
  <2>2. CASE acc # "ALLOWED"
    <3>1. /\ cur \notin opts.ignored
          /\ status' = AfterAsk({"SUCCESS"}, two(1), Global)
          /\ violation' = (violation \/ Answer(two(1), Global))
          /\ pc' = IF ~Answer(two(1), Global) /\ status' = {"SUCCESS"} /\ Drops(acc)
                   THEN "delete" ELSE "fetch"
      BY <1>8, <2>2 DEF Probe
    <3>2. Kept(cur) <=> cur \in opts.locked \/ ~Drops(acc)
      BY <2>2, <3>1 DEF Kept, Drops
    <3>3. (Answer(two(1), Global) <=> cur \in opts.locked /\ bad # 1)
          /\ status' = IF bad = 1 THEN Bad ELSE Ok
      BY <1>5, <3>1
    <3>4. acc \in Unavailable
      BY <1>4, <2>2 DEF Unavailable
    <3>5. violation' \in BOOLEAN /\ (violation' <=> violation \/ Answer(two(1), Global))
      BY <3>1
    <3>6. bad = 0 => (violation' <=> violation \/ (cur \in opts.locked /\ acc # "ALLOWED"))
      BY <2>2, <3>3, <3>5
    <3>7. pc' = "delete" => cur \notin opts.locked /\ status' = {"SUCCESS"} /\ Drops(acc)
      BY <3>1, <3>3, StatusFacts
    <3>8. bad = 0 /\ ~halted => status' = {"SUCCESS"} /\ (pc' = "delete" <=> ~Kept(cur))
      BY <3>1, <3>2, <3>3, StatusFacts
    <3> QED
      BY <1>2, <1>3, <3>1, <3>3, <3>4, <3>5, <3>6, <3>7, <3>8, StatusFacts
  <2> QED
    BY <2>1, <2>2
<1> QED
  BY <1>1, <1>6, <1>7, <1>8

-----------------------------------------------------------------------------
(***************************************************************************)
(* The invariants.                                                         *)
(***************************************************************************)

InLoop == pc \in {"fetch", "judge", "delete"}

\* Nothing is published before the end; a row is in hand only with a clean status.
Flow ==
    /\ pc = "start" => status = {"SUCCESS"}
    /\ pc # "done" => durable = before
    /\ pc \in {"judge", "delete"} => status = {"SUCCESS"} /\ cur \in Files
    /\ InLoop => opts.update

\* Without a transaction the connection sees the durable rows, and only the loop
\* of a run that is not dry has a transaction.
Store ==
    /\ autocommit => working = durable
    /\ pc \in {"start", "done"} \/ opts.dry_run => autocommit

\* Only a fault ends the transaction early, and only a fault is a FAILURE.
Faultless ==
    faults = 0 =>
        /\ InLoop /\ ~opts.dry_run => ~autocommit
        /\ "FAILURE" \notin status
        /\ pc = "done" /\ halted => "HALTED" \in status

\* A row that is about to go is not locked.
Protected ==
    /\ pc = "delete" => cur \notin opts.locked
    /\ LockedRowIsKept

\* The inductive invariant, next to TypeOK.
CleanupInv == Flow /\ Store /\ Faultless /\ Protected

\* The reasons of DropHasCause.
Causes(f) ==
    \/ f \in opts.ignored /\ opts.drop_ignored
    \/ f \in lost
    \/ f \in denied /\ opts.drop_inaccessible

\* A row that is gone, or about to go, has a reason.
CauseInv ==
    /\ Everywhere(access, {"NOT_FOUND"}) \subseteq lost
    /\ Everywhere(access, Unavailable) \subseteq denied
    /\ pc = "delete" => Causes(cur)
    /\ \A f \in Files : before[f] /\ ~(durable[f] /\ working[f]) => Causes(f)

\* The row has not been judged, or not been deleted yet.
InHand(f) == f \in pending \/ (pc \in {"judge", "delete"} /\ f = cur)

Missing(f) == f \in opts.locked /\ before[f] /\ access[FirstRoot][f] # "ALLOWED"

\* While nothing disturbs it, the loop has kept what it should keep of the rows
\* it has judged, and has noticed the locked ones without a file.
CalmLoop ==
    calm =>
        /\ ~interrupted /\ ~halted
        /\ pc = "start" => ~violation
        /\ InLoop =>
             /\ status = {"SUCCESS"}
             /\ ~opts.dry_run => ~autocommit
             /\ \A f \in Files : InHand(f) => before[f]
             /\ \A f \in Files : working[f] <=> before[f] /\ (Kept(f) \/ opts.dry_run \/ InHand(f))
             /\ pc \in {"judge", "delete"} => cur \notin pending
             /\ pc = "delete" => ~Kept(cur)
             /\ violation <=> \E f \in Files : Missing(f) /\ (InHand(f) => pc = "delete" /\ f = cur)

\* The inductive invariant of an undisturbed cleanup, next to the others.
CalmInv == CalmLoop /\ CleanupIsExact /\ LockedLossIsReported

-----------------------------------------------------------------------------
(***************************************************************************)
(* Types, the flow of the function and the protection of locked rows.      *)
(***************************************************************************)

\* The status that the function returns: a failure stays one and is never made up,
\* an interrupt is told, and a locked row without its file is a warning.
LEMMA OutcomeFacts ==
    ASSUME NEW s \in Statuses
    PROVE  /\ Outcome(s) \in Statuses
           /\ "FAILURE" \in Outcome(s) <=> "FAILURE" \in s
           /\ halted => "HALTED" \in Outcome(s)
           /\ ~halted /\ s = {"SUCCESS"} =>
                 Outcome(s) = IF violation THEN {"WARNING"} ELSE {"SUCCESS"}
<1> DEFINE freed == AfterCall(s, Ok, Global)
           last  == IF violation /\ freed = {"SUCCESS"} THEN {"WARNING"} ELSE freed
<1>1. s \in Plain /\ {"WARNING"} \in Plain
  BY DEF Statuses, Plain, Flags
<1>2. freed \in Plain
      /\ \A x : x \in freed <=>
            \/ x = "HALTED" /\ halted
            \/ x \in s \cup Ok /\ ~(x = "SUCCESS" /\ Has(s \cup Ok, CRITICAL))
  <2>0. Ok \in Plain /\ Global \in Globals
    BY StatusFacts
  <2>1. /\ freed \in Plain
        /\ \A x : x \in freed <=>
              \/ x = "HALTED" /\ Global = {"HALTED"}
              \/ x \in s \cup Ok /\ ~(x = "SUCCESS" /\ Has(s \cup Ok, CRITICAL))
    BY <1>1, <2>0, CallPlain
  <2> QED
    BY <2>1, StatusFacts
<1>3. Outcome(s) = Provide(last, Global)
  BY StatusFacts DEF Outcome
<1>4. freed \in Statuses /\ ("FAILURE" \in freed <=> "FAILURE" \in s)
  BY <1>2, StatusFacts DEF Statuses
<1>5. ~halted /\ s = {"SUCCESS"} => freed = {"SUCCESS"}
  BY <1>2, StatusFacts DEF Has, CRITICAL
<1> HIDE DEF freed
<1>6. last \in Plain /\ last \in Statuses /\ ("FAILURE" \in last <=> "FAILURE" \in s)
  BY <1>1, <1>2, <1>4 DEF Statuses
<1>7. ~halted /\ s = {"SUCCESS"} => last = IF violation THEN {"WARNING"} ELSE {"SUCCESS"}
  BY <1>5
<1> HIDE DEF last
<1>8. \A x : x \in Provide(last, Global) <=>
               \/ x = "HALTED" /\ halted
               \/ x \in last /\ ~(x = "SUCCESS" /\ Has(last, CRITICAL))
  BY <1>6, StatusFacts, ProvidePlain
<1>9. Outcome(s) \in Statuses
  BY <1>3, <1>6, <1>8 DEF Statuses
<1>10. ~Has({"SUCCESS"}, CRITICAL)
  BY DEF Has, CRITICAL
<1>11. ASSUME ~halted, s = {"SUCCESS"} PROVE Outcome(s) = last
  BY <1>3, <1>7, <1>8, <1>10, <1>11
<1> QED
  BY <1>3, <1>6, <1>7, <1>8, <1>9, <1>11

\* The initial state is well typed.
LEMMA TypeInit == Init => TypeOK
<1> SUFFICES ASSUME Init PROVE TypeOK
  OBVIOUS
<1>1. access \in [Roots -> [Files -> Access]] /\ opts \in CleanupOptions
  BY CleanupAssumption DEF Init
<1>2. lost \subseteq Files /\ denied \subseteq Files
  BY DEF Init, Everywhere
<1>3. edits \in 0..MaxEdits /\ faults \in 0..MaxFaults
  BY CleanupAssumption DEF Init
<1> QED
  BY <1>1, <1>2, <1>3 DEF Init, TypeOK

\* Every step keeps the types, given that a row in hand is a row.
LEMMA TypeNext == TypeOK /\ Flow /\ [Next]_vars => TypeOK'
<1> SUFFICES ASSUME TypeOK, Flow, [Next]_vars PROVE TypeOK'
  OBVIOUS
<1> USE DEF envVars, baseVars, signalVars, rowVars
<1>s. status \in Statuses
  BY DEF TypeOK, Statuses
<1>k. Ok \in Statuses /\ Bad \in Statuses /\ {"FAILURE"} \in Statuses /\ {"SUCCESS"} \in Statuses
  BY StatusFacts DEF Statuses
<1>f. Fault \/ NoFault => calm' \in BOOLEAN /\ faults' \in 0..MaxFaults
  <2>1. CASE Fault
    <3>1. faults' = faults + 1 /\ faults < MaxFaults /\ calm' = FALSE
      BY <2>1 DEF Fault
    <3>2. faults \in 0..MaxFaults /\ MaxFaults \in Nat
      BY CleanupAssumption DEF TypeOK
    <3>3. faults' \in 0..MaxFaults
      BY <3>1, <3>2
    <3>4. calm' \in BOOLEAN
      BY <3>1
    <3> QED
      BY <3>3, <3>4
  <2>2. CASE NoFault
    BY <2>2 DEF NoFault, TypeOK
  <2> QED
    BY <2>1, <2>2
<1>1. CASE Return \/ RootPathFails
  <2>1. status' \in Statuses
    BY <1>1, <1>k, StatusFacts DEF Return, RootPathFails
  <2>2. Fault \/ NoFault
    BY <1>1 DEF Return, RootPathFails
  <2> QED
    BY <1>1, <1>f, <2>1, <2>2 DEF Return, RootPathFails, TypeOK, Statuses
<1>2. CASE Begin
  <2>1. opts.dry_run \in BOOLEAN
    BY DEF TypeOK, CleanupOptions
  <2> QED
    BY <1>2, <2>1 DEF Begin, TypeOK
<1>3. ASSUME NEW f \in Files, Fetch(f) PROVE TypeOK'
  <2>1. status' \in Statuses
    BY <1>3, <1>k, <1>s, StatusFacts DEF Fetch
  <2>2. Fault \/ NoFault
    BY <1>3 DEF Fetch
  <2> QED
    BY <1>3, <1>f, <2>1, <2>2 DEF Fetch, TypeOK, Statuses
<1>4. CASE Judge
  <2>1. /\ pc' \in {"fetch", "delete"} /\ status' \in {Ok, Bad, {"SUCCESS"}}
        /\ violation' \in BOOLEAN
        /\ UNCHANGED <<calm, faults>> \/ Fault
    BY <1>4, JudgeFacts DEF Flow, Judge
  <2>2. status' \in Statuses /\ (Fault \/ NoFault)
    BY <1>k, <2>1 DEF NoFault
  <2> QED
    BY <1>4, <1>f, <2>1, <2>2 DEF Judge, TypeOK, Statuses
<1>5. CASE Delete
  <2>1. status' \in Statuses /\ (Fault \/ NoFault)
    BY <1>5, <1>k, StatusFacts DEF Delete
  <2>2. working' \in [Files -> BOOLEAN] /\ durable' = durable /\ autocommit' \in BOOLEAN
    BY <1>5 DEF Delete, AutoRollback, TypeOK
  <2> QED
    BY <1>5, <1>f, <2>1, <2>2 DEF Delete, TypeOK, Statuses
<1>6. CASE RememberFails
  BY <1>6, <1>f DEF RememberFails, AutoRollback, TypeOK
<1>7. CASE Finish
  <2>1. status' \in Statuses /\ (Fault \/ NoFault)
    BY <1>7, <1>k, <1>s, OutcomeFacts DEF Finish
  <2>2. working' \in [Files -> BOOLEAN] /\ durable' \in [Files -> BOOLEAN] /\ autocommit' \in BOOLEAN
    BY <1>7 DEF Finish, AutoRollback, TypeOK
  <2> QED
    BY <1>7, <1>f, <2>1, <2>2 DEF Finish, TypeOK, Statuses
<1>8. CASE Interrupt
  BY <1>8 DEF Interrupt, TypeOK
<1>9. CASE Crash
  BY <1>9, <1>f DEF Crash, AutoRollback, TypeOK
<1>10. CASE EnvAccess
  <2>1. access' \in [Roots -> [Files -> Access]]
    <3>1. PICK r \in Roots, f \in Files, a \in AccessKinds : access' = [access EXCEPT ![r][f] = a]
      BY <1>10 DEF EnvAccess
    <3> QED
      BY <3>1, CleanupAssumption DEF TypeOK
  <2>2. lost' \subseteq Files /\ denied' \subseteq Files /\ edits' \in 0..MaxEdits
    BY <1>10, CleanupAssumption DEF EnvAccess, TypeOK, Everywhere
  <2> QED
    BY <1>10, <2>1, <2>2 DEF EnvAccess, TypeOK
<1>11. CASE UNCHANGED vars
  BY <1>11 DEF vars, TypeOK
<1> QED
  BY <1>1, <1>2, <1>3, <1>4, <1>5, <1>6, <1>7, <1>8, <1>9, <1>10, <1>11 DEF Next, Program

\* The initial states satisfy the invariant.
LEMMA InvInit == Init => CleanupInv
<1> SUFFICES ASSUME Init PROVE CleanupInv
  OBVIOUS
<1>1. Flow /\ Store
  BY DEF Init, Flow, Store, InLoop
<1>2. Faultless
  BY DEF Init, Faultless, InLoop
<1>3. Protected
  <2>1. opts.locked \subseteq Files
    BY TypeInit DEF TypeOK, CleanupOptions
  <2> QED
    BY <2>1 DEF Init, Protected, LockedRowIsKept
<1> QED
  BY <1>1, <1>2, <1>3 DEF CleanupInv

\* A fault is counted.
LEMMA FaultCounts == TypeOK /\ Fault => faults' # 0 /\ ~calm'
BY CleanupAssumption DEF TypeOK, Fault

\* Every step of the loop and every disturbance preserves the invariant.
LEMMA InvNext == TypeOK /\ CleanupInv /\ [Next]_vars => CleanupInv'
<1> SUFFICES ASSUME TypeOK, CleanupInv, [Next]_vars PROVE CleanupInv'
  OBVIOUS
<1> USE DEF CleanupInv, envVars, baseVars, signalVars, rowVars
<1>t. /\ autocommit \in BOOLEAN /\ opts.dry_run \in BOOLEAN /\ opts.update \in BOOLEAN
      /\ opts.locked \subseteq Files /\ status \in Statuses
      /\ durable \in [Files -> BOOLEAN] /\ working \in [Files -> BOOLEAN]
  BY DEF TypeOK, CleanupOptions, Statuses
<1>k. LockedRowIsKept
  BY DEF Protected
<1>1. CASE Return \/ RootPathFails
  <2>1. /\ pc = "start" /\ pc' = "done" /\ UNCHANGED <<opts, before, durable, working, autocommit, halted>>
        /\ Fault \/ status' = Ok
    BY <1>1, StatusFacts DEF Return, RootPathFails
  <2>2. Flow' /\ Store' /\ Protected'
    BY <2>1, <1>k DEF Flow, Store, Protected, LockedRowIsKept, InLoop
  <2>3. Faultless'
    BY <2>1, FaultCounts DEF Faultless, InLoop, Ok
  <2> QED
    BY <2>2, <2>3
<1>2. CASE Begin
  <2>1. /\ pc = "start" /\ pc' = "fetch" /\ opts.update /\ autocommit' = opts.dry_run
        /\ UNCHANGED <<opts, before, durable, working, halted, status, faults>>
    BY <1>2 DEF Begin
  <2>2. Flow' /\ Protected'
    BY <2>1, <1>k DEF Flow, Protected, LockedRowIsKept, InLoop
  <2>3. Store'
    BY <2>1, <1>t DEF Store
  <2>4. Faultless'
    BY <2>1, <1>t DEF Faultless, Flow, InLoop
  <2> QED
    BY <2>2, <2>3, <2>4
<1>3. ASSUME NEW f \in Files, Fetch(f) PROVE CleanupInv'
  <2>1. /\ pc = "fetch" /\ status = {"SUCCESS"}
        /\ UNCHANGED <<opts, before, durable, working, autocommit, halted>>
        /\ \/ cur' = f /\ pc' = "judge" /\ UNCHANGED <<status, faults>>
           \/ Fault /\ pc' = "fetch"
    BY <1>3 DEF Fetch, Succeeded, NoFault
  <2>2. Flow' /\ Store' /\ Protected'
    BY <2>1, <1>k DEF Flow, Store, Protected, LockedRowIsKept, InLoop
  <2>3. Faultless'
    BY <2>1, FaultCounts DEF Faultless, InLoop
  <2> QED
    BY <2>2, <2>3
<1>4. CASE Judge
  <2>1. /\ UNCHANGED <<opts, before, durable, working, autocommit, halted, cur>> /\ pc = "judge"
        /\ status = {"SUCCESS"} /\ cur \in Files
    BY <1>4 DEF Judge, Flow
  <2>2. /\ pc' \in {"fetch", "delete"}
        /\ UNCHANGED <<calm, faults>> \/ Fault
        /\ UNCHANGED <<calm, faults>> => "FAILURE" \notin status'
        /\ pc' = "delete" => status' = {"SUCCESS"} /\ cur \notin opts.locked
    BY <1>4, <2>1, JudgeFacts
  <2>3. Flow' /\ Store' /\ Protected'
    BY <2>1, <2>2, <1>k DEF Flow, Store, Protected, LockedRowIsKept, InLoop
  <2>4. Faultless'
    BY <2>1, <2>2, FaultCounts DEF Faultless, InLoop
  <2> QED
    BY <2>3, <2>4
<1>5. CASE Delete
  <2>1. /\ pc = "delete" /\ pc' = "fetch" /\ UNCHANGED <<opts, before, halted, cur, durable>>
        /\ \/ Fault
           \/ ~opts.dry_run /\ autocommit /\ UNCHANGED <<working, autocommit, faults>>
           \/ status' = Ok /\ UNCHANGED <<autocommit, faults>> /\ (opts.dry_run \/ ~autocommit)
        /\ \/ autocommit' = autocommit /\ working' = working
           \/ ~opts.dry_run /\ autocommit' = TRUE /\ working' = durable
           \/ /\ ~opts.dry_run /\ ~autocommit /\ autocommit' = autocommit
              /\ working' = [working EXCEPT ![cur] = FALSE]
    BY <1>5, StatusFacts DEF Delete, AutoRollback, NoFault
  <2>2. Flow' /\ Store'
    BY <2>1 DEF Flow, Store, InLoop
  <2>3. Protected'
    BY <2>1, <1>k, <1>t DEF Protected, LockedRowIsKept
  <2>4. Faultless'
    BY <2>1, <1>t, FaultCounts, StatusFacts DEF Faultless, InLoop
  <2> QED
    BY <2>2, <2>3, <2>4
<1>6. CASE RememberFails
  <2>1. /\ pc = "fetch" /\ UNCHANGED <<opts, before, halted, cur, durable, status, pc>>
        /\ Fault /\ autocommit' = TRUE /\ working' = durable
    BY <1>6 DEF RememberFails, AutoRollback
  <2> QED
    BY <2>1, <1>k, FaultCounts DEF Flow, Store, Faultless, Protected, LockedRowIsKept, InLoop
<1>7. CASE Finish
  <2>1. /\ pc = "fetch" /\ pc' = "done" /\ UNCHANGED <<opts, before, halted, cur>>
        /\ \/ opts.dry_run /\ UNCHANGED <<durable, working, autocommit>>
           \/ autocommit' = TRUE /\ working' = working /\ durable' = working
           \/ autocommit' = TRUE /\ working' = durable /\ durable' = durable
    BY <1>7 DEF Finish, AutoRollback
  <2>2. \/ Fault
        \/ status' = Outcome(status) /\ faults' = faults
        \/ faults' = faults /\ ~opts.dry_run /\ ("FAILURE" \in status \/ autocommit)
    BY <1>7 DEF Finish, NoFault
  <2>3. Flow' /\ Store'
    BY <2>1 DEF Flow, Store, InLoop
  <2>4. Protected'
    BY <2>1, <1>k DEF Protected, LockedRowIsKept
  <2>5. Faultless'
    BY <2>1, <2>2, <1>t, FaultCounts, OutcomeFacts DEF Faultless, InLoop
  <2> QED
    BY <2>3, <2>4, <2>5
<1>8. CASE Interrupt
  BY <1>8, <1>k DEF Interrupt, Flow, Store, Faultless, Protected, LockedRowIsKept, InLoop
<1>9. CASE Crash
  BY <1>9, <1>k, FaultCounts DEF Crash, AutoRollback, Flow, Store, Faultless, Protected,
     LockedRowIsKept, InLoop
<1>10. CASE EnvAccess
  BY <1>10, <1>k DEF EnvAccess, Flow, Store, Faultless, Protected, LockedRowIsKept, InLoop
<1>11. CASE UNCHANGED vars
  BY <1>11, <1>k DEF vars, Flow, Store, Faultless, Protected, LockedRowIsKept, InLoop
<1> QED
  BY <1>1, <1>2, <1>3, <1>4, <1>5, <1>6, <1>7, <1>8, <1>9, <1>10, <1>11 DEF Next, Program

\* Both hold in every reachable state.
LEMMA Always == Spec => [](TypeOK /\ CleanupInv)
<1>1. CleanupInv => Flow
  BY DEF CleanupInv
<1> QED
  BY <1>1, TypeInit, TypeNext, InvInit, InvNext, PTL DEF Spec

\* Every variable of the cleanup keeps its type, and the local status never keeps a
\* yes/no answer, which the next macro would turn into FAILURE.
THEOREM TypeCorrect == Spec => []TypeOK
BY Always, PTL

\* db_delete_missing_metadata() never removes the row of a checksum-locked path:
\* not when Ctrl+C changes a status between two lock checks, when a regexp or a
\* SQLite call fails, when the file appears or vanishes, or at a crash.
THEOREM LockedRowsAreKept == Spec => []LockedRowIsKept
<1>1. CleanupInv => LockedRowIsKept
  BY DEF CleanupInv, Protected
<1> QED
  BY <1>1, Always, PTL

\* Without a technical failure db_delete_missing_metadata() does not return FAILURE,
\* wherever Ctrl+C lands, and a HALTED that was kept is returned.
THEOREM InterruptsAreNoFailures == Spec => []InterruptIsNoFailure
<1>1. CleanupInv => InterruptIsNoFailure
  BY DEF CleanupInv, Faultless, InterruptIsNoFailure
<1> QED
  BY <1>1, Always, PTL

-----------------------------------------------------------------------------
(***************************************************************************)
(* A removed row had a reason.                                             *)
(***************************************************************************)

\* With one traversal root, what the root that was asked says is what every root
\* says, so every step preserves the reasons.
LEMMA CauseNext ==
    ASSUME Roots = {FirstRoot}
    PROVE  TypeOK /\ CleanupInv /\ CauseInv /\ [Next]_vars => CauseInv'
<1> SUFFICES ASSUME TypeOK, CleanupInv, CauseInv, [Next]_vars PROVE CauseInv'
  OBVIOUS
<1> USE DEF envVars, baseVars, signalVars, rowVars
<1> DEFINE SeenOk == Everywhere(access, {"NOT_FOUND"}) \subseteq lost
                     /\ Everywhere(access, Unavailable) \subseteq denied
           Gone(f) == before[f] /\ ~(durable[f] /\ working[f])
<1>t. /\ durable \in [Files -> BOOLEAN] /\ working \in [Files -> BOOLEAN]
  BY DEF TypeOK
<1>1. CASE EnvAccess
  <2>1. SeenOk'
    BY <1>1 DEF EnvAccess
  <2>2. lost \subseteq lost' /\ denied \subseteq denied' /\ UNCHANGED <<opts, pc, cur, before, durable, working>>
    BY <1>1 DEF EnvAccess
  <2>3. \A f : Causes(f) => Causes(f)'
    BY <2>2 DEF Causes
  <2> QED
    BY <2>1, <2>2, <2>3 DEF CauseInv
<1>2. CASE UNCHANGED <<access, lost, denied, opts, before>>
           /\ (\A f \in Files : Gone(f)' => Gone(f) \/ (pc = "delete" /\ f = cur))
           /\ (pc' = "delete" => Causes(cur'))
  <2>1. \A f : Causes(f)' <=> Causes(f)
    BY <1>2 DEF Causes
  <2>2. SeenOk'
    BY <1>2 DEF CauseInv, Everywhere
  <2>3. \A f \in Files : Gone(f)' => Causes(f)
    BY <1>2 DEF CauseInv
  <2> QED
    BY <1>2, <2>1, <2>2, <2>3 DEF CauseInv, Causes
<1>3. CASE Return \/ RootPathFails \/ Begin \/ RememberFails \/ Interrupt \/ Crash \/ UNCHANGED vars
  <2>1. /\ UNCHANGED <<access, lost, denied, opts, before, durable, cur>>
        /\ working' \in {working, durable}
        /\ pc' = "delete" => pc = "delete"
    BY <1>3 DEF Return, RootPathFails, Begin, RememberFails, Interrupt, Crash, AutoRollback, vars
  <2> QED
    BY <1>2, <2>1 DEF CauseInv
<1>4. ASSUME NEW f \in Files, Fetch(f) PROVE CauseInv'
  BY <1>2, <1>4 DEF Fetch
<1>5. CASE Judge
  <2>1. /\ UNCHANGED <<access, lost, denied, opts, before, durable, working, cur>>
        /\ pc = "judge" /\ status = {"SUCCESS"} /\ cur \in Files
    BY <1>5 DEF Judge, CleanupInv, Flow
  <2>2. ASSUME pc' = "delete" PROVE Causes(cur)
    <3> DEFINE acc == access[FirstRoot][cur]
    <3>1. \/ cur \in opts.ignored /\ opts.drop_ignored
          \/ acc \in Unavailable /\ Drops(acc)
      BY <1>5, <2>1, <2>2, JudgeFacts
    <3>2. acc = "NOT_FOUND" => cur \in lost
      BY <2>1 DEF CauseInv, Everywhere
    <3>3. acc \in Unavailable => cur \in denied
      BY <2>1 DEF CauseInv, Everywhere
    <3> QED
      BY <3>1, <3>2, <3>3 DEF Causes, Drops
  <2> QED
    BY <1>2, <2>1, <2>2
<1>6. CASE Delete
  <2>1. /\ UNCHANGED <<access, lost, denied, opts, before, durable>> /\ pc' = "fetch" /\ pc = "delete"
        /\ working' \in {working, durable, [working EXCEPT ![cur] = FALSE]}
    BY <1>6 DEF Delete, AutoRollback
  <2>2. \A f \in Files : Gone(f)' => Gone(f) \/ f = cur
    BY <2>1, <1>t
  <2> QED
    BY <1>2, <2>1, <2>2
<1>7. CASE Finish
  <2>1. /\ UNCHANGED <<access, lost, denied, opts, before>> /\ pc' = "done"
        /\ \/ UNCHANGED <<durable, working>>
           \/ durable' = working /\ working' = working
           \/ working' = durable /\ durable' = durable
    BY <1>7 DEF Finish, AutoRollback
  <2> QED
    BY <1>2, <2>1
<1> QED
  BY <1>1, <1>3, <1>4, <1>5, <1>6, <1>7 DEF Next, Program

\* With one traversal root a removed row had a reason that was true at some moment
\* of this cleanup, however the file system changed between the looks at it.
THEOREM DropsHaveCauses ==
    ASSUME Roots = {FirstRoot}
    PROVE  Spec => []DropHasCause
<1>1. Init => CauseInv
  BY DEF Init, CauseInv
<1>2. CauseInv => DropHasCause
  BY DEF CauseInv, Causes, DropHasCause
<1>3. TypeOK /\ CleanupInv /\ CauseInv /\ [Next]_vars => CauseInv'
  BY CauseNext
<1> QED
  BY <1>1, <1>2, <1>3, Always, PTL DEF Spec

-----------------------------------------------------------------------------
(***************************************************************************)
(* What an undisturbed cleanup removes and reports.                        *)
(***************************************************************************)

\* As long as nothing else acts, every step of the loop keeps the count of what has
\* been judged, and the end publishes and reports exactly that.
LEMMA CalmNext == TypeOK /\ CleanupInv /\ CalmInv /\ [Next]_vars => CalmInv'
<1> SUFFICES ASSUME TypeOK, CleanupInv, CalmInv, [Next]_vars, calm' PROVE CalmInv'
  BY DEF CalmInv, CalmLoop, CleanupIsExact, LockedLossIsReported
<1> USE DEF envVars, baseVars, signalVars, rowVars
<1>t. /\ autocommit \in BOOLEAN /\ opts.dry_run \in BOOLEAN /\ opts.update \in BOOLEAN
      /\ opts.locked \subseteq Files /\ violation \in BOOLEAN
      /\ working \in [Files -> BOOLEAN] /\ before \in [Files -> BOOLEAN]
  BY DEF TypeOK, CleanupOptions
<1>f. ~Fault
  BY FaultCounts
<1>e. ~EnvAccess /\ ~Interrupt /\ ~Crash /\ ~RememberFails
  BY <1>f DEF EnvAccess, Interrupt, Crash, RememberFails
<1>1. /\ calm /\ UNCHANGED <<access, opts, before, interrupted, halted>>
      /\ ~interrupted /\ ~halted
  <2>1. CASE UNCHANGED vars
    BY <2>1 DEF vars, CalmInv, CalmLoop
  <2>2. CASE Program
    <3>1. UNCHANGED <<access, opts, before, interrupted, halted>>
      BY <2>2 DEF Program, Return, RootPathFails, Begin, Fetch, Judge, Delete, Finish
    <3>2. calm
      <4>1. CASE Judge
        BY <4>1, <1>f DEF Judge, LockChecks, NoFault
      <4> QED
        BY <2>2, <4>1, <1>f DEF Program, Return, RootPathFails, Begin, Fetch, Delete, Finish, NoFault
    <3> QED
      BY <3>1, <3>2 DEF CalmInv, CalmLoop
  <2> QED
    BY <1>e, <2>1, <2>2 DEF Next
<1>2. \A f : (Kept(f)' <=> Kept(f)) /\ (Missing(f)' <=> Missing(f))
  BY <1>1 DEF Kept, Missing
<1>3. InLoop =>
        /\ status = {"SUCCESS"}
        /\ ~opts.dry_run => ~autocommit
        /\ \A f \in Files : InHand(f) => before[f]
        /\ \A f \in Files : working[f] <=> before[f] /\ (Kept(f) \/ opts.dry_run \/ InHand(f))
        /\ pc \in {"judge", "delete"} => cur \notin pending
        /\ pc = "delete" => ~Kept(cur)
        /\ violation <=> \E f \in Files : Missing(f) /\ (InHand(f) => pc = "delete" /\ f = cur)
  BY <1>1 DEF CalmInv, CalmLoop
<1> DEFINE Loop ==
        /\ status = {"SUCCESS"}
        /\ ~opts.dry_run => ~autocommit
        /\ \A f \in Files : InHand(f) => before[f]
        /\ \A f \in Files : working[f] <=> before[f] /\ (Kept(f) \/ opts.dry_run \/ InHand(f))
        /\ pc \in {"judge", "delete"} => cur \notin pending
        /\ pc = "delete" => ~Kept(cur)
        /\ violation <=> \E f \in Files : Missing(f) /\ (InHand(f) => pc = "delete" /\ f = cur)
<1>4. ASSUME InLoop, InLoop', Loop' PROVE CalmInv'
  BY <1>1, <1>4 DEF CalmInv, CalmLoop, CleanupIsExact, LockedLossIsReported, InLoop
<1>5. CASE Return \/ RootPathFails
  <2>1. pc = "start" /\ pc' = "done" /\ ~opts.update /\ durable' = durable
    BY <1>5, <1>1, <1>f DEF Return, RootPathFails
  <2>2. durable' = before'
    BY <1>1, <2>1 DEF CleanupInv, Flow
  <2> QED
    BY <1>1, <2>1, <2>2 DEF CalmInv, CalmLoop, CleanupIsExact, LockedLossIsReported, InLoop
<1>6. CASE Begin
  <2>1. /\ pc = "start" /\ pc' = "fetch" /\ autocommit' = opts.dry_run
        /\ pending' = {f \in Files : working[f]}
        /\ UNCHANGED <<working, status, violation>>
    BY <1>6 DEF Begin
  <2>2. working = before /\ ~violation /\ status = {"SUCCESS"}
    BY <1>1, <2>1 DEF CleanupInv, Flow, Store, CalmInv, CalmLoop
  <2>3. \A f \in Files : InHand(f)' <=> before[f]
    BY <2>1, <2>2 DEF InHand
  <2>4. \A f \in Files : Missing(f) => before[f]
    BY DEF Missing
  <2>5. ~\E f \in Files : Missing(f)' /\ (InHand(f)' => pc' = "delete" /\ f = cur')
    BY <1>2, <2>1, <2>3, <2>4
  <2>6. ~opts'.dry_run => ~autocommit'
    BY <1>1, <1>t, <2>1
  <2>7. \A f \in Files : working'[f] <=> before'[f] /\ (Kept(f)' \/ opts'.dry_run \/ InHand(f)')
    BY <1>1, <2>1, <2>2, <2>3
  <2>8. \A f \in Files : InHand(f)' => before'[f]
    BY <1>1, <2>3
  <2> QED
    BY <1>1, <2>1, <2>2, <2>5, <2>6, <2>7, <2>8
       DEF CalmInv, CalmLoop, CleanupIsExact, LockedLossIsReported, InLoop
<1>7. ASSUME NEW g \in Files, Fetch(g) PROVE CalmInv'
  <2>1. /\ pc = "fetch" /\ pc' = "judge" /\ g \in pending /\ pending' = pending \ {g} /\ cur' = g
        /\ UNCHANGED <<working, autocommit, status, violation>>
    BY <1>7, <1>f DEF Fetch
  <2>2. \A f \in Files : InHand(f)' <=> InHand(f)
    BY <2>1 DEF InHand
  <2> QED
    BY <1>1, <1>2, <1>3, <1>4, <2>1, <2>2 DEF InLoop
<1>8. CASE Judge
  <2>1. /\ UNCHANGED <<working, autocommit, pending, cur>> /\ pc = "judge"
        /\ status = {"SUCCESS"} /\ cur \in Files /\ UNCHANGED <<calm, faults>>
    BY <1>8, <1>f DEF Judge, CleanupInv, Flow, LockChecks, NoFault
  <2>2. /\ pc' \in {"fetch", "delete"} /\ status' = {"SUCCESS"}
        /\ pc' = "delete" <=> ~Kept(cur)
        /\ violation' <=> \/ violation
                          \/ cur \in opts.locked /\ access[FirstRoot][cur] # "ALLOWED"
    BY <1>1, <1>8, <2>1, JudgeFacts
  <2>3. InHand(cur) /\ before[cur]
    BY <1>3, <2>1 DEF InHand, InLoop
  <2>4. violation' <=> violation \/ Missing(cur)
    BY <2>2, <2>3 DEF Missing
  <2>5. \A f \in Files : InHand(f)' <=> InHand(f) /\ (f = cur => pc' = "delete")
    BY <1>3, <2>1, <2>2 DEF InHand, InLoop
  <2>6. \A f \in Files : InHand(f)' => before'[f]
    BY <1>1, <1>3, <2>1, <2>5 DEF InLoop
  <2>7. \A f \in Files : working'[f] <=> before'[f] /\ (Kept(f)' \/ opts'.dry_run \/ InHand(f)')
    BY <1>1, <1>2, <1>3, <2>1, <2>2, <2>5 DEF InLoop
  <2>8. violation' <=> \E f \in Files : Missing(f)' /\ (InHand(f)' => pc' = "delete" /\ f = cur')
    <3>1. violation <=> \E f \in Files : Missing(f) /\ ~InHand(f)
      BY <1>3, <2>1 DEF InLoop
    <3> QED
      BY <1>2, <2>1, <2>2, <2>3, <2>4, <2>5, <3>1
  <2>9. ~opts'.dry_run => ~autocommit'
    BY <1>1, <1>3, <2>1 DEF InLoop
  <2>10. (pc' \in {"judge", "delete"} => cur' \notin pending') /\ (pc' = "delete" => ~Kept(cur)')
    BY <1>2, <1>3, <2>1, <2>2 DEF InLoop
  <2>11. Loop'
    BY <2>2, <2>6, <2>7, <2>8, <2>9, <2>10, <2>1
  <2> QED
    BY <1>4, <2>1, <2>2, <2>11 DEF InLoop
<1>9. CASE Delete
  <2>1. /\ pc = "delete" /\ cur \in Files /\ ~Kept(cur) /\ (opts.dry_run \/ ~autocommit)
    BY <1>9, <1>3 DEF Delete, CleanupInv, Flow, InLoop
  <2>2. /\ pc' = "fetch" /\ UNCHANGED <<autocommit, pending, cur, violation>>
        /\ status' = {"SUCCESS"}
        /\ working' = IF opts.dry_run THEN working ELSE [working EXCEPT ![cur] = FALSE]
    BY <1>1, <1>9, <1>f, <2>1, StatusFacts DEF Delete
  <2>3. InHand(cur) /\ cur \notin pending
    BY <1>3, <2>1 DEF InHand, InLoop
  <2>4. \A f \in Files : InHand(f)' <=> InHand(f) /\ f # cur
    BY <2>1, <2>2, <2>3 DEF InHand
  <2>5. \A f \in Files : working'[f] <=> before'[f] /\ (Kept(f)' \/ opts'.dry_run \/ InHand(f)')
    BY <1>1, <1>2, <1>3, <1>t, <2>1, <2>2, <2>4 DEF InLoop
  <2>6. violation' <=> \E f \in Files : Missing(f)' /\ (InHand(f)' => pc' = "delete" /\ f = cur')
    <3>1. violation <=> \E f \in Files : Missing(f) /\ (InHand(f) => f = cur)
      BY <1>3, <2>1 DEF InLoop
    <3> QED
      BY <1>2, <2>2, <2>4, <3>1
  <2>7. /\ \A f \in Files : InHand(f)' => before'[f]
        /\ ~opts'.dry_run => ~autocommit'
    BY <1>1, <1>3, <2>1, <2>2, <2>4 DEF InLoop
  <2>8. Loop'
    BY <2>2, <2>5, <2>6, <2>7
  <2> QED
    BY <1>4, <2>1, <2>2, <2>8 DEF InLoop
<1>10. CASE Finish
  <2>1. pc = "fetch" /\ pc' = "done" /\ pending = {} /\ status = {"SUCCESS"}
        /\ violation' = violation /\ opts.update /\ durable = before
    BY <1>1, <1>3, <1>10 DEF Finish, Succeeded, InLoop, CleanupInv, Flow
  <2>2. \A f \in Files : ~InHand(f)
    BY <2>1 DEF InHand
  <2>3. "FAILURE" \notin status /\ (~opts.dry_run => ~autocommit)
    BY <1>3, <2>1 DEF InLoop
  <2>4. /\ status' = Outcome(status)
        /\ durable' = IF opts.dry_run THEN durable ELSE working
    BY <1>10, <1>f, <1>t, <2>3 DEF Finish
  <2>5. status' = IF violation THEN {"WARNING"} ELSE {"SUCCESS"}
    <3>1. status \in Statuses
      BY DEF TypeOK, Statuses
    <3> QED
      BY <1>1, <2>1, <2>4, <3>1, OutcomeFacts
  <2>6. violation <=> \E f \in opts.locked : before[f] /\ access[FirstRoot][f] # "ALLOWED"
    BY <1>3, <1>t, <2>1, <2>2 DEF InLoop, Missing
  <2>7. \A f \in Files : durable'[f] <=> before[f] /\ (Kept(f) \/ opts.dry_run)
    BY <1>3, <2>1, <2>2, <2>4 DEF InLoop
  <2>8. CleanupIsExact'
    BY <1>1, <1>2, <2>1, <2>7 DEF CleanupIsExact
  <2>9. LockedLossIsReported'
    BY <1>1, <2>5, <2>6 DEF LockedLossIsReported
  <2> QED
    BY <1>1, <2>1, <2>8, <2>9 DEF CalmInv, CalmLoop, InLoop
<1>11. CASE UNCHANGED vars
  <2>1. (CalmLoop' <=> CalmLoop) /\ (CleanupIsExact' <=> CleanupIsExact)
        /\ (LockedLossIsReported' <=> LockedLossIsReported)
    BY <1>11 DEF vars, CalmLoop, CleanupIsExact, LockedLossIsReported, InLoop, InHand, Missing, Kept
  <2> QED
    BY <2>1 DEF CalmInv
<1> QED
  BY <1>e, <1>5, <1>6, <1>7, <1>8, <1>9, <1>10, <1>11 DEF Next, Program

\* In every reachable state the count is right.
LEMMA CalmAlways == Spec => []CalmInv
<1>1. Init => CalmInv
  BY DEF Init, CalmInv, CalmLoop, CleanupIsExact, LockedLossIsReported, InLoop
<1> QED
  BY <1>1, CalmNext, Always, PTL DEF Spec

\* A cleanup during which nothing else happens removes exactly the rows that the
\* command line and the file system tell it to remove, and a dry run none.
THEOREM CleanupsAreExact == Spec => []CleanupIsExact
BY CalmAlways, PTL DEF CalmInv

\* A cleanup during which nothing else happens returns WARNING exactly when a locked
\* row has lost its file, on each of the three paths through the loop.
THEOREM LockedLossesAreReported == Spec => []LockedLossIsReported
BY CalmAlways, PTL DEF CalmInv

-----------------------------------------------------------------------------
(***************************************************************************)
(* The refinement of AtomicBatch.                                          *)
(***************************************************************************)

\* Every step of the cleanup is a step of AtomicBatch or leaves it alone.
LEMMA BatchStep == TypeOK /\ CleanupInv /\ [Next]_vars => [Batch!Next]_(Batch!vars)
<1> SUFFICES ASSUME TypeOK, CleanupInv, [Next]_vars
             PROVE  Batch!Next \/ UNCHANGED Batch!vars
  OBVIOUS
<1> USE DEF CleanupInv, envVars, baseVars, signalVars, rowVars
<1>t. /\ autocommit \in BOOLEAN /\ opts.dry_run \in BOOLEAN
      /\ working \in [Files -> BOOLEAN]
  BY DEF TypeOK, CleanupOptions
<1>s. ASSUME UNCHANGED <<durable, working>>, BatchPhase' = BatchPhase,
             faults' = faults \/ Fault
      PROVE  Batch!Next \/ UNCHANGED Batch!vars
  BY <1>s DEF Fault, Batch!vars, Batch!Next, Batch!Tolerate, Batch!Fault
<1>f. ASSUME Fault \/ (BatchPhase = "broken" /\ faults' = faults)
      PROVE  Batch!FaultOrBroken
  BY <1>f DEF Fault, Batch!FaultOrBroken, Batch!Fault
<1>b. ASSUME BatchPhase # "closed", BatchPhase' = "broken",
             working' \in {working, durable}, durable' = durable,
             Fault \/ (BatchPhase = "broken" /\ faults' = faults)
      PROVE  Batch!Next
  BY <1>b, <1>f DEF Batch!Next, Batch!Break
<1>d. ASSUME BatchPhase' = "closed", working' = durable, durable' = durable,
             Fault \/ (BatchPhase = "broken" /\ faults' = faults)
      PROVE  Batch!Next
  BY <1>d, <1>f DEF Batch!Next, Batch!Discard
<1>c. ASSUME BatchPhase = "open", BatchPhase' = "closed",
             durable' = working, working' = working, faults' = faults
      PROVE  Batch!Next
  BY <1>c DEF Batch!Next, Batch!Close
<1>1. CASE Return \/ RootPathFails
  <2>1. pc = "start" /\ pc' = "done" /\ UNCHANGED <<durable, working>>
        /\ (faults' = faults \/ Fault)
    BY <1>1 DEF Return, RootPathFails, NoFault
  <2> QED
    BY <2>1, <1>s DEF BatchPhase
<1>2. CASE Begin
  <2>1. pc = "start" /\ pc' = "fetch" /\ autocommit' = opts.dry_run
        /\ UNCHANGED <<opts, status, durable, working, faults>> /\ status = {"SUCCESS"}
    BY <1>2 DEF Begin, Flow
  <2>2. BatchPhase = "closed" /\ BatchPhase' = "open"
    BY <2>1, <1>t DEF BatchPhase
  <2> QED
    BY <2>1, <2>2 DEF Batch!Next, Batch!Open
<1>3. ASSUME NEW f \in Files, Fetch(f) PROVE Batch!Next \/ UNCHANGED Batch!vars
  <2>1. /\ pc = "fetch" /\ pc' \in {"fetch", "judge"}
        /\ UNCHANGED <<durable, working, autocommit, opts>>
        /\ \/ status' = status /\ faults' = faults
           \/ status' = Bad /\ pc' = "fetch" /\ Fault
    BY <1>3, StatusFacts DEF Fetch, NoFault
  <2>2. CASE status' = status /\ faults' = faults
    BY <2>1, <2>2, <1>s DEF BatchPhase
  <2>3. CASE status' = Bad /\ Fault
    <3>1. BatchPhase # "closed" /\ BatchPhase' = "broken"
      BY <2>1, <2>3, StatusFacts DEF BatchPhase
    <3> QED
      BY <2>1, <2>3, <3>1, <1>b
  <2> QED
    BY <2>1, <2>2, <2>3
<1>4. CASE Judge
  <2>1. /\ UNCHANGED <<durable, working, autocommit, opts>> /\ pc = "judge"
        /\ status = {"SUCCESS"} /\ cur \in Files
    BY <1>4 DEF Judge, Flow
  <2>2. /\ pc' \in {"fetch", "delete"}
        /\ (UNCHANGED <<calm, faults>> \/ Fault)
        /\ UNCHANGED <<calm, faults>> => "FAILURE" \notin status'
    BY <1>4, <2>1, JudgeFacts
  <2>3. CASE "FAILURE" \in status'
    <3>1. BatchPhase # "closed" /\ BatchPhase' = "broken"
      BY <2>1, <2>2, <2>3 DEF BatchPhase
    <3> QED
      BY <2>1, <2>2, <2>3, <3>1, <1>b
  <2>4. CASE "FAILURE" \notin status'
    BY <2>1, <2>2, <2>4, <1>s DEF BatchPhase
  <2> QED
    BY <2>3, <2>4
<1>5. CASE Delete
  <2>1. /\ pc = "delete" /\ pc' = "fetch" /\ durable' = durable /\ opts' = opts
        /\ status = {"SUCCESS"} /\ cur \in Files
    BY <1>5 DEF Delete, Flow, AutoRollback
  <2>2. CASE "FAILURE" \in status'
    <3>1. BatchPhase # "closed" /\ BatchPhase' = "broken"
      BY <2>1, <2>2 DEF BatchPhase
    <3>2. working' \in {working, durable}
      BY <1>5, <2>2, StatusFacts DEF Delete, AutoRollback
    <3>3. Fault \/ (~opts.dry_run /\ autocommit /\ faults' = faults)
      BY <1>5, <2>2, StatusFacts DEF Delete, NoFault
    <3>4. Fault \/ (BatchPhase = "broken" /\ faults' = faults)
      BY <2>1, <3>3 DEF BatchPhase
    <3> QED
      BY <2>1, <3>1, <3>2, <3>4, <1>b
  <2>3. CASE "FAILURE" \notin status'
    <3>1. /\ (opts.dry_run \/ ~autocommit) /\ autocommit' = autocommit
          /\ working' = IF opts.dry_run THEN working ELSE [working EXCEPT ![cur] = FALSE]
          /\ faults' = faults
      BY <1>5, <2>3, StatusFacts DEF Delete, NoFault
    <3>2. BatchPhase = "open" /\ BatchPhase' = "open"
      BY <2>1, <2>3, <3>1 DEF BatchPhase
    <3>3. CASE opts.dry_run
      BY <2>1, <3>1, <3>2, <3>3, <1>s
    <3>4. CASE ~opts.dry_run
      <4>1. working'[cur] = FALSE
        BY <2>1, <3>1, <3>4, <1>t
      <4>2. Batch!Put(cur)
        BY <2>1, <3>1, <3>2, <3>4, <4>1 DEF Batch!Put, Batch!ChangeOf
      <4> QED
        BY <2>1, <4>2 DEF Batch!Next
    <3> QED
      BY <3>3, <3>4
  <2> QED
    BY <2>2, <2>3
<1>6. CASE RememberFails
  <2>1. /\ pc = "fetch" /\ pc' = pc /\ opts' = opts /\ ~autocommit /\ autocommit' = TRUE
        /\ working' = durable /\ durable' = durable /\ Fault
    BY <1>6 DEF RememberFails, AutoRollback
  <2>2. BatchPhase # "closed" /\ BatchPhase' = "broken"
    BY <2>1, <1>t DEF BatchPhase, Store
  <2> QED
    BY <2>1, <2>2, <1>b
<1>7. CASE Finish
  <2>1. pc = "fetch" /\ pc' = "done" /\ BatchPhase' = "closed"
    BY <1>7 DEF Finish, BatchPhase
  <2>2. CASE opts.dry_run /\ UNCHANGED <<durable, working, faults>>
    <3>1. working = durable
      BY <2>1, <2>2 DEF Store
    <3>2. BatchPhase \in {"open", "broken"}
      BY <2>1 DEF BatchPhase
    <3> QED
      BY <2>1, <2>2, <3>1, <3>2, <1>c, <1>d
  <2>3. CASE AutoRollback /\ Fault
    BY <2>1, <2>3, <1>d DEF AutoRollback
  <2>4. CASE /\ AutoRollback /\ faults' = faults
             /\ ~opts.dry_run /\ ("FAILURE" \in status \/ autocommit)
    <3>1. BatchPhase = "broken"
      BY <2>1, <2>4 DEF BatchPhase
    <3> QED
      BY <2>1, <2>4, <3>1, <1>d DEF AutoRollback
  <2>5. CASE /\ "FAILURE" \notin status /\ ~autocommit /\ durable' = working
             /\ UNCHANGED <<working, faults>>
    <3>1. BatchPhase = "open"
      BY <2>1, <2>5 DEF BatchPhase
    <3> QED
      BY <2>1, <2>5, <3>1, <1>c
  <2> QED
    BY <1>7, <2>2, <2>3, <2>4, <2>5 DEF Finish, NoFault
<1>8. CASE Interrupt \/ EnvAccess \/ UNCHANGED vars
  <2>1. UNCHANGED <<durable, working, autocommit, opts, status, pc, faults>>
    BY <1>8 DEF Interrupt, EnvAccess, vars
  <2> QED
    BY <2>1, <1>s DEF BatchPhase
<1>9. CASE Crash
  BY <1>9, <1>d DEF Crash, AutoRollback, BatchPhase
<1> QED
  BY <1>1, <1>2, <1>3, <1>4, <1>5, <1>6, <1>7, <1>8, <1>9 DEF Next, Program

\* The cleanup implements the abstract store: its deletions become durable together
\* when it ends without a technical failure, by Ctrl+C too; only a failure, which may
\* be a transaction that SQLite rolled back by itself, or a crash throws them away,
\* and then none of them becomes durable.
THEOREM CleanupRefinement == Spec => ImplementsAtomicBatch
<1>1. Init => Batch!Init
  BY DEF Init, Batch!Init, BatchPhase
<1> QED
  BY <1>1, Always, BatchStep, PTL DEF Spec, ImplementsAtomicBatch, Batch!Spec

=============================================================================
