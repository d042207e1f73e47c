------------------------- MODULE ReturnStatusProofs -------------------------
(***************************************************************************)
(* What the macros of libs/rational do to a status, one flag at a time,    *)
(* for every status that a function of precizer can hold.                  *)
(***************************************************************************)
EXTENDS ReturnStatus, TLAPS

\* global_return_status before and after the signal handler.
Globals == {{"SUCCESS"}, {"HALTED"}}

\* A status without a yes/no answer.
Plain == SUBSET (Flags \ {"AWAITING", "YES", "NO"})

\* The flags that survive the two contradictions.
LEMMA SettleMember ==
    ASSUME NEW s \in SUBSET Flags
    PROVE  /\ Settle[s] \in SUBSET Flags
           /\ \A x : x \in Settle[s] <=> /\ x \in s
                                         /\ ~(x = "SUCCESS" /\ Has(s, CRITICAL))
                                         /\ ~(x = "YES" /\ "NO" \in s)
BY DEF Settle

\* rational_normalize_return() with the status of the process: HALTED is added,
\* and what contradicts is removed.
LEMMA NormalizeMember ==
    ASSUME NEW s \in SUBSET Flags, NEW g \in Globals
    PROVE  /\ Normalize(s, g) \in SUBSET Flags
           /\ \A x : x \in Normalize(s, g) <=>
                 \/ x = "HALTED" /\ g = {"HALTED"}
                 \/ /\ x \in s
                    /\ ~(x = "SUCCESS" /\ Has(s, CRITICAL))
                    /\ ~(x = "YES" /\ "NO" \in s)
<1> DEFINE mid == Settle[s] \cup (Settle[g] \cap GLOBAL)
<1>1. g \in SUBSET Flags
  BY DEF Globals, Flags
<1>2. mid \in SUBSET Flags
  BY <1>1, SettleMember
<1>3. \A x : x \in Settle[g] \cap GLOBAL <=> x = "HALTED" /\ g = {"HALTED"}
  BY <1>1, SettleMember DEF Globals, GLOBAL, Has, CRITICAL
<1>4. \A x : x \in mid <=> \/ x = "HALTED" /\ g = {"HALTED"}
                           \/ /\ x \in s
                              /\ ~(x = "SUCCESS" /\ Has(s, CRITICAL))
                              /\ ~(x = "YES" /\ "NO" \in s)
  BY <1>3, SettleMember
<1>5. Has(mid, CRITICAL) <=> Has(s, CRITICAL)
  BY <1>4 DEF Has, CRITICAL
<1>6. "NO" \in mid <=> "NO" \in s
  BY <1>4
<1>7. Normalize(s, g) = Settle[mid]
  BY DEF Normalize
<1> HIDE DEF mid
<1> QED
  BY <1>2, <1>4, <1>5, <1>6, <1>7, SettleMember

\* A function that gives no answer provides what normalisation leaves.
LEMMA ProvidePlain ==
    ASSUME NEW s \in Plain, NEW g \in Globals
    PROVE  /\ Provide(s, g) \in Plain
           /\ \A x : x \in Provide(s, g) <=>
                 \/ x = "HALTED" /\ g = {"HALTED"}
                 \/ x \in s /\ ~(x = "SUCCESS" /\ Has(s, CRITICAL))
<1>1. s \in SUBSET Flags /\ "AWAITING" \notin s /\ "YES" \notin s /\ "NO" \notin s
  BY DEF Plain
<1>2. Normalize(s, g) \in SUBSET Flags
      /\ "YES" \notin Normalize(s, g) /\ "NO" \notin Normalize(s, g)
      /\ "AWAITING" \notin Normalize(s, g)
  BY <1>1, NormalizeMember
<1>3. Provide(s, g) = Normalize(s, g)
  BY <1>1, <1>2 DEF Provide, Pend, Has, DECISION
<1> QED
  BY <1>1, <1>2, <1>3, NormalizeMember DEF Plain

\* call() of a function that gives no answer.
LEMMA CallPlain ==
    ASSUME NEW s \in Plain, NEW r \in Plain, NEW g \in Globals
    PROVE  /\ AfterCall(s, r, g) \in Plain
           /\ \A x : x \in AfterCall(s, r, g) <=>
                 \/ x = "HALTED" /\ g = {"HALTED"}
                 \/ x \in s \cup r /\ ~(x = "SUCCESS" /\ Has(s \cup r, CRITICAL))
<1>1. s \cup r \in SUBSET Flags /\ "AWAITING" \notin s \cup r
      /\ "YES" \notin s \cup r /\ "NO" \notin s \cup r
  BY DEF Plain
<1>2. AfterCall(s, r, g) = Normalize(s \cup r, g)
  BY <1>1 DEF AfterCall
<1> QED
  BY <1>1, <1>2, NormalizeMember DEF Plain

\* The outcomes that most functions provide, spelt out.
LEMMA ProvideOne ==
    ASSUME NEW x \in {"SUCCESS", "FAILURE", "WARNING"}
    PROVE  /\ Provide({x}, {"SUCCESS"}) = {x}
           /\ Provide({x}, {"HALTED"}) = {x, "HALTED"}
<1>1. {x} \in Plain
  BY DEF Plain, Flags
<1>2. ~(x = "SUCCESS" /\ Has({x}, CRITICAL))
  BY DEF Has, CRITICAL
<1>3. {"SUCCESS"} \in Globals /\ {"HALTED"} \in Globals
  BY DEF Globals
<1> QED
  BY <1>1, <1>2, <1>3, ProvidePlain

\* A function that answers yes or no provides a valid answer.
LEMMA ProvideAnswer ==
    ASSUME NEW s \in Plain, NEW d \in DECISION, NEW g \in Globals
    PROVE  /\ Provide(s \cup {d}, g) \in SUBSET Flags
           /\ Valid(Provide(s \cup {d}, g))
           /\ \A x : x \in Provide(s \cup {d}, g) <=>
                 \/ x \in {d, "AWAITING"}
                 \/ x = "HALTED" /\ g = {"HALTED"}
                 \/ x \in s /\ ~(x = "SUCCESS" /\ Has(s, CRITICAL))
<1> DEFINE t == s \cup {d}
           n == Normalize(t, g)
<1>1. t \in SUBSET Flags /\ "AWAITING" \notin t /\ d \in {"YES", "NO"}
  BY DEF Plain, DECISION, Flags
<1>2. Has(t, CRITICAL) <=> Has(s, CRITICAL)
  BY <1>1 DEF Has, CRITICAL
<1>3. ~("YES" \in t /\ "NO" \in t) /\ "YES" \notin s /\ "NO" \notin s
  BY <1>1 DEF Plain
<1>4. n \in SUBSET Flags
      /\ \A x : x \in n <=> \/ x = d
                            \/ x = "HALTED" /\ g = {"HALTED"}
                            \/ x \in s /\ ~(x = "SUCCESS" /\ Has(s, CRITICAL))
  BY <1>1, <1>2, <1>3, NormalizeMember
<1>5. Has(n, DECISION)
  BY <1>1, <1>4 DEF Has, DECISION
<1>6. Provide(t, g) = n \cup {"AWAITING"}
  BY <1>1, <1>4, <1>5 DEF Provide, Pend
<1> HIDE DEF t, n
<1>7. Provide(t, g) \in SUBSET Flags /\ Valid(Provide(t, g))
  BY <1>4, <1>5, <1>6 DEF Flags, Valid, Has, DECISION
<1>8. \A x : x \in Provide(t, g) <=>
                 \/ x \in {d, "AWAITING"}
                 \/ x = "HALTED" /\ g = {"HALTED"}
                 \/ x \in s /\ ~(x = "SUCCESS" /\ Has(s, CRITICAL))
  BY <1>4, <1>6
<1> QED
  BY <1>7, <1>8 DEF t

\* ask(): the answer is yes unless the callee met a problem, and the caller's
\* status takes over everything but the answer.
LEMMA AskPlain ==
    ASSUME NEW s \in Plain, NEW a \in Plain, NEW d \in DECISION, NEW g \in Globals
    PROVE  LET r == Provide(a \cup {d}, g)
           IN  /\ Answer(r, g) <=> d = "YES" /\ ~Has(a, CRITICAL)
               /\ AfterAsk(s, r, g) \in Plain
               /\ \A x : x \in AfterAsk(s, r, g) <=>
                     \/ x = "HALTED" /\ g = {"HALTED"}
                     \/ /\ x \in s \cup a
                        /\ ~(x = "SUCCESS" /\ (Has(s, CRITICAL) \/ Has(a, CRITICAL)))
<1> DEFINE r == Provide(a \cup {d}, g)
           n == Normalize(r, g)
           u == (s \ ({"AWAITING"} \cup DECISION)) \cup Technical[n]
<1>1. /\ r \in SUBSET Flags
      /\ \A x : x \in r <=>
                 \/ x \in {d, "AWAITING"}
                 \/ x = "HALTED" /\ g = {"HALTED"}
                 \/ x \in a /\ ~(x = "SUCCESS" /\ Has(a, CRITICAL))
  BY ProvideAnswer
<1>2. d \in {"YES", "NO"} /\ "YES" \notin a /\ "NO" \notin a /\ "AWAITING" \notin a
  BY DEF Plain, DECISION
<1>3. Has(r, CRITICAL) <=> Has(a, CRITICAL)
  BY <1>1, <1>2 DEF Has, CRITICAL
<1>4. ~("YES" \in r /\ "NO" \in r)
  BY <1>1, <1>2
<1> HIDE DEF r
<1>5. n \in SUBSET Flags
  BY <1>1, NormalizeMember
<1>6. \A x : x \in n <=>
                 \/ x \in {d, "AWAITING"}
                 \/ x = "HALTED" /\ g = {"HALTED"}
                 \/ x \in a /\ ~(x = "SUCCESS" /\ Has(a, CRITICAL))
  BY <1>1, <1>2, <1>3, <1>4, NormalizeMember
<1> HIDE DEF n
<1>7. Valid(n) /\ (Has(n, CRITICAL) <=> Has(a, CRITICAL)) /\ ("YES" \in n <=> d = "YES")
  BY <1>2, <1>6 DEF Valid, Has, DECISION, CRITICAL
<1>8. Answer(r, g) <=> d = "YES" /\ ~Has(a, CRITICAL)
  BY <1>5, <1>7 DEF Answer, Yes, n
<1>9. Technical[n] = n \ ({"AWAITING"} \cup DECISION)
  BY <1>5, <1>7 DEF Technical
<1>10. \A x : x \in u <=>
                 \/ x = "HALTED" /\ g = {"HALTED"}
                 \/ x \in s
                 \/ x \in a /\ ~(x = "SUCCESS" /\ Has(a, CRITICAL))
  BY <1>2, <1>6, <1>9 DEF Plain, DECISION
<1>11. u \in SUBSET Flags
  BY <1>10 DEF Plain, Flags
<1>12. AfterAsk(s, r, g) = Normalize(u, g)
  BY DEF AfterAsk, n
<1>13. Has(u, CRITICAL) <=> Has(s, CRITICAL) \/ Has(a, CRITICAL)
  BY <1>10 DEF Has, CRITICAL
<1>14. "NO" \notin u /\ "YES" \notin u /\ "AWAITING" \notin u
  BY <1>10 DEF Plain
<1> HIDE DEF u
<1>15. \A x : x \in AfterAsk(s, r, g) <=>
                 \/ x = "HALTED" /\ g = {"HALTED"}
                 \/ x \in s \cup a /\ ~(x = "SUCCESS" /\ (Has(s, CRITICAL) \/ Has(a, CRITICAL)))
  BY <1>10, <1>11, <1>12, <1>13, <1>14, NormalizeMember
<1>16. AfterAsk(s, r, g) \in Plain
  BY <1>15 DEF Plain, Flags
<1> QED
  BY <1>8, <1>15, <1>16 DEF r

=============================================================================
