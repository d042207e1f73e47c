---------------------------- MODULE ReturnStatus ----------------------------
(***************************************************************************)
(* The Return flags of libs/rational and the macros provide(), run(),      *)
(* call() and ask(), through which every function of precizer passes its   *)
(* outcome.  A Return is the set of the flags that are set; g stands for   *)
(* global_return_status, which the signal handler sets to HALTED.          *)
(***************************************************************************)

Flags == {"FAILURE", "SUCCESS", "HALTED", "WARNING", "DONOTHING", "INFO",
          "YES", "NO", "AWAITING"}

CRITICAL == {"WARNING", "FAILURE"}
TRIUMPH  == {"SUCCESS", "HALTED", "DONOTHING", "INFO"}
GLOBAL   == {"INFO", "WARNING", "HALTED"}
DECISION == {"YES", "NO"}
SKIP     == {"WARNING", "FAILURE", "HALTED"}

Has(s, mask) == s \cap mask # {}

\* The two contradictions: CRITICAL excludes SUCCESS, NO excludes YES.
Settle ==
    [s \in SUBSET Flags |->
        {x \in s : ~(x = "SUCCESS" /\ Has(s, CRITICAL)) /\ ~(x = "YES" /\ "NO" \in s)}]

\* rational_normalize_return()
Normalize(s, g) == Settle[Settle[s] \cup (Settle[g] \cap GLOBAL)]

\* A fresh yes/no answer is marked as pending.
Pend == [r \in SUBSET Flags |-> IF Has(r, DECISION) THEN r \cup {"AWAITING"} ELSE r]

\* provide(status): what the function returns.
Provide(s, g) == IF "AWAITING" \in s THEN {"FAILURE"} ELSE Pend[Normalize(s, g)]

\* call(func): the caller's status after the callee returned r.
AfterCall(s, r, g) ==
    IF "AWAITING" \in s \cup r THEN {"FAILURE"} ELSE Normalize(s \cup r, g)

\* ask(expr) evaluates its expression only then.
Asks(s) == ~Has(s, SKIP) \/ "AWAITING" \in s

\* rational_ask(): the answer, and the caller's status, for the returned r.
Valid(r) == "AWAITING" \in r /\ Has(r, DECISION)

Yes == [n \in SUBSET Flags |-> Valid(n) /\ ~Has(n, CRITICAL) /\ "YES" \in n]

Answer(r, g) == Yes[Normalize(r, g)]

\* The technical bits that the answer carries.
Technical == [n \in SUBSET Flags |->
                IF Valid(n) THEN n \ ({"AWAITING"} \cup DECISION) ELSE {"FAILURE"}]

\* Mutant of AfterAsk: the answer stays in the caller's status.
AfterAskKeepingAnswer(s, r, g) == Normalize(s \cup Normalize(r, g), g)

AfterAsk(s, r, g) ==
    Normalize((s \ ({"AWAITING"} \cup DECISION)) \cup Technical[Normalize(r, g)], g)

=============================================================================
