---------------------------- MODULE AtomicBatch ----------------------------
(***************************************************************************)
(* What precizer promises about a database that it writes in batches.      *)
(* Changes are collected one key at a time and become durable together.    *)
(* A batch that no technical failure has met ends in one way only: all     *)
(* that was saved becomes durable, after Ctrl+C too.  Changes are thrown   *)
(* away only by a failure, or because the process is killed; after a       *)
(* failure nothing more of the batch becomes durable.                      *)
(***************************************************************************)
EXTENDS Naturals

CONSTANTS Keys, Values

VARIABLES
    durable,   \* what a new connection reads
    working,   \* what the writing connection reads
    phase,     \* "closed", "open", or "broken" after a technical failure
    faults     \* technical failures and kills so far

vars == <<durable, working, phase, faults>>

Init ==
    /\ durable \in [Keys -> Values]
    /\ working = durable
    /\ phase = "closed"
    /\ faults = 0

Fault == faults' = faults + 1

\* A batch that is broken already needs no new failure to go on being so.
FaultOrBroken == Fault \/ (phase = "broken" /\ UNCHANGED faults)

Open ==
    /\ phase = "closed"
    /\ phase' = "open"
    /\ UNCHANGED <<durable, working, faults>>

ChangeOf(k) ==
    /\ working'[k] \in Values
    /\ working' = [working EXCEPT ![k] = working'[k]]

\* A change that is not durable yet.
Put(k) ==
    /\ phase = "open" /\ ChangeOf(k)
    /\ UNCHANGED <<durable, phase, faults>>

\* All changes so far become durable, together with at most one more.
Publish ==
    /\ phase = "open"
    /\ working' = working \/ \E k \in Keys : ChangeOf(k)
    /\ durable' = working'
    /\ UNCHANGED <<phase, faults>>

\* A technical failure breaks the batch, or shows in one that is broken.
Break ==
    /\ phase # "closed"
    /\ FaultOrBroken
    /\ phase' = "broken"
    /\ working' \in {working, durable}
    /\ UNCHANGED durable

\* A failure that does not concern the batch.
Tolerate == Fault /\ UNCHANGED <<durable, working, phase>>

\* The end without a failure: everything that was saved is durable.
Close ==
    /\ phase = "open"
    /\ phase' = "closed"
    /\ durable' = working
    /\ UNCHANGED <<working, faults>>

\* The end of a broken batch, or the failure or the kill that is the end of one.
Discard ==
    /\ FaultOrBroken
    /\ phase' = "closed"
    /\ working' = durable
    /\ UNCHANGED durable

Next ==
    \/ Open \/ (\E k \in Keys : Put(k)) \/ Publish \/ Break \/ Tolerate
    \/ Close \/ Discard

Spec == Init /\ [][Next]_vars

=============================================================================
