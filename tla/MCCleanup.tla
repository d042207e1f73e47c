----------------------------- MODULE MCCleanup -----------------------------
(***************************************************************************)
(* Small instances of Cleanup: command lines for TLC.                      *)
(***************************************************************************)
EXTENDS Cleanup

CONSTANTS root1, root2   \* model values for the roots

Updating ==
    [update |-> TRUE, dry_run |-> FALSE, locked |-> {}, ignored |-> {},
     drop_ignored |-> FALSE, drop_inaccessible |-> FALSE]

\* Every combination of the switches for two paths, of which 1 may be locked.
AllOptions ==
    {o \in CleanupOptions : o.update /\ o.locked \subseteq {1}}
        \cup {[Updating EXCEPT !.update = FALSE]}

PlainUpdate == {Updating}

=============================================================================
