---------------------------- MODULE MCTraversal ----------------------------
(***************************************************************************)
(* Two trees for the run of Traversal: r holds the directories d and e and *)
(* the file a; d holds the file b, a directory f with the file c, and a    *)
(* link; s holds one file.                                                 *)
(***************************************************************************)
EXTENDS Traversal

CONSTANTS r, s, d, e, f, a, b, c, x, l

TwoRoots == <<r, s>>

SomeEntries ==
    [n \in {r, s, d, e, f} |->
        CASE n = r -> <<a, d, e>>
          [] n = d -> <<b, f, l>>
          [] n = f -> <<c>>
          [] n = s -> <<x>>
          [] OTHER -> <<>>]

SomeAbove ==
    [n \in {r, s, d, e, f, a, b, c, x, l} |->
        CASE n \in {r, s}    -> {}
          [] n = x           -> {s}
          [] n \in {a, d, e} -> {r}
          [] n = c           -> {r, d, f}
          [] OTHER           -> {r, d}]

Plain ==
    [ignore |-> {}, include |-> {}, include_specified |-> FALSE, lock_checksum |-> FALSE,
     maxdepth |-> -1, progress |-> FALSE]

\* d and what is below it is ignored, with and without patterns that want some of it.
Ignoring == [Plain EXCEPT !.ignore = {d, b, f, c}]

SomeOptions ==
    {Plain,
     [Plain EXCEPT !.progress = TRUE],
     [Plain EXCEPT !.maxdepth = 1],
     [Plain EXCEPT !.maxdepth = 0, !.progress = TRUE],
     Ignoring,
     [Ignoring EXCEPT !.progress = TRUE],
     [Ignoring EXCEPT !.include_specified = TRUE, !.include = {c}],
     [Ignoring EXCEPT !.lock_checksum = TRUE],
     [Ignoring EXCEPT !.lock_checksum = TRUE, !.progress = TRUE]}

=============================================================================
