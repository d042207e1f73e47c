----------------------------- MODULE MCCompare -----------------------------
(***************************************************************************)
(* Filters and states of the files for the run of Compare.                 *)
(***************************************************************************)
EXTENDS Compare

CONSTANTS p1, p2, x, y

\* The visible path has any content; the hidden one is there or not.
SomeDatabases ==
    {t \in [Sides -> [Paths -> Content]] : \A i \in Sides : t[i][p2] \in {"no row", x}}

SomeFilters ==
    {{}, {"checksum-mismatch"}, {"first-source", "second-source"}}

\* Both good, the first of another version, the second missing or damaged.
SomeConditions ==
    {<<"SUCCESS", "SUCCESS">>, <<"WARNING", "SUCCESS">>, <<"SUCCESS", "FAILURE">>}

=============================================================================
