------------------------------ MODULE MCMemory ------------------------------
(***************************************************************************)
(* Strings and sizes for the runs of Memory.                               *)
(***************************************************************************)
EXTENDS Memory

SomeTexts == {<<>>, <<1>>, <<2, 1>>}

\* Nothing, less and more than a block, and the end of size_t.
SomeCounts == {0, 1, 2, 4, SIZE_MAX}

=============================================================================
