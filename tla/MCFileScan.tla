----------------------------- MODULE MCFileScan -----------------------------
(***************************************************************************)
(* Small instances of FileScan: contents and command lines for TLC.        *)
(***************************************************************************)
EXTENDS FileScan

CONSTANTS a, b   \* block values

\* Two contents of two blocks with different first blocks, one shorter, one empty.
ShortContents == {<< >>, <<a>>, <<a, b>>, <<b, b>>}

\* With three blocks there are two different partial offsets to resume from.
LongContents == {<<a, a, a>>, <<a, b, a>>, <<b>>}

\* For two files: enough to be changed, to be interrupted and to be empty.
FewContents == {<< >>, <<a, b>>, <<b, b>>}

Plain == DefaultOptions
Watching == [DefaultOptions EXCEPT !.watch = TRUE]
DryWithChecksums == [DefaultOptions EXCEPT !.dry_run = TRUE, !.checksums = TRUE]
Dry == [DefaultOptions EXCEPT !.dry_run = TRUE]
Ignoring == [DefaultOptions EXCEPT !.ignored = {1}]

WatchOptions == {Watching}
DryOptions == {Plain, Dry, DryWithChecksums, Ignoring}
PlainOptions == {Plain}

Locking(o) == [o EXCEPT !.locked = {1}]
Rehashing(o) == [o EXCEPT !.locked = {1}, !.rehash_locked = TRUE]

LockOptions ==
    {Locking(Plain), Locking(Watching), Locking(Ignoring),
     Rehashing(Plain), Rehashing(Watching), Rehashing(DryWithChecksums), Rehashing(Dry)}

RehashOptions == {Rehashing(Plain)}

=============================================================================
