------------------------------ MODULE Catalog ------------------------------
(***************************************************************************)
(* The data precizer keeps about one file, and the pure functions on it:   *)
(* the compact stat (CmpctStat), the row of the table "files" (DBrow), the *)
(* metadata comparison, and what the row decides about the next scan.      *)
(*                                                                         *)
(* Data is abstracted to what the properties tell apart.  A file's content *)
(* is a sequence of read-buffer blocks.  SHA512 is modelled as injective:  *)
(* the SHA512 context is the sequence of blocks fed to it, and a digest is *)
(* the sequence that was finalised.  Offsets count blocks.                 *)
(***************************************************************************)
EXTENDS Integers, Sequences

CONSTANTS
    Files,       \* files below the root, numbered in the order of compare_by_name
    Block,       \* values of one read-buffer block
    NoRow,       \* the path has no row in the table "files"
    NoDigest,    \* the column sha512 is NULL
    ZeroDigest   \* 64 zero bytes: File.sha512 before anything was written to it

ASSUME FilesAssumption == Files \subseteq Nat

ASSUME DigestAssumption ==
    /\ NoDigest # ZeroDigest
    /\ NoDigest \notin Seq(Block)
    /\ ZeroDigest \notin Seq(Block)

\* BLKCNT_UNKNOWN: st_blocks of a row migrated from an older database format.
BLKCNT_UNKNOWN == -1

\* CmpctStat.  Times are ticks of one clock; st_dev and st_ino are stored by
\* the code and compared nowhere.
CmpctStat == [size : Nat, blocks : Int, mtime : Nat, ctime : Nat]

\* Values of the column sha512, and of File.sha512 in memory.
Digest == Seq(Block) \cup {NoDigest, ZeroDigest}

\* One row of "files".  offset = 0 stands for the NULL that a complete row has;
\* mdContext is the sequence hashed so far, empty when the column is NULL.
Row == [stat : CmpctStat, offset : Nat, mdContext : Seq(Block), sha512 : Digest]

ASSUME RowAssumption == NoRow \notin Row

\* The command line switches that the traversal reads, fixed for one run.
Options ==
    [locked        : SUBSET Files,   \* paths matched by --lock-checksum
     ignored       : SUBSET Files,   \* paths matched by --ignore, not by --include
     watch         : BOOLEAN,        \* --watch-timestamps
     rehash_locked : BOOLEAN,        \* --rehash-locked
     dry_run       : BOOLEAN,        \* --dry-run
     checksums     : BOOLEAN]        \* --dry-run=with-checksums

\* What init_config() sets before the command line is read.
DefaultOptions ==
    [locked |-> {}, ignored |-> {}, watch |-> FALSE, rehash_locked |-> FALSE,
     dry_run |-> FALSE, checksums |-> FALSE]

Access == {"ALLOWED", "DENIED", "NOT_FOUND", "ERROR"}

-----------------------------------------------------------------------------
(***************************************************************************)
(* What the saved metadata and the current metadata say about each other.  *)
(***************************************************************************)

\* file_compare_metadata_equivalence(): the set of change flags; {} is IDENTICAL.
Changes(saved, now) ==
    {c \in {"SIZE", "ALLOCATED", "MTIME", "CTIME"} :
        \/ c = "SIZE" /\ saved.size # now.size
        \/ c = "ALLOCATED" /\ saved.blocks # BLKCNT_UNKNOWN /\ saved.blocks # now.blocks
        \/ c = "MTIME" /\ saved.mtime # now.mtime
        \/ c = "CTIME" /\ saved.ctime # now.ctime}

Known(row) == row # NoRow

\* file_metadata_identical: an unknown path is NOT_EQUAL by default.
Identical(row, now) == Known(row) /\ Changes(row.stat, now) = {}

HasSavedOffset(row) == Known(row) /\ row.offset > 0

Complete(row) == Known(row) /\ row.offset = 0

\* The row holds the final digest of a file.
HoldsDigest(row) == Complete(row) /\ row.sha512 # NoDigest

SavedOffset(row) == IF Known(row) THEN row.offset ELSE 0

\* DBrow.sha512 after db_read_file_data_from(): a NULL column leaves the zeroes
\* that the structure was initialised with.
LoadedDigest(row) ==
    IF ~Known(row) \/ row.sha512 = NoDigest THEN ZeroDigest ELSE row.sha512

\* lock_checksum_ready: the row of a checksum-locked file holds its final hash.
LockChecksumReady(locked, row) == locked /\ Known(row) /\ ~HasSavedOffset(row)

=============================================================================
