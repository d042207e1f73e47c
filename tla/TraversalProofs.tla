-------------------------- MODULE TraversalProofs --------------------------
(***************************************************************************)
(* Proofs about the walk over the directory trees, for any forest, any     *)
(* filters and depth limit, any changes of permissions and any faults.     *)
(***************************************************************************)
EXTENDS Traversal, ReturnStatusProofs, SequenceTheorems, FiniteSetTheorems

-----------------------------------------------------------------------------
(***************************************************************************)
(* The status of the loop.                                                 *)
(***************************************************************************)

\* What the status of file_list() can be.
Statuses == {{"SUCCESS"}, {"FAILURE"}, {"SUCCESS", "HALTED"}, {"FAILURE", "HALTED"}}

\* A status with the HALTED of the process.
Merged(s, h) == s \cup (h \ {"SUCCESS"})

\* Every helper leaves SUCCESS or FAILURE, and HALTED if the process was halted.
LEMMA StatusFacts ==
    ASSUME NEW s \in Statuses, NEW h \in Globals
    PROVE  /\ Provide({"SUCCESS"}, h) = Merged({"SUCCESS"}, h)
           /\ Provide({"FAILURE"}, h) = Merged({"FAILURE"}, h)
           /\ AfterCall(s, Provide({"SUCCESS"}, h), h) = Merged(s, h)
           /\ Normalize(s, h) = Merged(s, h)
           /\ Merged(s, h) \in Statuses
<1>1. s \in Plain /\ {"SUCCESS"} \in Plain /\ {"FAILURE"} \in Plain
  BY DEF Statuses, Plain, Flags
<1>2. \A x : x \in h \ {"SUCCESS"} <=> x = "HALTED" /\ h = {"HALTED"}
  BY DEF Globals
<1>3. Provide({"SUCCESS"}, h) = Merged({"SUCCESS"}, h)
      /\ Provide({"FAILURE"}, h) = Merged({"FAILURE"}, h)
  BY ProvideOne, <1>2 DEF Globals, Merged
<1>4. Provide({"SUCCESS"}, h) \in Plain
  BY <1>1, ProvidePlain
<1>5. "SUCCESS" \in s => ~Has(s, CRITICAL)
  BY DEF Statuses, Has, CRITICAL
<1>6. \A x : x \in AfterCall(s, Provide({"SUCCESS"}, h), h) <=> x \in Merged(s, h)
  <2>1. Has(s \cup Provide({"SUCCESS"}, h), CRITICAL) <=> "SUCCESS" \notin s
    BY <1>2, <1>3 DEF Statuses, Has, CRITICAL, Merged
  <2> QED
    BY <1>1, <1>2, <1>3, <1>4, <2>1, CallPlain DEF Merged
<1>7. \A x : x \in Normalize(s, h) <=> x \in Merged(s, h)
  BY <1>1, <1>2, <1>5, NormalizeMember DEF Plain, Merged
<1>8. Merged(s, h) \in Statuses
  BY DEF Statuses, Globals, Merged
<1> QED
  BY <1>3, <1>6, <1>7, <1>8

-----------------------------------------------------------------------------
(***************************************************************************)
(* The invariants.                                                         *)
(***************************************************************************)

\* The loop goes on.
Looping == pc \in {"root", "read", "enter", "handle", "process"}

\* A HALTED, in the status or outside, comes from the signal handler, which has set
\* the flag as well; without one the loop goes on after SUCCESS only.
StatusInv ==
    /\ status \in Statuses /\ g \in Globals
    /\ g = {"HALTED"} \/ "HALTED" \in status => flag
    /\ ~flag /\ (Looping \/ faults = 0) => status = {"SUCCESS"}

\* The buffer holds the path of the entry, unless the status says otherwise.
PathInv ==
    /\ pc = "handle" /\ status = {"SUCCESS"} => path = entry.node
    /\ pc = "process" => path = entry.node

\* No directory on the way to n should have been pruned.
Open(n) == opt.include_specified \/ opt.lock_checksum \/ Above[n] \cap opt.ignore = {}

\* Nor should d have been.
Opens(d) ==
    opt.include_specified \/ opt.lock_checksum \/ (Above[d] \cup {d}) \cap opt.ignore = {}

\* What FTS says of an entry is so, and the entry was not to be pruned.
Fetched(e) ==
    /\ e.info = "D" => e.node \in Dirs
    /\ e.info = "F" => e.node \in Files
    /\ e.info = "SL" => e.node \in Links
    /\ Open(e.node)

\* Everything that FTS holds may be visited.  The decision about a directory is
\* wrong when it was made with a stale path; then nothing is read any more.
WalkInv ==
    /\ \A i \in 1 .. Len(left) : Above[left[i]] = {}
    /\ \A i \in 1 .. Len(queue) : Fetched(queue[i])
    /\ pc \in {"enter", "handle", "process"} => Fetched(entry)
    /\ pc \in {"handle", "process"} => ~TooDeep(entry.node)
    /\ pc = "process" => entry.info = "F"
    /\ unread # None /\ ~flag => Opens(unread)
    /\ \A f \in visited \cup counted : ~FilteredOut(f)

\* What holds of the walk whatever happens.
TraversalInv == TypeOK /\ StatusInv /\ PathInv /\ WalkInv

\* Nothing has stopped the walk or made it fail.
Calm == ~flag /\ faults = 0

\* f is n, or below it.
Leads(n, f) == f = n \/ n \in Above[f]

\* The walk still has f before it.
Ahead(f) ==
    \/ pc \notin {"finish", "done"} /\ \E i \in 1 .. Len(left) : Leads(left[i], f)
    \/ pc \in {"read", "enter", "handle", "process"}
       /\ \E i \in 1 .. Len(queue) : Leads(queue[i].node, f)
    \/ pc = "read" /\ unread # None /\ Leads(unread, f)
    \/ pc \in {"enter", "handle"} /\ Leads(entry.node, f)

\* The pass has taken up f or reported why it could not.
Dealt(f) ==
    \/ FilteredOut(f)
    \/ pass = "stats" /\ (f \in counted \/ changes > 0)
    \/ pass = "content" /\ (f \in visited \/ (Above[f] \cup {f}) \cap reported # {})

\* No file is lost.
Covered == \A f \in Files : Dealt(f) \/ Ahead(f)

\* Between its steps the walk holds no entry that it would drop.
Tidy ==
    /\ pc \in {"root", "close", "finish"} => queue = <<>>
    /\ pc # "read" => unread = None
    /\ pc = "handle" => entry.info = "D" \/ pass = "content"
    /\ pc = "done" => pass = "content"

\* The statistics pass has counted what the filters let through.
CountedAll ==
    pass = "content" /\ opt.progress /\ changes = 0 =>
        \A f \in Files : f \in counted \/ FilteredOut(f)

CoverInv == Calm => Covered /\ Tidy /\ CountedAll

\* Without a change of permissions nothing is denied.
Usual(e) == e.info \in {"D", "F", "SL"}

QuietInv ==
    changes = 0 =>
        /\ \A d \in Dirs : perm[d] = "ok"
        /\ \A i \in 1 .. Len(queue) : Usual(queue[i])
        /\ pc \in {"enter", "handle", "process"} => Usual(entry)
        /\ Calm => reported = {}

-----------------------------------------------------------------------------
(***************************************************************************)
(* What FTS has read.                                                      *)
(***************************************************************************)

\* What FTS returns.
FTSENT == [info : {"D", "F", "SL", "DNR", "NS"}, node : Nodes]

\* fts_info agrees with the node.
Described(e) ==
    /\ e.info = "D" => e.node \in Dirs
    /\ e.info = "F" => e.node \in Files
    /\ e.info = "SL" => e.node \in Links

\* The first element of a queue and the others.
LEMMA HeadAndTail ==
    ASSUME NEW S, NEW s \in Seq(S), s # <<>>
    PROVE  /\ Head(s) \in S /\ Tail(s) \in Seq(S)
           /\ \E i \in 1 .. Len(s) : s[i] = Head(s)
           /\ \A j \in 1 .. Len(Tail(s)) : \E i \in 1 .. Len(s) : s[i] = Tail(s)[j]
           /\ \A i \in 1 .. Len(s) :
                 s[i] = Head(s) \/ \E j \in 1 .. Len(Tail(s)) : s[i] = Tail(s)[j]
<1>1. /\ Head(s) \in S /\ Tail(s) \in Seq(S) /\ Len(Tail(s)) = Len(s) - 1
      /\ \A i \in 1 .. Len(Tail(s)) : Tail(s)[i] = s[i + 1]
  BY HeadTailProperties
<1>2. Len(s) \in Nat /\ Len(s) >= 1 /\ Head(s) = s[1]
  BY EmptySeq, LenProperties
<1>3. \E i \in 1 .. Len(s) : s[i] = Head(s)
  BY <1>2
<1>4. ASSUME NEW j \in 1 .. Len(Tail(s))
      PROVE  \E i \in 1 .. Len(s) : s[i] = Tail(s)[j]
  <2>1. j + 1 \in 1 .. Len(s) /\ Tail(s)[j] = s[j + 1]
    BY <1>1, <1>2, <1>4
  <2> QED
    BY <2>1
<1>5. ASSUME NEW i \in 1 .. Len(s)
      PROVE  s[i] = Head(s) \/ \E j \in 1 .. Len(Tail(s)) : s[i] = Tail(s)[j]
  <2>1. CASE i = 1
    BY <1>2, <2>1
  <2>2. CASE i # 1
    <3>1. i - 1 \in 1 .. Len(Tail(s)) /\ Tail(s)[i - 1] = s[i - 1 + 1] /\ i - 1 + 1 = i
      BY <1>1, <1>2, <1>5, <2>2
    <3> QED
      BY <3>1
  <2> QED
    BY <2>1, <2>2
<1> QED
  BY <1>1, <1>3, <1>4, <1>5

\* The entries of a directory are told apart as they should be.
LEMMA InfoFacts ==
    ASSUME NEW d \in Dirs, NEW n \in Nodes, perm[d] \in Permissions
    PROVE  /\ [info |-> Info(d, n), node |-> n] \in FTSENT
           /\ Described([info |-> Info(d, n), node |-> n])
           /\ perm[d] = "ok" => Usual([info |-> Info(d, n), node |-> n])
<1>1. n \in Dirs \/ n \in Files \/ n \in Links
  BY DEF Nodes
<1>2. n \in Files => n \notin Dirs /\ n \notin Links
  BY TreeAssumption
<1>3. n \in Links => n \notin Dirs
  BY TreeAssumption
<1>4. Info(d, n) = IF perm[d] = "unsearchable" THEN "NS"
                   ELSE IF n \in Dirs THEN "D" ELSE IF n \in Files THEN "F" ELSE "SL"
  BY <1>1, <1>2, <1>3 DEF Info
<1> QED
  BY <1>1, <1>2, <1>3, <1>4 DEF FTSENT, Described, Usual

\* Reading a directory yields entries that lead to everything below it, and the
\* directory itself if it cannot be read.
LEMMA ReadFacts ==
    ASSUME perm \in [Dirs -> Permissions], NEW d \in Dirs
    PROVE  /\ ReadDirectory(d) \in Seq(FTSENT)
           /\ \A i \in 1 .. Len(ReadDirectory(d)) :
                /\ Described(ReadDirectory(d)[i])
                /\ \/ ReadDirectory(d)[i].node = d
                   \/ Above[ReadDirectory(d)[i].node] = Above[d] \cup {d}
                /\ (\A a \in Dirs : perm[a] = "ok") => Usual(ReadDirectory(d)[i])
           /\ \A f \in Files : Leads(d, f) =>
                \E i \in 1 .. Len(ReadDirectory(d)) : Leads(ReadDirectory(d)[i].node, f)
<1> DEFINE rd == ReadDirectory(d)
<1>1. d \in Nodes
  BY DEF Nodes
<1>2. Entries[d] \in Seq(Nodes) /\ Len(Entries[d]) \in Nat
      /\ \A i \in 1 .. Len(Entries[d]) : Entries[d][i] \in Nodes
  BY TreeAssumption, ElementOfSeq, LenProperties
<1>3. CASE ~Listable(d)
  <2>1. rd = <<[info |-> "DNR", node |-> d]>> /\ [info |-> "DNR", node |-> d] \in FTSENT
    BY <1>1, <1>3 DEF ReadDirectory, FTSENT
  <2>2. rd \in Seq(FTSENT) /\ Len(rd) = 1 /\ rd[1] = [info |-> "DNR", node |-> d]
    BY <2>1
  <2>3. ~\A a \in Dirs : perm[a] = "ok"
    BY <1>3, TreeAssumption, <1>1 DEF Listable, Reachable
  <2> HIDE DEF rd
  <2>4. \A i \in 1 .. Len(rd) : i = 1
    BY <2>2
  <2>5. Described(rd[1]) /\ rd[1].node = d
    BY <2>2 DEF Described
  <2> QED
    BY <2>2, <2>3, <2>4, <2>5 DEF rd
<1>4. CASE Listable(d)
  <2>1. rd = [i \in 1 .. Len(Entries[d]) |-> [info |-> Info(d, Entries[d][i]), node |-> Entries[d][i]]]
    BY <1>4 DEF ReadDirectory
  <2>2. \A i \in 1 .. Len(Entries[d]) :
            /\ [info |-> Info(d, Entries[d][i]), node |-> Entries[d][i]] \in FTSENT
            /\ Described([info |-> Info(d, Entries[d][i]), node |-> Entries[d][i]])
            /\ perm[d] = "ok" => Usual([info |-> Info(d, Entries[d][i]), node |-> Entries[d][i]])
    BY <1>2, InfoFacts
  <2> HIDE DEF rd
  <2>3. rd \in Seq(FTSENT) /\ Len(rd) = Len(Entries[d])
    <3>1. PICK n \in Nat : n = Len(Entries[d])
      BY <1>2
    <3>2. rd \in [1 .. n -> FTSENT]
      BY <2>1, <2>2, <3>1
    <3> QED
      BY <3>1, <3>2
  <2>4. \A i \in 1 .. Len(rd) :
            /\ rd[i] = [info |-> Info(d, Entries[d][i]), node |-> Entries[d][i]]
            /\ rd[i].node = Entries[d][i]
            /\ Described(rd[i])
            /\ perm[d] = "ok" => Usual(rd[i])
            /\ Above[rd[i].node] = Above[d] \cup {d}
    BY <2>1, <2>2, <2>3, TreeAssumption
  <2>5. ASSUME NEW f \in Files, Leads(d, f)
        PROVE  \E i \in 1 .. Len(rd) : Leads(rd[i].node, f)
    <3>1. f \in Nodes /\ f # d
      BY <2>5, TreeAssumption DEF Nodes
    <3>2. d \in Above[f]
      BY <2>5, <3>1 DEF Leads
    <3>3. PICK i \in 1 .. Len(Entries[d]) : Entries[d][i] \in Above[f] \cup {f}
      BY <3>1, <3>2, TreeAssumption
    <3> QED
      BY <2>3, <2>4, <3>3 DEF Leads
  <2> QED
    BY <2>3, <2>4, <2>5 DEF rd
<1> QED
  BY <1>3, <1>4

\* What can be said of the entries that FTS will return next.
LEMMA PendingFacts ==
    ASSUME TypeOK, WalkInv
    PROVE  /\ Pending \in Seq(FTSENT)
           /\ ~flag => \A i \in 1 .. Len(Pending) : Fetched(Pending[i])
           /\ QuietInv /\ changes = 0 => \A i \in 1 .. Len(Pending) : Usual(Pending[i])
           /\ \A f \in Files :
                \/ \E i \in 1 .. Len(queue) : Leads(queue[i].node, f)
                \/ unread # None /\ Leads(unread, f)
                => \E i \in 1 .. Len(Pending) : Leads(Pending[i].node, f)
<1>1. queue \in Seq(FTSENT) /\ Len(queue) \in Nat /\ perm \in [Dirs -> Permissions]
      /\ unread \in Dirs \cup {None}
  BY DEF TypeOK, FTSENT
<1>2. CASE unread = None
  <2>1. Pending = queue
    BY <1>2 DEF Pending
  <2> QED
    BY <1>1, <1>2, <2>1 DEF WalkInv, QuietInv
<1>3. CASE unread # None
  <2> DEFINE rd == ReadDirectory(unread)
  <2>1. unread \in Dirs /\ unread \in Nodes
    BY <1>1, <1>3 DEF Nodes
  <2>2. Pending = rd \o queue
    BY <1>3 DEF Pending
  <2>3. /\ rd \in Seq(FTSENT) /\ Len(rd) \in Nat
        /\ \A i \in 1 .. Len(rd) :
                /\ rd[i] \in FTSENT
                /\ Described(rd[i])
                /\ rd[i].node = unread \/ Above[rd[i].node] = Above[unread] \cup {unread}
                /\ (\A a \in Dirs : perm[a] = "ok") => Usual(rd[i])
        /\ \A f \in Files : Leads(unread, f) => \E i \in 1 .. Len(rd) : Leads(rd[i].node, f)
    BY <1>1, <2>1, ReadFacts, ElementOfSeq, LenProperties
  <2> HIDE DEF rd
  <2>4. /\ Pending \in Seq(FTSENT)
        /\ Len(Pending) = Len(rd) + Len(queue)
        /\ \A i \in 1 .. Len(Pending) :
              Pending[i] = IF i <= Len(rd) THEN rd[i] ELSE queue[i - Len(rd)]
    BY <1>1, <2>2, <2>3, ConcatProperties
  <2>5. ASSUME NEW i \in 1 .. Len(Pending)
        PROVE  \/ \E j \in 1 .. Len(rd) : Pending[i] = rd[j]
               \/ \E j \in 1 .. Len(queue) : Pending[i] = queue[j]
    <3>1. CASE i <= Len(rd)
      BY <2>3, <2>4, <2>5, <3>1
    <3>2. CASE ~(i <= Len(rd))
      <4>1. i - Len(rd) \in 1 .. Len(queue) /\ Pending[i] = queue[i - Len(rd)]
        BY <1>1, <2>3, <2>4, <2>5, <3>2
      <4> QED
        BY <4>1
    <3> QED
      BY <3>1, <3>2
  <2>6. ASSUME NEW j \in 1 .. Len(rd)
        PROVE  j \in 1 .. Len(Pending) /\ Pending[j] = rd[j]
    BY <1>1, <2>3, <2>4, <2>6
  <2>7. ASSUME NEW j \in 1 .. Len(queue)
        PROVE  j + Len(rd) \in 1 .. Len(Pending) /\ Pending[j + Len(rd)] = queue[j]
    <3>1. j + Len(rd) \in 1 .. Len(Pending) /\ ~(j + Len(rd) <= Len(rd)) /\ j + Len(rd) - Len(rd) = j
      BY <1>1, <2>3, <2>4, <2>7
    <3> QED
      BY <2>4, <3>1
  <2>8. ASSUME ~flag, NEW j \in 1 .. Len(rd)
        PROVE  Fetched(rd[j])
    <3>1. Opens(unread)
      BY <1>3, <2>8 DEF WalkInv
    <3>2. Open(rd[j].node)
      BY <2>3, <2>8, <3>1 DEF Opens, Open
    <3> QED
      BY <2>3, <2>8, <3>2 DEF Fetched, Described
  <2>9. ~flag => \A i \in 1 .. Len(Pending) : Fetched(Pending[i])
    BY <2>5, <2>8 DEF WalkInv
  <2>10. QuietInv /\ changes = 0 => \A i \in 1 .. Len(Pending) : Usual(Pending[i])
    BY <2>3, <2>5 DEF QuietInv
  <2>11. ASSUME NEW f \in Files,
                \/ \E i \in 1 .. Len(queue) : Leads(queue[i].node, f)
                \/ unread # None /\ Leads(unread, f)
         PROVE  \E i \in 1 .. Len(Pending) : Leads(Pending[i].node, f)
    <3>1. CASE \E i \in 1 .. Len(queue) : Leads(queue[i].node, f)
      BY <2>7, <3>1
    <3>2. CASE Leads(unread, f)
      BY <2>3, <2>6, <3>2
    <3> QED
      BY <2>11, <3>1, <3>2
  <2> QED
    BY <2>4, <2>9, <2>10, <2>11
<1> QED
  BY <1>2, <1>3

-----------------------------------------------------------------------------
(***************************************************************************)
(* The filters.                                                            *)
(***************************************************************************)

\* A directory is not deeper than what is below it.
LEMMA LevelFacts ==
    ASSUME NEW f \in Nodes, NEW d \in Above[f]
    PROVE  d \in Nodes /\ Level(d) \in Nat /\ Level(f) \in Nat /\ Level(d) <= Level(f)
<1>1. d \in Nodes /\ Above[d] \subseteq Above[f] /\ IsFiniteSet(Above[f]) /\ IsFiniteSet(Above[d])
  BY TreeAssumption DEF Nodes
<1> QED
  BY <1>1, FS_Subset, FS_CardinalityType DEF Level

\* What the filters and the depth limit do to a file, seen from the file and from
\* the directories on the way to it.
LEMMA FilterFacts ==
    ASSUME opt \in Options, NEW f \in Files
    PROVE  /\ Open(f) /\ ~TooDeep(f) => ~FilteredOut(f)
           /\ TooDeep(f) => FilteredOut(f)
           /\ \A d \in Above[f] : TooDeep(d) => FilteredOut(f)
           /\ \A d \in Above[f] :
                 ~opt.include_specified /\ ~opt.lock_checksum /\ Ignored(d) => FilteredOut(f)
<1>1. f \in Nodes /\ opt.maxdepth \in Int
  BY TraversalAssumption DEF Nodes, Option
<1>2. Open(f) /\ ~TooDeep(f) => ~FilteredOut(f)
  BY DEF Open, TooDeep, FilteredOut
<1>3. TooDeep(f) => FilteredOut(f)
  BY DEF TooDeep, FilteredOut
<1>4. ASSUME NEW d \in Above[f], TooDeep(d)
      PROVE  FilteredOut(f)
  <2>1. Level(d) \in Nat /\ Level(f) \in Nat /\ Level(d) <= Level(f)
    BY <1>1, LevelFacts
  <2>2. opt.maxdepth > -1 /\ Level(d) > opt.maxdepth + 1
    BY <1>4 DEF TooDeep
  <2>3. Level(f) > opt.maxdepth + 1
    BY <1>1, <2>1, <2>2
  <2> QED
    BY <2>2, <2>3 DEF FilteredOut
<1>5. ASSUME NEW d \in Above[f], ~opt.include_specified, ~opt.lock_checksum, Ignored(d)
      PROVE  FilteredOut(f)
  BY <1>5 DEF FilteredOut, Ignored
<1> QED
  BY <1>2, <1>3, <1>4, <1>5

\* A directory that is read was not to be pruned.
LEMMA DescendsOpens ==
    ASSUME opt \in Options, NEW d \in Nodes, Open(d), Descends(d)
    PROVE  Opens(d)
<1>1. opt.include # {} => opt.include_specified
  BY TraversalAssumption
<1>2. CASE Ignored(d)
  BY <1>2 DEF Descends, Opens
<1>3. CASE ~Ignored(d)
  BY <1>1, <1>3 DEF Ignored, Open, Opens
<1> QED
  BY <1>2, <1>3

-----------------------------------------------------------------------------
(***************************************************************************)
(* What holds of the walk whatever happens: one lemma for each action.     *)
(***************************************************************************)

\* Both passes start at the first root with nothing in hand.
LEMMA WalkInit == ASSUME Init PROVE TraversalInv
<1>1. Head(Roots) \in Dirs /\ Roots \in Seq(Dirs)
  BY TreeAssumption, HeadAndTail
<1>2. TypeOK
  <2>1. <<>> \in Seq([info : {"D", "F", "SL", "DNR", "NS"}, node : Nodes])
        /\ entry \in [info : {"D", "F", "SL", "DNR", "NS"}, node : Nodes]
    BY <1>1 DEF Init, Nodes
  <2>2. {"SUCCESS"} \subseteq Flags
    BY DEF Flags
  <2> QED
    BY <1>1, <2>1, <2>2 DEF Init, TypeOK, Permissions
<1>3. StatusInv
  BY DEF Init, StatusInv, Statuses, Globals
<1>4. PathInv /\ WalkInv
  BY TreeAssumption DEF Init, PathInv, WalkInv
<1> QED
  BY <1>2, <1>3, <1>4 DEF TraversalInv

\* directory_open_root(), fts_open().
LEMMA WalkOpenRoot == ASSUME TraversalInv, OpenRoot PROVE TraversalInv'
<1> USE DEF TraversalInv
<1>1. /\ left \in Seq(Dirs) /\ left # <<>>
      /\ Head(left) \in Dirs /\ left' = Tail(left) /\ left' \in Seq(Dirs)
      /\ Above[Head(left)] = {}
      /\ \A i \in 1 .. Len(left') : Above[left'[i]] = {}
  <2>1. left \in Seq(Dirs) /\ left # <<>> /\ left' = Tail(left)
    BY DEF OpenRoot, TypeOK
  <2>2. /\ Head(left) \in Dirs /\ Tail(left) \in Seq(Dirs)
        /\ \E i \in 1 .. Len(left) : left[i] = Head(left)
        /\ \A j \in 1 .. Len(Tail(left)) : \E i \in 1 .. Len(left) : left[i] = Tail(left)[j]
    BY <2>1, HeadAndTail
  <2> QED
    BY <2>1, <2>2 DEF WalkInv
<1>2. PICK root : root = Head(left)
  OBVIOUS
<1>3. PICK e : e = [info |-> IF perm[root] = "gone" THEN "NS" ELSE "D", node |-> root]
  OBVIOUS
<1>4. root \in Dirs /\ root \in Nodes /\ Above[root] = {}
  BY <1>1, <1>2 DEF Nodes
<1>5. e \in FTSENT /\ Fetched(e)
  BY <1>3, <1>4 DEF FTSENT, Fetched, Open
<1>6. queue' = queue \/ queue' = <<e>>
  BY <1>2, <1>3 DEF OpenRoot
<1>7. queue' \in Seq(FTSENT) /\ \A i \in 1 .. Len(queue') : Fetched(queue'[i])
  <2>1. queue \in Seq(FTSENT) /\ \A i \in 1 .. Len(queue) : Fetched(queue[i])
    BY DEF TypeOK, FTSENT, WalkInv
  <2>2. <<e>> \in Seq(FTSENT) /\ Len(<<e>>) = 1 /\ <<e>>[1] = e
    BY <1>5
  <2> QED
    BY <1>5, <1>6, <2>1, <2>2
<1>8. /\ reported' \subseteq Nodes \cup {None} /\ pc' \in {"root", "read"} /\ pc = "root"
      /\ UNCHANGED <<envVars, pass, unread, entry, path, status, sigVars, active, counted,
                     visited, broken, faults>>
  BY <1>2, <1>4 DEF OpenRoot, TypeOK
<1>9. TypeOK'
  BY <1>1, <1>7, <1>8 DEF TypeOK, FTSENT, envVars, sigVars
<1>10. StatusInv' /\ PathInv'
  BY <1>8 DEF StatusInv, PathInv, Looping, sigVars
<1>11. WalkInv'
  BY <1>1, <1>7, <1>8 DEF WalkInv, Fetched, Open, Opens, FilteredOut, envVars, sigVars
<1> QED
  BY <1>9, <1>10, <1>11

\* fts_read() and the interrupt check.
LEMMA WalkReadEntry == ASSUME TraversalInv, ReadEntry PROVE TraversalInv'
<1> USE DEF TraversalInv
<1>1. /\ pc = "read" /\ unread' = None
      /\ UNCHANGED <<envVars, pass, left, path, status, sigVars, active, obsVars, faults>>
  BY DEF ReadEntry
<1>2. /\ Pending \in Seq(FTSENT)
      /\ ~flag => \A i \in 1 .. Len(Pending) : Fetched(Pending[i])
  BY PendingFacts
<1>3. CASE Pending = <<>> \/ flag
  <2>1. pc' = "close" /\ queue' = <<>> /\ entry' = entry
    BY <1>3 DEF ReadEntry
  <2>2. <<>> \in Seq(FTSENT) /\ Len(<<>>) = 0
    OBVIOUS
  <2>3. TypeOK'
    BY <1>1, <2>1, <2>2 DEF TypeOK, FTSENT, envVars, sigVars, obsVars
  <2>4. StatusInv' /\ PathInv'
    BY <1>1, <2>1 DEF StatusInv, PathInv, Looping, sigVars
  <2>5. WalkInv'
    BY <1>1, <2>1, <2>2 DEF WalkInv, Fetched, Open, Opens, FilteredOut, envVars, sigVars, obsVars
  <2> QED
    BY <2>3, <2>4, <2>5
<1>4. CASE ~(Pending = <<>> \/ flag)
  <2>1. pc' = "enter" /\ queue' = Tail(Pending) /\ entry' = Head(Pending)
    BY <1>4 DEF ReadEntry
  <2>2. /\ Head(Pending) \in FTSENT /\ Tail(Pending) \in Seq(FTSENT)
        /\ \E i \in 1 .. Len(Pending) : Pending[i] = Head(Pending)
        /\ \A j \in 1 .. Len(Tail(Pending)) :
              \E i \in 1 .. Len(Pending) : Pending[i] = Tail(Pending)[j]
    BY <1>2, <1>4, HeadAndTail
  <2>3. entry' \in FTSENT /\ queue' \in Seq(FTSENT) /\ Fetched(entry')
        /\ \A j \in 1 .. Len(queue') : Fetched(queue'[j])
    BY <1>2, <1>4, <2>1, <2>2
  <2>4. TypeOK'
    BY <1>1, <2>1, <2>3 DEF TypeOK, FTSENT, envVars, sigVars, obsVars
  <2>5. StatusInv' /\ PathInv'
    BY <1>1, <2>1 DEF StatusInv, PathInv, Looping, sigVars
  <2>6. WalkInv'
    BY <1>1, <2>1, <2>3 DEF WalkInv, Fetched, Open, Opens, FilteredOut, envVars, sigVars, obsVars
  <2> QED
    BY <2>4, <2>5, <2>6
<1> QED
  BY <1>3, <1>4

\* fts_read() fails.
LEMMA WalkFtsFails == ASSUME TraversalInv, FtsFails PROVE TraversalInv'
<1> USE DEF TraversalInv
<1>1. /\ pc' = "close" /\ queue' = <<>> /\ unread' = None /\ faults' = faults + 1 /\ broken' = TRUE
      /\ UNCHANGED <<envVars, pass, left, entry, path, status, sigVars, active, counted,
                     visited, reported>>
  BY DEF FtsFails
<1>2. <<>> \in Seq(FTSENT) /\ Len(<<>>) = 0 /\ faults' \in Nat /\ faults' # 0
  BY <1>1 DEF TypeOK
<1>3. TypeOK'
  BY <1>1, <1>2 DEF TypeOK, FTSENT, envVars, sigVars
<1>4. StatusInv' /\ PathInv'
  BY <1>1, <1>2 DEF StatusInv, PathInv, Looping, sigVars
<1>5. WalkInv'
  BY <1>1, <1>2 DEF WalkInv, Fetched, Open, Opens, FilteredOut, envVars, sigVars
<1> QED
  BY <1>3, <1>4, <1>5

\* db_file_transaction_check() adds no more than HALTED.
LEMMA CheckedFacts ==
    ASSUME StatusInv
    PROVE  /\ Checked \in Statuses
           /\ AfterCall(Checked, Provide({"SUCCESS"}, g), g) \in Statuses
           /\ g = {"SUCCESS"} =>
                /\ Checked = status
                /\ AfterCall(Checked, Provide({"SUCCESS"}, g), g) = status
           /\ g # {"SUCCESS"} => flag
           /\ Has(Checked, SKIP) => Checked # {"SUCCESS"}
<1>1. status \in Statuses /\ g \in Globals /\ g # {"SUCCESS"} => flag
  BY DEF StatusInv, Globals
<1>2. Checked \in {status, Merged(status, g)}
  BY <1>1, StatusFacts DEF Checked, StatusInv
<1>3. Checked \in Statuses
  BY <1>1, <1>2, StatusFacts DEF StatusInv
<1>4. AfterCall(Checked, Provide({"SUCCESS"}, g), g) = Merged(Checked, g)
      /\ Merged(Checked, g) \in Statuses
  BY <1>1, <1>3, StatusFacts DEF StatusInv
<1>5. g = {"SUCCESS"} => Merged(status, g) = status
  BY DEF Merged
<1>6. {"SUCCESS"} \cap SKIP = {}
  BY DEF SKIP
<1> QED
  BY <1>1, <1>2, <1>3, <1>4, <1>5, <1>6 DEF Has, StatusInv, Globals

\* The head of the loop body.
LEMMA WalkEnterEntry == ASSUME TraversalInv, EnterEntry PROVE TraversalInv'
<1> USE DEF TraversalInv
<1>1. /\ pc = "enter" /\ pc' \in {"read", "handle"}
      /\ UNCHANGED <<envVars, pass, ftsVars, entry, sigVars, active, visited, reported, broken,
                     faults>>
  BY DEF EnterEntry
<1>2. /\ entry \in FTSENT /\ entry.node \in Nodes /\ Fetched(entry)
      /\ entry.info = "F" => entry.node \in Files
  BY <1>1 DEF TypeOK, FTSENT, WalkInv, Fetched
<1>3. \/ status' = Checked
      \/ status' = AfterCall(Checked, Provide({"SUCCESS"}, g), g)
  BY DEF EnterEntry
<1>4. status' \in Statuses /\ (~flag => status' = status)
  BY <1>3, CheckedFacts DEF StatusInv, Globals
<1>5. path' \in {path, entry.node} /\ path' \in Nodes \cup {None}
  BY <1>2 DEF EnterEntry, TypeOK
<1>6. pc' = "handle" /\ status' = {"SUCCESS"} => path' = entry.node
  BY CheckedFacts DEF EnterEntry
<1>7. pc' = "handle" => ~TooDeep(entry.node)
  BY DEF EnterEntry
<1>8. /\ counted' \subseteq Files
      /\ \A f \in counted' : f \in counted \/ ~FilteredOut(f)
  <2>1. CASE counted' = counted
    BY <2>1 DEF TypeOK
  <2>2. CASE counted' # counted
    <3>1. ~TooDeep(entry.node) /\ entry.info = "F" /\ counted' = counted \cup {entry.node}
      BY <2>2 DEF EnterEntry
    <3>2. ~FilteredOut(entry.node)
      BY <1>2, <3>1, FilterFacts DEF TypeOK, Fetched
    <3> QED
      BY <1>2, <3>1, <3>2 DEF TypeOK
  <2> QED
    BY <2>1, <2>2
<1>9. status' \subseteq Flags
  BY <1>4 DEF Statuses, Flags
<1>10. TypeOK'
  BY <1>1, <1>5, <1>8, <1>9 DEF TypeOK, envVars, sigVars, ftsVars
<1>11. StatusInv'
  <2>1. "HALTED" \in status' => flag
    BY <1>4 DEF StatusInv
  <2> QED
    BY <1>1, <1>4, <2>1 DEF StatusInv, Looping, sigVars
<1>12. PathInv'
  BY <1>1, <1>6 DEF PathInv
<1>13. WalkInv'
  BY <1>1, <1>2, <1>7, <1>8
  DEF WalkInv, Fetched, Open, Opens, TooDeep, FilteredOut, envVars, sigVars, ftsVars
<1> QED
  BY <1>10, <1>11, <1>12, <1>13

\* FTS_D: the filters and directory_access_verify() decide whether FTS descends.
LEMMA WalkHandleDirectory == ASSUME TraversalInv, HandleDirectory PROVE TraversalInv'
<1> USE DEF TraversalInv
<1>1. /\ pc = "handle" /\ entry.info = "D" /\ pc' = "read"
      /\ status' = Provide({"SUCCESS"}, g)
      /\ unread' = (IF Descends(path) THEN entry.node ELSE None)
      /\ UNCHANGED <<envVars, pass, left, queue, entry, path, sigVars, active, counted, visited,
                     broken, faults>>
  BY DEF HandleDirectory
<1>2. entry.node \in Dirs /\ entry.node \in Nodes /\ Open(entry.node)
  BY <1>1 DEF WalkInv, Fetched, Nodes
<1>3. status' = Merged({"SUCCESS"}, g) /\ status' \in Statuses
  <2>1. {"SUCCESS"} \in Statuses /\ g \in Globals
    BY DEF Statuses, StatusInv
  <2> QED
    BY <1>1, <2>1, StatusFacts
<1>4. /\ "HALTED" \in status' => flag
      /\ ~flag => status' = {"SUCCESS"}
      /\ status' \subseteq Flags
  BY <1>3 DEF StatusInv, Merged, Globals, Statuses, Flags
<1>5. reported' \subseteq Nodes \cup {None}
  BY DEF HandleDirectory, TypeOK
<1>6. unread' # None /\ ~flag => unread' = entry.node /\ Opens(entry.node)
  <2>1. ~flag => path = entry.node
    BY <1>1 DEF StatusInv, PathInv, Looping
  <2> QED
    BY <1>1, <1>2, <2>1, DescendsOpens DEF TypeOK
<1>7. TypeOK'
  BY <1>1, <1>2, <1>4, <1>5 DEF TypeOK, envVars, sigVars
<1>8. StatusInv'
  BY <1>1, <1>3, <1>4 DEF StatusInv, Looping, sigVars
<1>9. PathInv'
  BY <1>1 DEF PathInv
<1>10. WalkInv'
  BY <1>1, <1>6 DEF WalkInv, Fetched, Open, Opens, FilteredOut, envVars, sigVars
<1> QED
  BY <1>7, <1>8, <1>9, <1>10

\* FTS_F in the content pass: the row that is read is that of the entry.
LEMMA WalkHandleFile == ASSUME TraversalInv, HandleFile PROVE TraversalInv'
<1> USE DEF TraversalInv
<1>1. /\ pc = "handle" /\ entry.info = "F"
      /\ UNCHANGED <<envVars, pass, ftsVars, entry, path, status, sigVars, active, counted,
                     reported, broken, faults>>
  BY DEF HandleFile
<1>2. entry.node \in Files /\ Open(entry.node) /\ ~TooDeep(entry.node) /\ opt \in Options
  BY <1>1 DEF WalkInv, Fetched, TypeOK
<1>3. ~FilteredOut(entry.node)
  BY <1>2, FilterFacts
<1>4. \/ status = {"SUCCESS"} /\ pc' = "process" /\ path = entry.node
         /\ visited' = visited \cup {entry.node}
      \/ status # {"SUCCESS"} /\ pc' = "close" /\ visited' = visited
  BY <1>1 DEF HandleFile, RowIsRead, PathInv
<1>5. TypeOK'
  BY <1>1, <1>2, <1>4 DEF TypeOK, envVars, sigVars, ftsVars
<1>6. StatusInv'
  BY <1>1, <1>4 DEF StatusInv, Looping, sigVars
<1>7. PathInv'
  BY <1>1, <1>4 DEF PathInv
<1>8. WalkInv'
  BY <1>1, <1>3, <1>4
  DEF WalkInv, Fetched, Open, Opens, TooDeep, FilteredOut, envVars, sigVars, ftsVars
<1> QED
  BY <1>5, <1>6, <1>7, <1>8

\* FileScan's part of the loop.
LEMMA WalkProcessFile == ASSUME TraversalInv, ProcessFile PROVE TraversalInv'
<1> USE DEF TraversalInv
<1>1. /\ pc = "process" /\ pc' = "read" /\ status' = Normalize(status, g) /\ active' \in {active, TRUE}
      /\ UNCHANGED <<envVars, pass, ftsVars, entry, path, sigVars, obsVars, faults>>
  BY DEF ProcessFile
<1>2. status' = Merged(status, g) /\ status' \in Statuses
  BY <1>1, StatusFacts DEF StatusInv
<1>3. /\ "HALTED" \in status' => flag
      /\ ~flag => status' = status /\ status = {"SUCCESS"}
      /\ status' \subseteq Flags
  BY <1>1, <1>2 DEF StatusInv, Merged, Globals, Statuses, Flags, Looping
<1>4. TypeOK'
  BY <1>1, <1>3 DEF TypeOK, envVars, sigVars, ftsVars, obsVars
<1>5. StatusInv'
  BY <1>1, <1>2, <1>3 DEF StatusInv, Looping, sigVars
<1>6. PathInv'
  BY <1>1 DEF PathInv
<1>7. WalkInv'
  BY <1>1 DEF WalkInv, Fetched, Open, Opens, FilteredOut, envVars, sigVars, ftsVars, obsVars
<1> QED
  BY <1>4, <1>5, <1>6, <1>7

\* FTS_DNR, FTS_ERR and FTS_NS.
LEMMA WalkHandleError == ASSUME TraversalInv, HandleError PROVE TraversalInv'
<1> USE DEF TraversalInv
<1>1. /\ pc = "handle" /\ pc' = "read" /\ reported' = reported \cup {path}
      /\ UNCHANGED <<envVars, pass, ftsVars, entry, path, status, sigVars, active, counted,
                     visited, broken, faults>>
  BY DEF HandleError
<1>2. TypeOK'
  BY <1>1 DEF TypeOK, envVars, sigVars, ftsVars
<1>3. StatusInv' /\ PathInv'
  BY <1>1 DEF StatusInv, PathInv, Looping, sigVars
<1>4. WalkInv'
  BY <1>1 DEF WalkInv, Fetched, Open, Opens, FilteredOut, envVars, sigVars, ftsVars
<1> QED
  BY <1>2, <1>3, <1>4

\* A failing helper ends the loop, or comes with HALTED and is taken for a triumph.
LEMMA WalkStepFails == ASSUME TraversalInv, StepFails PROVE TraversalInv'
<1> USE DEF TraversalInv
<1>1. /\ faults' = faults + 1 /\ faults' \in Nat /\ faults' # 0
      /\ UNCHANGED <<envVars, pass, ftsVars, entry, path, sigVars, active, obsVars>>
  BY DEF StepFails, TypeOK
<1>2. Failing = Merged({"FAILURE"}, g) /\ Failing \in Statuses
      /\ Provide({"SUCCESS"}, g) = Merged({"SUCCESS"}, g) /\ Merged({"SUCCESS"}, g) \in Statuses
  <2>1. {"FAILURE"} \in Statuses /\ {"SUCCESS"} \in Statuses /\ g \in Globals
    BY DEF Statuses, StatusInv
  <2> QED
    BY <2>1, StatusFacts DEF Failing
<1>3. Has(Failing, TRIUMPH) => g = {"HALTED"} /\ flag
  BY <1>2 DEF Has, TRIUMPH, Merged, Globals, StatusInv
<1>4. \/ status' = Failing /\ pc' = "close"
      \/ /\ pc = "enter" /\ ~TooDeep(entry.node) /\ pc' = "handle"
         /\ Has(Failing, TRIUMPH) /\ status' = Failing
      \/ /\ pc' = "read" /\ Has(Failing, TRIUMPH)
         /\ status' \in {Failing, Merged({"SUCCESS"}, g)}
  BY <1>2 DEF StepFails
<1>5. /\ status' \in {Failing, Merged({"SUCCESS"}, g)} /\ status' \in Statuses
      /\ pc' \in {"close", "handle", "read"}
      /\ "HALTED" \in status' => flag
      /\ pc' # "close" => flag
  BY <1>2, <1>3, <1>4 DEF Merged, Globals, StatusInv
<1>6. status' \subseteq Flags
  BY <1>5 DEF Statuses, Flags
<1>7. TypeOK'
  BY <1>1, <1>5, <1>6 DEF TypeOK, envVars, sigVars, ftsVars, obsVars
<1>8. StatusInv'
  BY <1>1, <1>5 DEF StatusInv, Looping, sigVars
<1>9. PathInv'
  BY <1>2, <1>4 DEF PathInv, Merged
<1>10. WalkInv'
  BY <1>1, <1>4
  DEF WalkInv, Fetched, Open, Opens, TooDeep, FilteredOut, envVars, sigVars, ftsVars, obsVars
<1> QED
  BY <1>7, <1>8, <1>9, <1>10

\* fts_close(), and the decision to open another root.
LEMMA WalkCloseRoot == ASSUME TraversalInv, CloseRoot PROVE TraversalInv'
<1> USE DEF TraversalInv
<1>1. /\ pc = "close" /\ pc' = (IF flag \/ "SUCCESS" \notin status THEN "finish" ELSE "root")
      /\ queue' = <<>> /\ unread' = None
      /\ UNCHANGED <<envVars, pass, left, entry, path, status, sigVars, active, obsVars, faults>>
  BY DEF CloseRoot
<1>2. <<>> \in Seq(FTSENT) /\ Len(<<>>) = 0
  OBVIOUS
<1>3. TypeOK'
  BY <1>1, <1>2 DEF TypeOK, FTSENT, envVars, sigVars, obsVars
<1>4. pc' = "root" => status = {"SUCCESS"}
  BY <1>1 DEF StatusInv, Statuses
<1>5. StatusInv' /\ PathInv'
  BY <1>1, <1>4 DEF StatusInv, PathInv, Looping, sigVars
<1>6. WalkInv'
  BY <1>1, <1>2 DEF WalkInv, Fetched, Open, Opens, FilteredOut, envVars, sigVars, obsVars
<1> QED
  BY <1>3, <1>5, <1>6

\* All roots have been walked.
LEMMA WalkNoRootLeft == ASSUME TraversalInv, NoRootLeft PROVE TraversalInv'
<1> USE DEF TraversalInv
<1>1. /\ pc = "root" /\ pc' = "finish"
      /\ UNCHANGED <<envVars, pass, ftsVars, entry, path, status, sigVars, active, obsVars,
                     faults>>
  BY DEF NoRootLeft
<1>2. TypeOK'
  BY <1>1 DEF TypeOK, envVars, sigVars, ftsVars, obsVars
<1>3. StatusInv' /\ PathInv'
  BY <1>1 DEF StatusInv, PathInv, Looping, sigVars
<1>4. WalkInv'
  BY <1>1 DEF WalkInv, Fetched, Open, Opens, FilteredOut, envVars, sigVars, ftsVars, obsVars
<1> QED
  BY <1>2, <1>3, <1>4

\* The end of a pass, and the start of the second one.
LEMMA WalkFinish == ASSUME TraversalInv, Finish PROVE TraversalInv'
<1> USE DEF TraversalInv
<1>1. PICK st : st = AfterCall(status, Provide({"SUCCESS"}, g), g)
  OBVIOUS
<1>2. /\ pc = "finish" /\ active' = FALSE /\ path' = None
      /\ \/ /\ pass = "stats" /\ ~Has(st, SKIP) /\ pc' = "root" /\ pass' = "content"
            /\ left' = Roots /\ status' = {"SUCCESS"}
         \/ /\ ~(pass = "stats" /\ ~Has(st, SKIP)) /\ pc' = "done" /\ status' = st
            /\ UNCHANGED <<pass, left>>
      /\ UNCHANGED <<envVars, queue, unread, entry, sigVars, obsVars, faults>>
  BY <1>1 DEF Finish
<1>3. st = Merged(status, g) /\ st \in Statuses
  BY <1>1, StatusFacts DEF StatusInv
<1>4. /\ Roots \in Seq(Dirs) /\ \A i \in 1 .. Len(Roots) : Above[Roots[i]] = {}
  BY TreeAssumption
<1>5. /\ status' \in Statuses /\ ("HALTED" \in status' => flag)
      /\ ~flag /\ faults = 0 => status' = {"SUCCESS"}
  BY <1>2, <1>3 DEF StatusInv, Merged, Globals, Statuses
<1>6. status' \subseteq Flags
  BY <1>5 DEF Statuses, Flags
<1>7. TypeOK'
  BY <1>2, <1>4, <1>6 DEF TypeOK, envVars, sigVars, obsVars
<1>8. StatusInv'
  BY <1>2, <1>5 DEF StatusInv, Looping, sigVars
<1>9. PathInv'
  BY <1>2 DEF PathInv
<1>10. WalkInv'
  BY <1>2, <1>4 DEF WalkInv, Fetched, Open, Opens, FilteredOut, envVars, sigVars, obsVars
<1> QED
  BY <1>7, <1>8, <1>9, <1>10

\* The signal handler, and somebody who changes permissions.
LEMMA WalkEnvironment ==
    ASSUME TraversalInv, Interrupt \/ ChangePermissions PROVE TraversalInv'
<1> USE DEF TraversalInv
<1>1. CASE Interrupt
  <2>1. /\ flag' = TRUE /\ g' \in {g, {"HALTED"}} /\ {"HALTED"} \subseteq Flags
        /\ UNCHANGED <<envVars, pass, pc, ftsVars, entry, path, status, active, obsVars, faults>>
    BY <1>1 DEF Interrupt, Flags
  <2>2. TypeOK'
    BY <2>1 DEF TypeOK, envVars, ftsVars, obsVars
  <2>3. StatusInv' /\ PathInv'
    BY <2>1 DEF StatusInv, PathInv, Looping, Globals
  <2>4. WalkInv'
    BY <2>1 DEF WalkInv, Fetched, Open, Opens, TooDeep, FilteredOut, envVars, ftsVars, obsVars
  <2> QED
    BY <2>2, <2>3, <2>4
<1>2. CASE ChangePermissions
  <2>1. /\ changes' = changes + 1 /\ perm' \in [Dirs -> Permissions] /\ changes' \in Nat
        /\ UNCHANGED <<opt, pass, pc, ftsVars, entry, path, status, sigVars, active, obsVars,
                       faults>>
    BY <1>2 DEF ChangePermissions, TypeOK
  <2>2. TypeOK'
    BY <2>1 DEF TypeOK, sigVars, ftsVars, obsVars
  <2>3. StatusInv' /\ PathInv'
    BY <2>1 DEF StatusInv, PathInv, Looping, sigVars
  <2>4. WalkInv'
    BY <2>1 DEF WalkInv, Fetched, Open, Opens, TooDeep, FilteredOut, sigVars, ftsVars, obsVars
  <2> QED
    BY <2>2, <2>3, <2>4
<1> QED
  BY <1>1, <1>2

\* Every step keeps it.
LEMMA WalkStep == ASSUME TraversalInv, [Next]_vars PROVE TraversalInv'
<1>1. CASE Next
  BY <1>1, WalkOpenRoot, WalkReadEntry, WalkEnterEntry, WalkHandleDirectory, WalkHandleFile,
     WalkProcessFile, WalkHandleError, WalkCloseRoot, WalkNoRootLeft, WalkFinish, WalkFtsFails,
     WalkStepFails, WalkEnvironment DEF Next, Program
<1>2. CASE UNCHANGED vars
  BY <1>2 DEF TraversalInv, TypeOK, StatusInv, PathInv, WalkInv, Looping, Fetched, Open, Opens,
     TooDeep, FilteredOut, vars
<1> QED
  BY <1>1, <1>2

\* It holds throughout.
LEMMA WalkInvariant == Spec => []TraversalInv
<1>1. Init => TraversalInv
  BY WalkInit
<1>2. TraversalInv /\ [Next]_vars => TraversalInv'
  BY WalkStep
<1> QED
  BY <1>1, <1>2, PTL DEF Spec

\* The row that db_read_file_data_from() looks up is the row of the entry that FTS
\* returned, although an interrupt leaves the path of another entry in the buffer.
THEOREM PathStaysWithEntry == Spec => []PathIsOfEntry
<1>1. TraversalInv => PathIsOfEntry
  BY DEF TraversalInv, PathInv, PathIsOfEntry
<1> QED
  BY <1>1, WalkInvariant, PTL

-----------------------------------------------------------------------------
(***************************************************************************)
(* Without a change of permissions.                                        *)
(***************************************************************************)

\* While nothing is denied, every directory can be read and entered.
LEMMA QuietFacts ==
    ASSUME QuietInv, changes = 0, NEW d \in Dirs
    PROVE  Listable(d) /\ AccessAllowed(d)
<1>1. Above[d] \subseteq Dirs /\ perm[d] = "ok"
  BY TreeAssumption DEF Nodes, QuietInv
<1>2. Reachable(d)
  BY <1>1 DEF Reachable, QuietInv
<1> QED
  BY <1>1, <1>2 DEF Listable, AccessAllowed

\* An interrupt and a failure are not forgotten.
LEMMA CalmFacts ==
    ASSUME TypeOK, [Next]_vars, Calm'
    PROVE  Calm /\ ~FtsFails /\ ~StepFails /\ ~Interrupt
<1>1. faults \in Nat /\ faults' = 0 /\ ~flag'
  BY DEF TypeOK, Calm
<1>2. ~FtsFails /\ ~StepFails /\ ~Interrupt
  BY <1>1 DEF FtsFails, StepFails, Interrupt
<1>3. CASE OpenRoot \/ ReadEntry \/ EnterEntry \/ HandleDirectory \/ HandleFile
  BY <1>1, <1>2, <1>3 DEF OpenRoot, ReadEntry, EnterEntry, HandleDirectory, HandleFile, sigVars, Calm
<1>4. CASE ProcessFile \/ HandleError \/ CloseRoot \/ NoRootLeft \/ Finish
  <2>1. UNCHANGED <<sigVars, faults>>
    BY <1>4 DEF ProcessFile, HandleError, CloseRoot, NoRootLeft, Finish
  <2> QED
    BY <1>1, <1>2, <2>1 DEF sigVars, Calm
<1>5. CASE ChangePermissions \/ UNCHANGED vars
  BY <1>1, <1>2, <1>5 DEF ChangePermissions, sigVars, vars, Calm
<1> QED
  BY <1>2, <1>3, <1>4, <1>5 DEF Next, Program

\* As long as nobody changes a permission, nothing is reported by a calm walk.
LEMMA QuietStep ==
    ASSUME TraversalInv, QuietInv, [Next]_vars
    PROVE  QuietInv'
<1> SUFFICES ASSUME changes' = 0
             PROVE  /\ \A d \in Dirs : perm'[d] = "ok"
                    /\ \A i \in 1 .. Len(queue') : Usual(queue'[i])
                    /\ pc' \in {"enter", "handle", "process"} => Usual(entry')
                    /\ Calm' => reported' = {}
  BY DEF QuietInv, Usual
<1>1. ~ChangePermissions
  BY DEF ChangePermissions, TraversalInv, TypeOK
<1>2. changes = 0 /\ perm' = perm
  BY <1>1 DEF Next, Program, OpenRoot, ReadEntry, EnterEntry, HandleDirectory, HandleFile,
     ProcessFile, HandleError, CloseRoot, NoRootLeft, Finish, FtsFails, StepFails, Interrupt,
     envVars, vars
<1>3. Calm' => Calm
  BY CalmFacts DEF TraversalInv
<1>4. /\ \A d \in Dirs : perm[d] = "ok"
      /\ \A i \in 1 .. Len(queue) : Usual(queue[i])
      /\ pc \in {"enter", "handle", "process"} => Usual(entry)
      /\ Calm => reported = {}
  BY <1>2 DEF QuietInv
<1>5. CASE OpenRoot
  <2>1. left # <<>> /\ Head(left) \in Dirs
    BY <1>5, HeadAndTail DEF OpenRoot, TraversalInv, TypeOK
  <2>2. Listable(Head(left)) /\ perm[Head(left)] = "ok"
    BY <1>2, <2>1, QuietFacts DEF QuietInv
  <2>3. queue' = <<[info |-> "D", node |-> Head(left)]>> /\ reported' = reported /\ pc' = "read"
    BY <1>5, <2>2 DEF OpenRoot
  <2>4. Len(queue') = 1 /\ queue'[1].info = "D"
    BY <2>3
  <2>5. \A i \in 1 .. Len(queue') : i = 1
    BY <2>4
  <2> QED
    BY <1>2, <1>3, <1>4, <2>3, <2>4, <2>5 DEF Usual
<1>6. CASE ReadEntry
  <2>1. /\ Pending \in Seq(FTSENT)
        /\ \A i \in 1 .. Len(Pending) : Usual(Pending[i])
    BY <1>2, PendingFacts DEF TraversalInv
  <2>2. reported' = reported
    BY <1>6 DEF ReadEntry, obsVars
  <2>3. CASE pc' = "close" /\ queue' = <<>>
    <3>1. Len(queue') = 0
      BY <2>3
    <3> QED
      BY <1>2, <1>3, <1>4, <2>2, <2>3, <3>1
  <2>4. CASE Pending # <<>> /\ queue' = Tail(Pending) /\ entry' = Head(Pending)
    <3>1. /\ \E i \in 1 .. Len(Pending) : Pending[i] = Head(Pending)
          /\ \A j \in 1 .. Len(Tail(Pending)) :
                \E i \in 1 .. Len(Pending) : Pending[i] = Tail(Pending)[j]
      BY <2>1, <2>4, HeadAndTail
    <3>2. Usual(entry') /\ \A j \in 1 .. Len(queue') : Usual(queue'[j])
      BY <2>1, <2>4, <3>1
    <3> QED
      BY <1>2, <1>3, <1>4, <2>2, <3>2
  <2> QED
    BY <1>6, <2>3, <2>4 DEF ReadEntry
<1>7. CASE HandleDirectory
  <2>1. pc = "handle" /\ entry.info = "D" /\ pc' = "read" /\ queue' = queue
    BY <1>7 DEF HandleDirectory
  <2>2. Calm => path = entry.node /\ entry.node \in Dirs
    BY <2>1 DEF Calm, TraversalInv, StatusInv, PathInv, WalkInv, Fetched
  <2>3. Calm => AccessAllowed(path)
    BY <1>2, <2>2, QuietFacts
  <2>4. Calm => reported' = reported
    BY <1>7, <2>3 DEF HandleDirectory
  <2> QED
    BY <1>2, <1>3, <1>4, <2>1, <2>4
<1>8. CASE HandleError
  BY <1>4, <1>8 DEF HandleError, Usual
<1>9. CASE CloseRoot \/ FtsFails
  <2>1. queue' = <<>> /\ pc' \in {"close", "finish", "root"} /\ reported' = reported
    BY <1>9 DEF CloseRoot, FtsFails, obsVars
  <2>2. Len(queue') = 0
    BY <2>1
  <2> QED
    BY <1>2, <1>3, <1>4, <2>1, <2>2
<1>10. CASE EnterEntry \/ HandleFile \/ ProcessFile \/ NoRootLeft \/ Finish \/ StepFails \/ Interrupt
            \/ UNCHANGED vars
  <2>1. queue' = queue /\ entry' = entry /\ reported' = reported
    BY <1>10 DEF EnterEntry, HandleFile, ProcessFile, NoRootLeft, Finish, StepFails, Interrupt,
       ftsVars, obsVars, vars
  <2>2. pc' \in {"enter", "handle", "process"} => pc \in {"enter", "handle", "process"}
    BY <1>10 DEF EnterEntry, HandleFile, ProcessFile, NoRootLeft, Finish, StepFails, Interrupt, vars
  <2> QED
    BY <1>2, <1>3, <1>4, <2>1, <2>2
<1> QED
  BY <1>1, <1>5, <1>6, <1>7, <1>8, <1>9, <1>10 DEF Next, Program

-----------------------------------------------------------------------------
(***************************************************************************)
(* A calm walk loses no file: one lemma for each action.                   *)
(***************************************************************************)

\* What has been dealt with stays so.
LEMMA DealtStays ==
    ASSUME TypeOK, opt' = opt, pass' = pass, counted \subseteq counted', visited \subseteq visited',
           reported \subseteq reported', changes' \in {changes, changes + 1},
           NEW f \in Files, Dealt(f)
    PROVE  Dealt(f)'
<1>1. changes > 0 => changes' > 0
  BY DEF TypeOK
<1>2. FilteredOut(f) => FilteredOut(f)'
  BY DEF FilteredOut
<1> QED
  BY <1>1, <1>2 DEF Dealt

\* What has been counted stays so.
LEMMA CountedStays ==
    ASSUME TypeOK, CountedAll, opt' = opt, pass' = pass, counted \subseteq counted',
           changes' \in {changes, changes + 1}
    PROVE  CountedAll'
<1>1. changes' = 0 => changes = 0
  BY DEF TypeOK
<1> QED
  BY <1>1 DEF CountedAll, FilteredOut

\* In a calm walk the status is SUCCESS and the path is that of the entry.
LEMMA CalmStatus ==
    ASSUME TraversalInv, Calm
    PROVE  /\ status = {"SUCCESS"} /\ g = {"SUCCESS"} /\ ~flag
           /\ pc \in {"handle", "process"} => path = entry.node
BY DEF TraversalInv, StatusInv, PathInv, Calm, Globals

\* A file is neither a directory nor a link.
LEMMA FileFacts ==
    ASSUME NEW f \in Files
    PROVE  /\ f \in Nodes /\ Above[f] \subseteq Dirs
           /\ \A d \in Dirs : Leads(d, f) => d \in Above[f]
           /\ \A n \in Links : ~Leads(n, f)
           /\ \A n \in Files : Leads(n, f) => n = f
BY TreeAssumption DEF Nodes, Leads

\* A root that cannot be opened is reported, any other one goes to FTS.
LEMMA CoverOpenRoot ==
    ASSUME TraversalInv, Calm, Covered, Tidy, CountedAll, OpenRoot
    PROVE  (Covered /\ Tidy /\ CountedAll)'
<1>1. PICK root : root = Head(left)
  OBVIOUS
<1>2. /\ left \in Seq(Dirs) /\ left # <<>> /\ root \in Dirs /\ left' = Tail(left)
      /\ \A i \in 1 .. Len(left) :
            left[i] = root \/ \E j \in 1 .. Len(left') : left[i] = left'[j]
  BY <1>1, HeadAndTail DEF OpenRoot, TraversalInv, TypeOK
<1>3. /\ pc = "root" /\ unread' = unread
      /\ UNCHANGED <<opt, pass, counted, visited, changes, entry>>
      /\ \/ pass = "content" /\ reported' = reported \cup {root} /\ pc' = "root" /\ queue' = queue
         \/ /\ reported' = reported /\ pc' = "read"
            /\ \E e \in FTSENT : e.node = root /\ queue' = <<e>>
  <2>1. [info |-> IF perm[root] = "gone" THEN "NS" ELSE "D", node |-> root] \in FTSENT
    BY <1>2 DEF FTSENT, Nodes
  <2> QED
    BY <1>1, <2>1 DEF OpenRoot, envVars
<1>4. ASSUME NEW f \in Files
      PROVE  Dealt(f)' \/ Ahead(f)'
  <2>1. CASE Dealt(f)
    BY <1>3, <2>1, DealtStays DEF TraversalInv
  <2>2. CASE \E i \in 1 .. Len(left) : Leads(left[i], f)
    <3>1. CASE Leads(root, f)
      <4>1. root \in Above[f]
        BY <1>2, <3>1, FileFacts
      <4>2. CASE reported' = reported \cup {root} /\ pass = "content"
        BY <1>3, <4>1, <4>2 DEF Dealt
      <4>3. CASE pc' = "read" /\ \E e \in FTSENT : e.node = root /\ queue' = <<e>>
        <5>1. Len(queue') = 1 /\ queue'[1].node = root
          BY <4>3
        <5>2. \E i \in 1 .. Len(queue') : Leads(queue'[i].node, f)
          BY <3>1, <5>1
        <5> QED
          BY <4>3, <5>2 DEF Ahead, Leads
      <4> QED
        BY <1>3, <4>2, <4>3
    <3>2. CASE \E j \in 1 .. Len(left') : Leads(left'[j], f)
      BY <1>3, <3>2 DEF Ahead, Leads
    <3> QED
      BY <1>2, <2>2, <3>1, <3>2
  <2> QED
    BY <1>3, <2>1, <2>2 DEF Covered, Ahead
<1>5. Covered'
  BY <1>4 DEF Covered
<1>6. Tidy'
  BY <1>3 DEF Tidy
<1> QED
  BY <1>3, <1>5, <1>6, CountedStays DEF TraversalInv

\* The entry at hand and those behind it are what FTS held.
LEMMA CoverReadEntry ==
    ASSUME TraversalInv, Calm, Covered, Tidy, CountedAll, ReadEntry
    PROVE  (Covered /\ Tidy /\ CountedAll)'
<1>1. /\ pc = "read" /\ unread' = None /\ pc' \in {"close", "enter"}
      /\ UNCHANGED <<opt, pass, left, counted, visited, reported, changes>>
      /\ pc' = "close" => queue' = <<>>
  BY DEF ReadEntry, envVars, obsVars
<1>2. ~flag
  BY DEF Calm
<1>3. /\ Pending \in Seq(FTSENT)
      /\ \A f \in Files :
                \/ \E i \in 1 .. Len(queue) : Leads(queue[i].node, f)
                \/ unread # None /\ Leads(unread, f)
                => \E i \in 1 .. Len(Pending) : Leads(Pending[i].node, f)
  BY PendingFacts DEF TraversalInv
<1>4. ASSUME NEW f \in Files
      PROVE  Dealt(f)' \/ Ahead(f)'
  <2>1. CASE Dealt(f)
    BY <1>1, <2>1, DealtStays DEF TraversalInv
  <2>2. CASE \E i \in 1 .. Len(left) : Leads(left[i], f)
    BY <1>1, <2>2 DEF Ahead, Leads
  <2>3. CASE \E i \in 1 .. Len(Pending) : Leads(Pending[i].node, f)
    <3>1. Pending # <<>>
      <4>1. Len(<<>>) = 0
        OBVIOUS
      <4> QED
        BY <2>3, <4>1
    <3>2. pc' = "enter" /\ queue' = Tail(Pending) /\ entry' = Head(Pending)
      BY <1>2, <3>1 DEF ReadEntry
    <3>3. \A i \in 1 .. Len(Pending) :
             Pending[i] = entry' \/ \E j \in 1 .. Len(queue') : Pending[i] = queue'[j]
      BY <1>3, <3>1, <3>2, HeadAndTail
    <3>4. Leads(entry'.node, f) \/ \E j \in 1 .. Len(queue') : Leads(queue'[j].node, f)
      BY <2>3, <3>3
    <3> QED
      BY <3>2, <3>4 DEF Ahead, Leads
  <2> QED
    BY <1>1, <1>3, <2>1, <2>2, <2>3 DEF Covered, Ahead
<1>5. Covered'
  BY <1>4 DEF Covered
<1>6. Tidy'
  BY <1>1 DEF Tidy
<1> QED
  BY <1>1, <1>5, <1>6, CountedStays DEF TraversalInv

\* What the head of the loop drops is too deep, a link or counted.
LEMMA CoverEnterEntry ==
    ASSUME TraversalInv, QuietInv, Calm, Covered, Tidy, CountedAll, EnterEntry
    PROVE  (Covered /\ Tidy /\ CountedAll)'
<1>1. /\ pc = "enter" /\ pc' \in {"read", "handle"}
      /\ UNCHANGED <<opt, pass, left, queue, unread, entry, visited, reported, changes>>
      /\ counted \subseteq counted'
      /\ pc' = "handle" => PathNeeded
      /\ pc' = "read" /\ ~TooDeep(entry.node) =>
            /\ ~PathNeeded
            /\ pass = "stats" /\ entry.info = "F" => entry.node \in counted'
  BY DEF EnterEntry, envVars, ftsVars
<1>2. entry \in FTSENT /\ Fetched(entry)
  BY <1>1 DEF TraversalInv, TypeOK, WalkInv, FTSENT
<1>3. opt \in Options /\ changes \in Nat /\ pass \in {"stats", "content"}
  BY DEF TraversalInv, TypeOK
<1>4. ASSUME NEW f \in Files
      PROVE  Dealt(f)' \/ Ahead(f)'
  <2>1. CASE Dealt(f)
    BY <1>1, <2>1, DealtStays DEF TraversalInv
  <2>2. CASE \E i \in 1 .. Len(left) : Leads(left[i], f)
    BY <1>1, <2>2 DEF Ahead, Leads
  <2>3. CASE \E i \in 1 .. Len(queue) : Leads(queue[i].node, f)
    BY <1>1, <2>3 DEF Ahead, Leads
  <2>4. CASE Leads(entry.node, f)
    <3>1. CASE pc' = "handle"
      BY <1>1, <2>4, <3>1 DEF Ahead, Leads
    <3>2. CASE TooDeep(entry.node)
      <4>1. FilteredOut(f)
        BY <1>3, <2>4, <3>2, FilterFacts DEF Leads
      <4> QED
        BY <1>1, <4>1, DealtStays DEF TraversalInv, Dealt
    <3>3. CASE pc' = "read" /\ ~TooDeep(entry.node)
      <4>1. entry.info # "SL"
        BY <1>2, <2>4, FileFacts DEF Fetched
      <4>2. pass = "stats" /\ entry.info # "D"
        BY <1>1, <1>2, <1>3, <3>3, <4>1 DEF PathNeeded, FTSENT
      <4>3. CASE entry.info = "F"
        <5>1. f \in counted'
          BY <1>1, <1>2, <2>4, <3>3, <4>2, <4>3, FileFacts DEF Fetched
        <5> QED
          BY <1>1, <4>2, <5>1 DEF Dealt
      <4>4. CASE ~Usual(entry)
        <5>1. changes > 0
          BY <1>1, <1>3, <4>4 DEF QuietInv
        <5> QED
          BY <1>1, <4>2, <5>1 DEF Dealt
      <4> QED
        BY <4>1, <4>2, <4>3, <4>4 DEF Usual
    <3> QED
      BY <1>1, <3>1, <3>2, <3>3
  <2> QED
    BY <1>1, <2>1, <2>2, <2>3, <2>4 DEF Covered, Ahead
<1>5. Covered'
  BY <1>4 DEF Covered
<1>6. Tidy'
  BY <1>1 DEF Tidy, PathNeeded
<1> QED
  BY <1>1, <1>5, <1>6, CountedStays DEF TraversalInv

\* A directory is read, or whatever is below it is filtered out or reported with it.
LEMMA CoverHandleDirectory ==
    ASSUME TraversalInv, Calm, Covered, Tidy, CountedAll, HandleDirectory
    PROVE  (Covered /\ Tidy /\ CountedAll)'
<1>1. PICK d : d = entry.node
  OBVIOUS
<1>2. /\ pc = "handle" /\ pc' = "read" /\ path = d /\ d \in Dirs /\ opt \in Options
      /\ unread' = (IF Descends(d) THEN d ELSE None)
      /\ UNCHANGED <<opt, pass, left, queue, entry, counted, visited, changes>>
      /\ reported' = (IF pass = "content" /\ ~Ignored(d) /\ ~AccessAllowed(d)
                      THEN reported \cup {d} ELSE reported)
  <2>1. path = d
    BY <1>1, CalmStatus DEF HandleDirectory
  <2> QED
    BY <1>1, <2>1 DEF HandleDirectory, TraversalInv, TypeOK, WalkInv, Fetched, envVars
<1>3. d # None /\ pass \in {"stats", "content"}
  BY <1>2, TraversalAssumption DEF Nodes, TraversalInv, TypeOK
<1>4. ASSUME NEW f \in Files
      PROVE  Dealt(f)' \/ Ahead(f)'
  <2>1. CASE Dealt(f)
    BY <1>2, <2>1, DealtStays DEF TraversalInv
  <2>2. CASE \E i \in 1 .. Len(left) : Leads(left[i], f)
    BY <1>2, <2>2 DEF Ahead, Leads
  <2>3. CASE \E i \in 1 .. Len(queue) : Leads(queue[i].node, f)
    BY <1>2, <2>3 DEF Ahead, Leads
  <2>4. CASE Leads(d, f)
    <3>1. d \in Above[f]
      BY <1>2, <2>4, FileFacts
    <3>2. CASE Descends(d)
      BY <1>2, <1>3, <2>4, <3>2 DEF Ahead, Leads
    <3>3. CASE ~Descends(d) /\ Ignored(d)
      <4>1. FilteredOut(f)
        BY <1>2, <3>1, <3>3, FilterFacts DEF Descends
      <4> QED
        BY <1>2, <4>1, DealtStays DEF TraversalInv, Dealt
    <3>4. CASE ~Descends(d) /\ ~Ignored(d)
      BY <1>2, <1>3, <3>1, <3>4 DEF Descends, Dealt
    <3> QED
      BY <3>2, <3>3, <3>4
  <2> QED
    BY <1>1, <1>2, <2>1, <2>2, <2>3, <2>4 DEF Covered, Ahead
<1>5. Covered'
  BY <1>4 DEF Covered
<1>6. Tidy'
  BY <1>2 DEF Tidy
<1> QED
  BY <1>2, <1>5, <1>6, CountedStays DEF TraversalInv

\* A file is taken up, an entry that cannot be examined is reported.
LEMMA CoverHandleOther ==
    ASSUME TraversalInv, Calm, Covered, Tidy, CountedAll, HandleFile \/ HandleError
    PROVE  (Covered /\ Tidy /\ CountedAll)'
<1>1. /\ pc = "handle" /\ pc' \in {"process", "read"} /\ pass = "content"
      /\ UNCHANGED <<opt, pass, left, queue, unread, entry, counted, changes>>
      /\ visited \subseteq visited' /\ reported \subseteq reported'
      /\ \/ entry.info = "F" /\ entry.node \in visited'
         \/ entry.info # "F" /\ entry.node \in reported'
  <2>1. pc = "handle" /\ entry.info # "D"
    BY DEF HandleFile, HandleError
  <2>2. path = entry.node /\ status = {"SUCCESS"} /\ pass = "content"
    BY <2>1, CalmStatus DEF Tidy
  <2>3. CASE HandleFile
    BY <2>1, <2>2, <2>3 DEF HandleFile, RowIsRead, envVars, ftsVars
  <2>4. CASE HandleError
    BY <2>1, <2>2, <2>4 DEF HandleError, envVars, ftsVars
  <2> QED
    BY <2>3, <2>4
<1>2. entry.info = "F" => entry.node \in Files
  BY <1>1 DEF TraversalInv, WalkInv, Fetched
<1>3. ASSUME NEW f \in Files
      PROVE  Dealt(f)' \/ Ahead(f)'
  <2>1. CASE Dealt(f)
    BY <1>1, <2>1, DealtStays DEF TraversalInv
  <2>2. CASE \E i \in 1 .. Len(left) : Leads(left[i], f)
    BY <1>1, <2>2 DEF Ahead, Leads
  <2>3. CASE \E i \in 1 .. Len(queue) : Leads(queue[i].node, f)
    BY <1>1, <2>3 DEF Ahead, Leads
  <2>4. CASE Leads(entry.node, f)
    <3>1. CASE entry.info = "F"
      <4>1. entry.node = f
        BY <1>2, <2>4, <3>1, FileFacts
      <4> QED
        BY <1>1, <3>1, <4>1 DEF Dealt
    <3>2. CASE entry.info # "F"
      BY <1>1, <2>4, <3>2 DEF Dealt, Leads
    <3> QED
      BY <3>1, <3>2
  <2> QED
    BY <1>1, <2>1, <2>2, <2>3, <2>4 DEF Covered, Ahead
<1>4. Covered'
  BY <1>3 DEF Covered
<1>5. Tidy'
  BY <1>1 DEF Tidy
<1> QED
  BY <1>1, <1>4, <1>5, CountedStays DEF TraversalInv

\* These steps neither take up an entry nor drop one.
LEMMA CoverOthers ==
    ASSUME TraversalInv, Calm, Covered, Tidy, CountedAll,
           ProcessFile \/ CloseRoot \/ NoRootLeft \/ ChangePermissions \/ UNCHANGED vars
    PROVE  (Covered /\ Tidy /\ CountedAll)'
<1>1. /\ UNCHANGED <<opt, pass, left, entry, counted, visited, reported>>
      /\ changes' \in {changes, changes + 1}
  BY DEF ProcessFile, CloseRoot, NoRootLeft, ChangePermissions, envVars, ftsVars, obsVars, vars
<1>2. \/ pc = "process" /\ pc' = "read" /\ UNCHANGED <<queue, unread>>
      \/ pc = "close" /\ pc' = "root" /\ queue' = <<>> /\ unread' = None
      \/ pc = "root" /\ pc' = "finish" /\ left = <<>> /\ UNCHANGED <<queue, unread>>
      \/ UNCHANGED <<pc, queue, unread>>
  <2>1. status = {"SUCCESS"} /\ ~flag
    BY CalmStatus
  <2> QED
    BY <2>1 DEF ProcessFile, CloseRoot, NoRootLeft, ChangePermissions, ftsVars, vars
<1>3. ASSUME NEW f \in Files
      PROVE  Dealt(f)' \/ Ahead(f)'
  <2>1. CASE Dealt(f)
    BY <1>1, <2>1, DealtStays DEF TraversalInv
  <2>2. CASE Ahead(f)
    <3>1. Len(<<>>) = 0
      OBVIOUS
    <3>2. ~(left = <<>> /\ \E i \in 1 .. Len(left) : Leads(left[i], f))
      BY <3>1
    <3> QED
      BY <1>1, <1>2, <2>2, <3>2 DEF Ahead, Leads
  <2> QED
    BY <2>1, <2>2 DEF Covered
<1>4. Covered'
  BY <1>3 DEF Covered
<1>5. Tidy'
  BY <1>1, <1>2 DEF Tidy
<1> QED
  BY <1>1, <1>4, <1>5, CountedStays DEF TraversalInv

\* When a pass ends, every file has been dealt with, and the next one has all of them
\* before it.
LEMMA CoverFinish ==
    ASSUME TraversalInv, Calm, Covered, Tidy, CountedAll, Finish
    PROVE  (Covered /\ Tidy /\ CountedAll)'
<1>1. AfterCall(status, Provide({"SUCCESS"}, g), g) = {"SUCCESS"}
  <2>1. status = {"SUCCESS"} /\ g = {"SUCCESS"} /\ {"SUCCESS"} \in Statuses /\ {"SUCCESS"} \in Globals
    BY CalmStatus DEF Statuses, Globals
  <2> QED
    BY <2>1, StatusFacts DEF Merged
<1>2. ~Has({"SUCCESS"}, SKIP)
  BY DEF Has, SKIP
<1>3. /\ pc = "finish" /\ pass' = "content"
      /\ \/ pass = "stats" /\ pc' = "root" /\ left' = Roots
         \/ pass = "content" /\ pc' = "done"
      /\ UNCHANGED <<opt, queue, unread, entry, counted, visited, reported, changes>>
  BY <1>1, <1>2 DEF Finish, envVars, obsVars, TraversalInv, TypeOK
<1>4. \A f \in Files : Dealt(f)
  BY <1>3 DEF Covered, Ahead
<1>5. ASSUME NEW f \in Files
      PROVE  Dealt(f)' \/ Ahead(f)'
  <2>1. CASE pass = "stats"
    <3>1. \E i \in 1 .. Len(Roots) : Roots[i] \in Above[f]
      BY TreeAssumption
    <3> QED
      BY <1>3, <2>1, <3>1 DEF Ahead, Leads
  <2>2. CASE pass = "content"
    BY <1>3, <1>4, <2>2, DealtStays DEF TraversalInv
  <2> QED
    BY <1>3, <2>1, <2>2
<1>6. Covered'
  BY <1>5 DEF Covered
<1>7. Tidy'
  BY <1>3 DEF Tidy
<1>8. CountedAll'
  <2>1. CASE pass = "stats"
    BY <1>3, <1>4, <2>1 DEF CountedAll, Dealt, FilteredOut
  <2>2. CASE pass = "content"
    BY <1>3, <2>2, CountedStays DEF TraversalInv
  <2> QED
    BY <1>3, <2>1, <2>2
<1> QED
  BY <1>6, <1>7, <1>8

\* A walk begins with every root before it.
LEMMA CoverInit == ASSUME Init PROVE QuietInv /\ CoverInv
<1>1. Len(<<>>) = 0
  OBVIOUS
<1>2. QuietInv
  BY <1>1 DEF Init, QuietInv
<1>3. ASSUME NEW f \in Files
      PROVE  Ahead(f)
  <2>1. \E i \in 1 .. Len(Roots) : Roots[i] \in Above[f]
    BY TreeAssumption
  <2> QED
    BY <2>1 DEF Init, Ahead, Leads
<1>4. Tidy
  BY DEF Init, Tidy
<1>5. CountedAll
  BY DEF Init, CountedAll
<1> QED
  BY <1>2, <1>3, <1>4, <1>5 DEF CoverInv, Covered

\* Every step keeps the coverage.
LEMMA CoverStep ==
    ASSUME TraversalInv, QuietInv, CoverInv, [Next]_vars
    PROVE  CoverInv'
<1> SUFFICES ASSUME Calm' PROVE (Covered /\ Tidy /\ CountedAll)'
  BY DEF CoverInv
<1>1. Calm /\ ~FtsFails /\ ~StepFails /\ ~Interrupt
  BY CalmFacts DEF TraversalInv
<1>2. Covered /\ Tidy /\ CountedAll
  BY <1>1 DEF CoverInv
<1> QED
  BY <1>1, <1>2, CoverOpenRoot, CoverReadEntry, CoverEnterEntry, CoverHandleDirectory,
     CoverHandleOther, CoverOthers, CoverFinish DEF Next, Program

\* What the invariants say of the end of a walk.
LEMMA WalkIsExact ==
    ASSUME TraversalInv, QuietInv, CoverInv
    PROVE  TraversalIsExact
<1>1. \A f \in visited \cup counted : ~FilteredOut(f)
  BY DEF TraversalInv, WalkInv
<1>2. visited \subseteq Files /\ counted \subseteq Files
  BY DEF TraversalInv, TypeOK
<1>3. ASSUME Complete
      PROVE  /\ \A f \in Files : f \in visited \/ FilteredOut(f) \/ (Above[f] \cup {f}) \cap reported # {}
             /\ opt.progress /\ changes = 0 => visited = counted
  <2>1. Calm /\ pc = "done"
    BY <1>3 DEF Complete, Calm
  <2>2. pass = "content" /\ Covered /\ CountedAll
    BY <2>1 DEF CoverInv, Tidy
  <2>3. \A f \in Files : f \in visited \/ FilteredOut(f) \/ (Above[f] \cup {f}) \cap reported # {}
    BY <2>1, <2>2 DEF Covered, Ahead, Dealt
  <2>4. ASSUME opt.progress, changes = 0
        PROVE  visited = counted
    <3>1. reported = {}
      BY <2>1, <2>4 DEF QuietInv
    <3>2. \A f \in Files : f \in visited \/ FilteredOut(f)
      BY <2>3, <3>1
    <3>3. \A f \in Files : f \in counted \/ FilteredOut(f)
      BY <2>2, <2>4 DEF CountedAll
    <3> QED
      BY <1>1, <1>2, <3>2, <3>3
  <2> QED
    BY <2>3, <2>4
<1> QED
  BY <1>1, <1>3 DEF TraversalIsExact

\* file_list() takes up no file that the filters or the depth limit exclude; a pass
\* that nothing stopped takes up every other file or reports it, or a directory
\* above it, as inaccessible, and what the statistics pass has counted is what the
\* second pass takes up unless permissions change.
THEOREM TraversalStaysExact == Spec => []TraversalIsExact
<1>1. Init => QuietInv /\ CoverInv
  BY CoverInit
<1>2. TraversalInv /\ QuietInv /\ CoverInv /\ [Next]_vars => QuietInv' /\ CoverInv'
  BY QuietStep, CoverStep
<1>3. TraversalInv /\ QuietInv /\ CoverInv => TraversalIsExact
  BY WalkIsExact
<1> QED
  BY <1>1, <1>2, <1>3, WalkInvariant, PTL DEF Spec

=============================================================================
