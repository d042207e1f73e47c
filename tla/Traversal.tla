----------------------------- MODULE Traversal -----------------------------
(***************************************************************************)
(* The two passes of file_list() over the directory trees: which entries   *)
(* FTS returns, which of them the filters, the depth limit and the access  *)
(* checks prune, and which files reach the code that FileScan models.      *)
(* Permissions change and signals arrive while the walk is under way.      *)
(*                                                                         *)
(* FTS is external: it returns a directory before what is below it, in the *)
(* order of compare_by_name(), and reads a directory only when it is asked *)
(* for the entry after it.  FTS_DP entries, which the code ignores, are    *)
(* left out.                                                               *)
(***************************************************************************)
EXTENDS ReturnStatus, Sequences, Integers, FiniteSets

CONSTANTS
    Roots,       \* the sequence of traversal roots
    Files,       \* regular files
    Links,       \* symbolic links
    Entries,     \* the entries of each directory, in the order of their names
    Above,       \* the directories on the way to a node
    Options,     \* what the walk reads of Config
    None,        \* no entry
    MaxChanges,  \* changes of permissions
    MaxFaults    \* calls that fail

Dirs  == DOMAIN Entries
Nodes == Dirs \cup Files \cup Links

Option ==
    [ignore  : SUBSET Nodes,            \* paths that --ignore matches
     include : SUBSET Nodes,            \* paths that --include matches
     include_specified : BOOLEAN,
     lock_checksum     : BOOLEAN,       \* config->lock_checksum != NULL
     maxdepth          : Int,
     progress          : BOOLEAN]       \* the statistics pass takes place

\* Nothing denied; no right to list; no right to search; removed.
Permissions == {"ok", "unlistable", "unsearchable", "gone"}

ASSUME TraversalAssumption ==
    /\ Options \subseteq Option
    /\ \A o \in Options : o.include # {} => o.include_specified
    /\ None \notin Nodes
    /\ MaxChanges \in Nat /\ MaxFaults \in Nat

\* What is under the roots is a forest: FTS_PHYSICAL follows no link, and a directory
\* has one name.  A scan has at least one root.
ASSUME TreeAssumption ==
    /\ Dirs \cap Files = {} /\ Dirs \cap Links = {} /\ Files \cap Links = {}
    /\ Roots \in Seq(Dirs) \ {<<>>}
    /\ Entries \in [Dirs -> Seq(Nodes)]
    /\ Above \in [Nodes -> SUBSET Dirs]
    /\ \A n \in Nodes : IsFiniteSet(Above[n]) /\ n \notin Above[n]
    /\ \A d \in Dirs : \A i \in 1 .. Len(Entries[d]) : Above[Entries[d][i]] = Above[d] \cup {d}
    /\ \A n \in Nodes : \A d \in Above[n] :
          /\ Above[d] \subseteq Above[n]
          /\ \E i \in 1 .. Len(Entries[d]) : Entries[d][i] \in Above[n] \cup {n}
    /\ \A i \in 1 .. Len(Roots) : Above[Roots[i]] = {}
    /\ \A n \in Files : \E i \in 1 .. Len(Roots) : Roots[i] \in Above[n]

VARIABLES
    opt,
    perm,       \* the permissions of the directories
    pass,       \* "stats" for summary->stats_only_pass, then "content"
    pc,
    left,       \* roots that have not been opened
    queue,      \* entries that FTS has read and not returned
    unread,     \* a directory that was returned and not read yet
    entry,      \* p, the entry at hand
    path,       \* relative_path
    status, flag, g,
    active,     \* config->file_transaction_active
    \* Observations.
    counted,    \* files counted by the statistics pass
    visited,    \* files whose row was read by the content pass
    reported,   \* paths reported as inaccessible
    broken,     \* fts_read() ended a walk because of an error
    changes, faults

vars == <<opt, perm, pass, pc, left, queue, unread, entry, path, status, flag, g, active,
          counted, visited, reported, broken, changes, faults>>

envVars == <<opt, perm, changes>>
sigVars == <<flag, g>>
ftsVars == <<left, queue, unread>>
obsVars == <<counted, visited, reported, broken>>

\* fts_level
Level(n) == Cardinality(Above[n])

\* The path of n can be resolved, and d can be listed.
Reachable(n) == \A d \in Above[n] : perm[d] \in {"ok", "unlistable"}
Listable(d)  == Reachable(d) /\ perm[d] \in {"ok", "unsearchable"}

\* file_check_access(..., R_OK | X_OK) == FILE_ACCESS_ALLOWED.  A path that is not
\* a directory's gets here after an interrupt only; the files are not executable.
AccessAllowed(n) == n \in Dirs /\ Reachable(n) /\ perm[n] = "ok"

-----------------------------------------------------------------------------
(***************************************************************************)
(* FTS.                                                                    *)
(***************************************************************************)

\* fts_info of an entry below d.
Info(d, n) ==
    IF perm[d] = "unsearchable" THEN "NS"
    ELSE CASE n \in Dirs  -> "D"
           [] n \in Files -> "F"
           [] n \in Links -> "SL"

\* What FTS reads when it enters d.
ReadDirectory(d) ==
    IF Listable(d)
    THEN [i \in 1 .. Len(Entries[d]) |->
            [info |-> Info(d, Entries[d][i]), node |-> Entries[d][i]]]
    ELSE <<[info |-> "DNR", node |-> d]>>

Pending == IF unread = None THEN queue ELSE ReadDirectory(unread) \o queue

-----------------------------------------------------------------------------
(***************************************************************************)
(* file_list().                                                            *)
(***************************************************************************)

\* Mutant of OpenRoot: a root that cannot be opened is tried again.
OpenRootRetries ==
    /\ pc = "root" /\ left # <<>>
    /\ pass = "stats" \/ Listable(Head(left))
    /\ left' = Tail(left)
    /\ pc' = "read"
    /\ queue' = <<[info |-> "D", node |-> Head(left)]>>
    /\ UNCHANGED <<envVars, pass, unread, entry, path, status, sigVars, active, obsVars,
                   faults>>

\* directory_open_root() in the content pass; fts_open().
OpenRoot ==
    /\ pc = "root" /\ left # <<>>
    /\ left' = Tail(left)
    /\ LET root == Head(left)
       IN  IF pass = "content" /\ ~Listable(root)
           THEN reported' = reported \cup {root} /\ UNCHANGED <<pc, queue>>
           ELSE /\ pc' = "read"
                /\ queue' = <<[info |-> IF perm[root] = "gone" THEN "NS" ELSE "D", node |-> root]>>
                /\ UNCHANGED reported
    /\ UNCHANGED <<envVars, pass, unread, entry, path, status, sigVars, active, counted,
                   visited, broken, faults>>

\* fts_read(), the interrupt check and whether there is another entry.
ReadEntry ==
    /\ pc = "read"
    /\ unread' = None
    /\ IF Pending = <<>> \/ flag
       THEN pc' = "close" /\ queue' = <<>> /\ UNCHANGED entry
       ELSE pc' = "enter" /\ queue' = Tail(Pending) /\ entry' = Head(Pending)
    /\ UNCHANGED <<envVars, pass, left, path, status, sigVars, active, obsVars, faults>>

\* fts_read() returns NULL because of an error, which the loop takes for the end.
FtsFails ==
    /\ pc = "read" /\ faults < MaxFaults
    /\ faults' = faults + 1
    /\ broken' = TRUE
    /\ pc' = "close" /\ queue' = <<>> /\ unread' = None
    /\ UNCHANGED <<envVars, pass, left, entry, path, status, sigVars, active, counted,
                   visited, reported>>

\* db_file_transaction_check() for an active batch.
Checked ==
    IF active THEN AfterCall(status, Provide({"SUCCESS"}, g), g) ELSE status

\* The entry is below the depth limit.
TooDeep(n) == opt.maxdepth > -1 /\ Level(n) > opt.maxdepth + 1

\* Symbolic links are counted, and the statistics pass only counts files.
PathNeeded ==
    \/ entry.info = "D"
    \/ pass = "content" /\ entry.info \in {"F", "DNR", "NS"}

\* The head of the loop body up to run(path_build_relative()).
EnterEntry ==
    /\ pc = "enter"
    /\ LET built == PathNeeded /\ ~Has(Checked, SKIP)
       IN  IF TooDeep(entry.node)
           THEN pc' = "read" /\ status' = Checked /\ UNCHANGED <<path, counted>>
           ELSE /\ pc' = (IF PathNeeded THEN "handle" ELSE "read")
                /\ path' = (IF built THEN entry.node ELSE path)
                /\ status' = (IF built THEN AfterCall(Checked, Provide({"SUCCESS"}, g), g)
                              ELSE Checked)
                /\ counted' = (IF pass = "stats" /\ entry.info = "F"
                               THEN counted \cup {entry.node} ELSE counted)
    /\ UNCHANGED <<envVars, pass, ftsVars, entry, sigVars, active, visited, reported, broken,
                   faults>>

\* match_include_ignore(): --include first.
Ignored(n) == n \notin opt.include /\ n \in opt.ignore

\* Mutant of Descends: an ignored directory is pruned in spite of --lock-checksum.
PrunesIgnored(d) ==
    IF Ignored(d) THEN opt.include_specified
    ELSE pass = "stats" \/ AccessAllowed(d) \/ opt.include_specified

\* No FTS_SKIP for the directory: the patterns may want something below an ignored
\* one, and --include something below one that directory_access_verify() refuses.
Descends(d) ==
    IF Ignored(d) THEN opt.include_specified \/ opt.lock_checksum
    ELSE pass = "stats" \/ AccessAllowed(d) \/ opt.include_specified

\* FTS_D, with the path as path_build_relative() left it.
HandleDirectory ==
    /\ pc = "handle" /\ entry.info = "D"
    /\ status' = Provide({"SUCCESS"}, g)
    /\ unread' = (IF Descends(path) THEN entry.node ELSE None)
    /\ reported' = (IF pass = "content" /\ ~Ignored(path) /\ ~AccessAllowed(path)
                    THEN reported \cup {path} ELSE reported)
    /\ pc' = "read"
    /\ UNCHANGED <<envVars, pass, left, queue, entry, path, sigVars, active, counted, visited,
                   broken, faults>>

\* Mutant of RowIsRead: any status but a failure will do.
RowIsReadAnyway == Has(status, TRIUMPH)

\* run(db_read_file_data_from()), and the check behind it.
RowIsRead == status = {"SUCCESS"}

\* FTS_F in the content pass.  FileScan models what follows; it may begin a batch.
HandleFile ==
    /\ pc = "handle" /\ entry.info = "F"
    /\ IF RowIsRead
       THEN pc' = "process" /\ visited' = visited \cup {path}
       ELSE pc' = "close" /\ UNCHANGED visited
    /\ UNCHANGED <<envVars, pass, ftsVars, entry, path, status, sigVars, active, counted,
                   reported, broken, faults>>

ProcessFile ==
    /\ pc = "process"
    /\ pc' = "read"
    /\ status' = Normalize(status, g)
    /\ active' \in {active, TRUE}
    /\ UNCHANGED <<envVars, pass, ftsVars, entry, path, sigVars, obsVars, faults>>

\* FTS_DNR, FTS_ERR and FTS_NS in the content pass.
HandleError ==
    /\ pc = "handle" /\ entry.info \in {"DNR", "NS"}
    /\ reported' = reported \cup {path}
    /\ pc' = "read"
    /\ UNCHANGED <<envVars, pass, ftsVars, entry, path, status, sigVars, active, counted,
                   visited, broken, faults>>

\* The status is that of a failed helper; HALTED may come with it.
Failing == Provide({"FAILURE"}, g)

\* A regular expression, SQLite or the allocator fails.  The loop ends unless HALTED
\* comes with the failure: FAILURE | HALTED is a TRIUMPH, the entry is handled with
\* the path at hand, and directory_access_verify() puts its own status in place.
StepFails ==
    /\ faults < MaxFaults
    /\ faults' = faults + 1
    /\ \/ /\ pc = "enter" /\ active
          /\ pc' = "close" /\ status' = Failing
       \/ /\ pc = "enter" /\ PathNeeded /\ ~TooDeep(entry.node) /\ ~Has(Checked, SKIP)
          /\ pc' = (IF Has(Failing, TRIUMPH) THEN "handle" ELSE "close")
          /\ status' = Failing
       \/ /\ pc = "handle" /\ entry.info = "D"
          /\ pc' = (IF Has(Failing, TRIUMPH) THEN "read" ELSE "close")
          /\ status' \in {Failing} \cup (IF pass = "content" /\ Has(Failing, TRIUMPH)
                                        THEN {Provide({"SUCCESS"}, g)} ELSE {})
       \/ /\ pc = "handle" /\ entry.info = "F" /\ ~Has(status, SKIP)
          /\ pc' = "close" /\ status' = Failing
       \/ /\ pc = "process"
          /\ pc' = "close" /\ status' = Failing
    /\ UNCHANGED <<envVars, pass, ftsVars, entry, path, sigVars, active, obsVars>>

\* fts_close() and the decision to open the next root.
CloseRoot ==
    /\ pc = "close"
    /\ pc' = (IF flag \/ "SUCCESS" \notin status THEN "finish" ELSE "root")
    /\ queue' = <<>> /\ unread' = None
    /\ UNCHANGED <<envVars, pass, left, entry, path, status, sigVars, active, obsVars, faults>>

NoRootLeft ==
    /\ pc = "root" /\ left = <<>>
    /\ pc' = "finish"
    /\ UNCHANGED <<envVars, pass, ftsVars, entry, path, status, sigVars, active, obsVars,
                   faults>>

\* call(db_file_transaction_commit()), call(db_file_transaction_rollback()), and
\* what main() does with the status: run() begins the second pass.
Finish ==
    /\ pc = "finish"
    /\ active' = FALSE
    /\ LET st == AfterCall(status, Provide({"SUCCESS"}, g), g)
       IN  IF pass = "stats" /\ ~Has(st, SKIP)
           THEN pc' = "root" /\ pass' = "content" /\ left' = Roots /\ status' = {"SUCCESS"}
           ELSE pc' = "done" /\ status' = st /\ UNCHANGED <<pass, left>>
    /\ path' = None
    /\ UNCHANGED <<envVars, queue, unread, entry, sigVars, obsVars, faults>>

-----------------------------------------------------------------------------
(***************************************************************************)
(* Everybody else.                                                         *)
(***************************************************************************)

\* signal_notify_quit_handler(); see Session for the overwritten HALTED.
Interrupt ==
    /\ pc # "done" /\ ~flag
    /\ flag' = TRUE
    /\ g' \in {g, {"HALTED"}}
    /\ UNCHANGED <<envVars, pass, pc, ftsVars, entry, path, status, active, obsVars, faults>>

\* Somebody changes the permissions of a directory, or removes it.
ChangePermissions ==
    /\ pc # "done" /\ changes < MaxChanges
    /\ changes' = changes + 1
    /\ \E d \in Dirs, a \in Permissions : perm' = [perm EXCEPT ![d] = a]
    /\ UNCHANGED <<opt, pass, pc, ftsVars, entry, path, status, sigVars, active, obsVars,
                   faults>>

Init ==
    /\ opt \in Options
    /\ perm = [d \in Dirs |-> "ok"]
    /\ pass = (IF opt.progress THEN "stats" ELSE "content")
    /\ pc = "root" /\ left = Roots /\ queue = <<>> /\ unread = None
    /\ entry = [info |-> "D", node |-> Head(Roots)] /\ path = None
    /\ status = {"SUCCESS"} /\ flag = FALSE /\ g = {"SUCCESS"} /\ active = FALSE
    /\ counted = {} /\ visited = {} /\ reported = {} /\ broken = FALSE
    /\ changes = 0 /\ faults = 0

Program ==
    \/ OpenRoot \/ ReadEntry \/ EnterEntry \/ HandleDirectory \/ HandleFile
    \/ ProcessFile \/ HandleError \/ CloseRoot \/ NoRootLeft \/ Finish

Next == Program \/ FtsFails \/ StepFails \/ Interrupt \/ ChangePermissions

Spec == Init /\ [][Next]_vars

\* The thread goes on running.
FairSpec == Spec /\ WF_vars(Program)

-----------------------------------------------------------------------------
(***************************************************************************)
(* Properties.                                                             *)
(***************************************************************************)

TypeOK ==
    /\ opt \in Options /\ perm \in [Dirs -> Permissions]
    /\ pass \in {"stats", "content"}
    /\ pc \in {"root", "read", "enter", "handle", "process", "close", "finish", "done"}
    /\ left \in Seq(Dirs) /\ unread \in Dirs \cup {None}
    /\ entry \in [info : {"D", "F", "SL", "DNR", "NS"}, node : Nodes]
    /\ queue \in Seq([info : {"D", "F", "SL", "DNR", "NS"}, node : Nodes])
    /\ path \in Nodes \cup {None}
    /\ status \subseteq Flags /\ flag \in BOOLEAN /\ g \subseteq Flags
    /\ active \in BOOLEAN /\ broken \in BOOLEAN
    /\ counted \subseteq Files /\ visited \subseteq Files
    /\ reported \subseteq Nodes \cup {None}
    /\ changes \in Nat /\ faults \in Nat

\* Neither the filters nor the depth limit let the walk reach f.
FilteredOut(f) ==
    \/ opt.maxdepth > -1 /\ Level(f) > opt.maxdepth + 1
    \/ /\ ~opt.include_specified /\ ~opt.lock_checksum
       /\ \E d \in Above[f] : d \in opt.ignore

\* A pass that nothing stopped.
Complete == pc = "done" /\ ~flag /\ faults = 0

\* file_list() takes up no file that the filters or the depth limit exclude, and a
\* pass that nothing stopped takes up every other file - a locked one below an
\* ignored directory too - or reports it, or a directory above it, as
\* inaccessible.  Without a change of permissions the statistics pass has counted
\* the same files, so that the progress ends at 100 %.
TraversalIsExact ==
    /\ \A f \in visited : ~FilteredOut(f)
    /\ Complete =>
         /\ \A f \in Files :
              f \in visited \/ FilteredOut(f) \/ (Above[f] \cup {f}) \cap reported # {}
         /\ opt.progress /\ changes = 0 => visited = counted

\* The row that db_read_file_data_from() looks up is the row of the entry that FTS
\* returned: when an interrupt makes run() skip path_build_relative(), the path of
\* the entry before it is left in the buffer.
PathIsOfEntry == pc = "process" => path = entry.node

\* Whatever happens to the directories, both passes end.
PassEnds == <>(pc = "done")

=============================================================================
