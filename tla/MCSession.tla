----------------------------- MODULE MCSession -----------------------------
(***************************************************************************)
(* Command lines and directory trees for the runs of Session.              *)
(***************************************************************************)
EXTENDS Session

CONSTANTS home, work, plain, sealed

Plain ==
    [info |-> FALSE, compare |-> FALSE, update |-> FALSE, force |-> FALSE,
     dry_run |-> FALSE, roots |-> {home}, locked |-> {sealed}]

CommandLines ==
    {Plain,
     [Plain EXCEPT !.info = TRUE],
     [Plain EXCEPT !.roots = {}],
     [Plain EXCEPT !.compare = TRUE, !.roots = {}],
     [Plain EXCEPT !.dry_run = TRUE],
     [Plain EXCEPT !.force = TRUE, !.roots = {work}],
     [Plain EXCEPT !.update = TRUE],
     [Plain EXCEPT !.update = TRUE, !.dry_run = TRUE],
     [Plain EXCEPT !.update = TRUE, !.roots = {work}],
     [Plain EXCEPT !.update = TRUE, !.roots = {home, work}],
     [Plain EXCEPT !.update = TRUE, !.force = TRUE, !.roots = {work}]}

\* Everything there, one file each, and a root that cannot be opened.
SomeTrees ==
    {[d \in Roots |-> IF d = home THEN t ELSE {plain}] :
        t \in {Names, {plain}, {sealed}, Closed}}

\* None, a new one that knows no root yet, and ones that earlier processes filled.
SomeDatabases ==
    {[layout |-> "absent", prefixes |-> {}, rows |-> {}],
     [layout |-> "current", prefixes |-> {}, rows |-> {}],
     [layout |-> "current", prefixes |-> {home}, rows |-> Names],
     [layout |-> "old", prefixes |-> {home}, rows |-> {plain}],
     [layout |-> "newer", prefixes |-> {home}, rows |-> {plain}]}

SomeAlterations == {{}, Names}

\* For the run about unexpected stops: one database, updated again and again.
FilledDatabase == {[layout |-> "current", prefixes |-> {home}, rows |-> {plain}]}

UpdateOnly == {[Plain EXCEPT !.update = TRUE]}

=============================================================================
