CONSTANTS
    home = home
    work = work
    plain = plain
    sealed = sealed
    Roots = {home, work}
    Names = {plain, sealed}
    Closed = Closed
    Trees <- SomeTrees
    Alterations <- SomeAlterations
    Databases <- FilledDatabase
    Commands <- UpdateOnly
    MaxRuns = 2
    MaxFaults = 1
SPECIFICATION Spec
CHECK_DEADLOCK FALSE
INVARIANTS NextUpdateWorks
