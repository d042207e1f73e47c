CONSTANTS
    home = home
    work = work
    plain = plain
    sealed = sealed
    Roots = {home, work}
    Names = {plain, sealed}
    Closed = Closed
    Trees <- SomeTrees
    Alterations <- SomeAlterations
    Databases <- SomeDatabases
    Commands <- CommandLines
    MaxRuns = 2
    MaxFaults = 1
SPECIFICATION FairSpec
CHECK_DEADLOCK FALSE
INVARIANTS StoredDataIsProtected WalkKnowsItsRoots ReadOnlyModesWriteNothing ChangeFlagIsRight ExitZeroIsClean MissingFilesAreHandledUnlessAlarm NextUpdateWorksUnlessLeftover
PROPERTIES RunEnds
