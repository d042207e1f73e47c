CONSTANTS
    Files = {1, 2}
    Roots = {root1}
    FirstRoot = root1
    root1 = root1
    root2 = root2
    NoFile = NoFile
    RunOptions <- AllOptions
    AccessKinds = {"ALLOWED", "DENIED", "NOT_FOUND"}
    MaxEdits = 1
    MaxFaults = 1
SPECIFICATION FairSpec
CHECK_DEADLOCK FALSE
INVARIANTS TypeOK LockedRowIsKept DropHasCause CleanupIsExact LockedLossIsReported InterruptIsNoFailure
PROPERTIES ImplementsAtomicBatch CleanupEnds
