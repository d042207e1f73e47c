CONSTANTS
    Files = {1, 2}
    a = a
    b = b
    Block = {a, b}
    NoRow = NoRow
    NoDigest = NoDigest
    ZeroDigest = ZeroDigest
    NoJob = NoJob
    Contents <- FewContents
    Unseekable = {}
    RunOptions <- WatchOptions
    EditKinds = {"write", "backdate"}
    MaxRuns = 2
    MaxEdits = 1
    MaxFaults = 1
SPECIFICATION FairSpec
CHECK_DEADLOCK FALSE
INVARIANT TypeOK
PROPERTIES RunEnds ImplementsAtomicBatch
