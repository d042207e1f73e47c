CONSTANTS
    Files = {1}
    a = a
    b = b
    Block = {a, b}
    NoRow = NoRow
    NoDigest = NoDigest
    ZeroDigest = ZeroDigest
    NoJob = NoJob
    Contents <- FewContents
    Unseekable = {}
    RunOptions <- RehashOptions
    EditKinds = {}
    MaxRuns = 2
    MaxEdits = 0
    MaxFaults = 0
SPECIFICATION Spec
CHECK_DEADLOCK FALSE
PROPERTY SealedIsKept
