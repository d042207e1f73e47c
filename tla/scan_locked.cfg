CONSTANTS
    Files = {1}
    a = a
    b = b
    Block = {a, b}
    NoRow = NoRow
    NoDigest = NoDigest
    ZeroDigest = ZeroDigest
    NoJob = NoJob
    Contents <- ShortContents
    Unseekable = {}
    RunOptions <- LockOptions
    EditKinds = {"write", "chmod", "realloc", "rot", "access"}
    MaxRuns = 3
    MaxEdits = 2
    MaxFaults = 1
SPECIFICATION Spec
CHECK_DEADLOCK FALSE
INVARIANTS CorruptionIsReported AlarmHasCause
PROPERTIES SealedIsKeptUnlessInterrupted
