CONSTANTS
    Rows = {1, 2}
    NoVersion = NoVersion
    MaxRuns = 3
    MaxFaults = 2
SPECIFICATION FairSpec
CHECK_DEADLOCK FALSE
INVARIANTS VersionNeverAhead MetadataSurvivesUnlessTorn SuccessMeansCurrent
PROPERTY RunEnds
