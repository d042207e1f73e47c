CONSTANTS
    Rows = {1, 2}
    NoVersion = NoVersion
    MaxRuns = 2
    MaxFaults = 0
SPECIFICATION Spec
CHECK_DEADLOCK FALSE
INVARIANT MetadataSurvives
