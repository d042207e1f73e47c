CONSTANTS
    BLOCK = 3
    SIZE_MAX = 10
    HeapLimit = 6
    Texts <- SomeTexts
    Counts <- SomeCounts
SPECIFICATION Spec
CHECK_DEADLOCK FALSE
INVARIANTS TextIsRight TelemetryBalances
PROPERTY FailureChangesNothing
