CONSTANTS
    p1 = p1
    p2 = p2
    x = x
    y = y
    Paths = {p1, p2}
    Hidden = {p2}
    Digests = {x, y}
    Databases <- SomeDatabases
    Filters <- SomeFilters
    Conditions <- SomeConditions
    MaxWrites = 1
    MaxFaults = 1
SPECIFICATION FairSpec
CHECK_DEADLOCK FALSE
INVARIANTS ClaimsAreTrue ReportIsExact
PROPERTIES CompareEnds
