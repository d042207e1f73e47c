CONSTANTS
    r = r
    s = s
    d = d
    e = e
    f = f
    a = a
    b = b
    c = c
    x = x
    l = l
    None = None
    Roots <- TwoRoots
    Files = {a, b, c, x}
    Links = {l}
    Entries <- SomeEntries
    Above <- SomeAbove
    Options <- SomeOptions
    MaxChanges = 1
    MaxFaults = 1
SPECIFICATION FairSpec
CHECK_DEADLOCK FALSE
INVARIANTS TraversalIsExact PathIsOfEntry
PROPERTIES PassEnds
