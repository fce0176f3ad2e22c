CONSTANTS
    k1 = k1
    k2 = k2
    Keys = {k1, k2}
    Millis = {3, 17}
    TickMs = 2
    Capacity = 2
    L1 = 2
    L2 = 2
    L3 = 2
    MaxCatchup = 2
    Batch = 2
    EventCap = 1
    MaxClock = 11
    MaxLag = 3
    MaxVersion = 2
    MaxInserts = 3
    None = None
SPECIFICATION Spec
INVARIANTS SlabExact
SYMMETRY KeySymmetry
PROPERTIES KeepsPromise NotBeforeTtl
CHECK_DEADLOCK FALSE
