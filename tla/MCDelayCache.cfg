CONSTANTS
    k1 = k1
    v1 = v1
    v2 = v2
    u1 = u1
    r1 = r1
    Keys = {k1}
    Values = {v1, v2, u1}
    KeyOf <- MCKeyOf
    Mortal = {v1, v2}
    Removers = {r1}
    MaxRefreshes = 1
    CallCap = 1
    Permits = 1
    None = None
SPECIFICATION FairSpec
INVARIANTS CalledBackOnce NothingOutlivesItsTimer
PROPERTIES ExpiredAreCalledBack
CHECK_DEADLOCK FALSE
