CONSTANTS
    a1 = a1
    a2 = a2
    i1 = i1
    u1 = u1
    e1 = e1
    peer = peer
    other = other
    Active = {a1}
    Inbound = {i1}
    Users = {}
    Closers = {e1}
    Addrs = {peer, other}
    AddrOf <- MCAddrOf
    Queued = TRUE
    HasTcp = TRUE
    HasUdp = FALSE
    MaxDrops = 0
    None = None
SPECIFICATION ReadingSpec
INVARIANTS ClosedMeansStopped
PROPERTIES CloseCompletes
CHECK_DEADLOCK FALSE
