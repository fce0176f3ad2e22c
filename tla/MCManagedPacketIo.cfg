CONSTANTS
    a1 = a1
    a2 = a2
    i1 = i1
    u1 = u1
    e1 = e1
    peer = peer
    other = other
    Active = {a1, a2}
    Inbound = {}
    Users = {u1}
    Closers = {e1}
    Addrs = {peer, other}
    AddrOf <- MCAddrOf
    Queued = FALSE
    HasTcp = FALSE
    HasUdp = TRUE
    MaxDrops = 1
    None = None
SPECIFICATION Spec
INVARIANTS EveryTaskCountedOnce NothingLeftBehind
PROPERTY ConnectNeverDisplaces
SYMMETRY ActiveSymmetry
CHECK_DEADLOCK FALSE
