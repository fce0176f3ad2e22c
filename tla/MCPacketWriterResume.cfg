CONSTANTS
    c1 = c1
    c2 = c2
    c3 = c3
    a1 = a1
    a2 = a2
    ip = ip
    w1 = w1
    u1 = u1
    Conns = {c1, c3}
    Addrs = {a1, a2}
    Ips = {ip}
    AddrOf <- MCAddrOf
    IpOf <- MCIpOf
    Direct = {c1, c3}
    Owned = {}
    Waiters = {}
    UdpWriters = {}
    MaxAbandons = 1
    None = None
SPECIFICATION Spec
INVARIANTS CloseIsResumed
CHECK_DEADLOCK FALSE
