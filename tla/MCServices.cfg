CONSTANTS
    Policies <- MCPolicies
    Callers = {1, 2}
    FloatMax = 2
    MaxGeneration = 3
    SummaryInterval = 2
    CounterMax = 5
    MaxTime = 4
    MaxFailures = 7
    Never = Never
    Runners = {1, 2, 3}
    Versions = 3
    NameOf <- MCNameOf
    Ddl = {1}
    NoName = NoName
    None = None
    NoChannel = NoChannel
    Types = {1}
    Subscribers = {1, 2}
    TypeOf <- MCTypeOf
    ChannelSize = 1
    MaxChannels = 3
    MaxMessages = 3
    Conns = {1, 2}
    MaxBuf = 5
    ReadMax = 2
    BackoffMin = 1
    BackoffMax = 2
    MaxDatagrams = 1
    c1 = c1
    c2 = c2
    a1 = a1
    u1 = u1
SPECIFICATION ServicesSpec
INVARIANTS
    StateTruthful DeliveredOrTold EveryFailureCounted
    SchemaMatchesRecords DispatchedAsSent
PROPERTIES
    RetriesByPolicy StreamShutdownEnds PublisherServed
    CancelStopsReader WriterCloseCompletes
CHECK_DEADLOCK FALSE
