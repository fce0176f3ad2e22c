CONSTANTS
    w1 = w1
    w2 = w2
    w3 = w3
    Writers = {w1, w2, w3}
    PayloadLen <- MCPayloadLen
    TooLong = {w3}
    PrefixLen = 2
    QueueSize = 0
    MaxDrops = 1
    ReadMax = 3
    MaxBuf = 6
    None = None
SPECIFICATION LinkSpec
INVARIANTS PacketsArriveWhole AnswersHold
PROPERTIES SentIsDispatched ShutdownEnds
CHECK_DEADLOCK FALSE
