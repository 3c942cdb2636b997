SPECIFICATION FairSpec
CONSTANTS
    c1 = c1
    c2 = c2
    Clients = {c1, c2}
    Jobs <- Pairs
    Timeout = 3
    Poll = 2
    Latency = 1
    MaxTrips = 1
CHECK_DEADLOCK FALSE
INVARIANTS
    TypeOK
    SuccessIsComplete
    InTimeIsReported
    WaitIsBounded
PROPERTIES
    EveryWaitEnds
