SPECIFICATION Spec
CONSTANTS
    c1 = c1
    c2 = c2
    Clients = {c1}
    Jobs <- OneLoad
    Timeout = 3
    Poll = 2
    Latency = 1
    MaxTrips = 1
CHECK_DEADLOCK FALSE
INVARIANT
    LoadIsComplete
