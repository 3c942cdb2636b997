SPECIFICATION Spec
CONSTANTS
    s1 = s1
    s2 = s2
    st1 = st1
    st2 = st2
    Sessions = {s1, s2}
    StationOf <- SharedStationOf
    Pendant = Pendant
    NoStation = NoStation
    MaxRevocations = 0
INVARIANT
    HeldThroughScope
