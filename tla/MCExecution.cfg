SPECIFICATION Spec
CONSTANTS
    i1 = i1
    i2 = i2
    st1 = st1
    st2 = st2
    Invocations = {i1, i2}
    Granted = {i1}
    StationOf <- OwnStationOf
    Pendant = Pendant
    NoStation = NoStation
    MaxChanges = 2
INVARIANTS
    TypeOK
    DenialExplained
