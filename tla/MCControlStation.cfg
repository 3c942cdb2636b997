SPECIFICATION FairSpec
CONSTANTS
    s1 = s1
    s2 = s2
    st1 = st1
    st2 = st2
    Sessions = {s1, s2}
    StationOf <- DistinctStationOf
    Pendant = Pendant
    NoStation = NoStation
    MaxRevocations = 1
INVARIANTS
    TypeOK
    HeldThroughScope
    ReleasedOnSuccess
    MotionScoped
    MotionHeldForStart
    MotorsSwitchedStopped
PROPERTIES
    AccessReturns
    StartsExcluded
    ImplementsWriteAccess
