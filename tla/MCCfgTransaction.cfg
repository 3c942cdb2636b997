SPECIFICATION Spec
CONSTANTS
    a = a
    b = b
    v0 = v0
    v1 = v1
    bad = bad
    odd = odd
    Sessions = {a, b}
    Values = {v0, v1, bad, odd}
    Absent = Absent
    Default = v0
    Altered = odd
    Invalid = {bad}
    Jobs <- AllJobs
    MaxForeign = 1
SYMMETRY Symmetry
CHECK_DEADLOCK FALSE
INVARIANTS
    TypeOK
    SuccessIsVerified
    FailureIsUndoneOrTold
PROPERTIES
    RemovesOnlyOwnCreation
