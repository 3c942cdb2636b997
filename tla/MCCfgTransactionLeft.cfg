SPECIFICATION Spec
CONSTANTS
    a = a
    b = b
    v0 = v0
    v1 = v1
    bad = bad
    odd = odd
    Sessions = {a}
    Values = {v0, v1, bad, odd}
    Absent = Absent
    Default = v0
    Altered = odd
    Invalid = {bad}
    Jobs <- CreateJobs
    MaxForeign = 0
CHECK_DEADLOCK FALSE
INVARIANT
    RemovedIsGone
