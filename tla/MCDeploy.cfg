SPECIFICATION Spec
CONSTANTS
    d1 = d1
    d2 = d2
    t0 = t0
    t1 = t1
    bad = bad
    mangled = mangled
    Absent = Absent
    Outside = Outside
    Deployers = {d1, d2}
    Texts = {t0, t1, bad, mangled}
    Found = {t0, Absent}
    Mangled = {mangled, bad}
    Edited = t0
    Broken = {bad}
    Jobs <- SomeJobs
    Exclusive = TRUE
    MaxForeign = 1
SYMMETRY Symmetry
CHECK_DEADLOCK FALSE
INVARIANTS
    TypeOK
    SuccessIsVerified
    FailureIsUndoneOrTold
PROPERTIES
    FailureIsKept
    RollbackUndoesOwnLoad
