SPECIFICATION Spec
CONSTANTS
    w1 = w1
    w2 = w2
    t0 = t0
    t1 = t1
    bad = bad
    ren = ren
    cut = cut
    mangled = mangled
    Writers = {w1, w2}
    Texts <- AllTexts
    Initial = t0
    Mangled = {mangled, cut}
    Broken = {bad, cut}
    Invalid = {cut}
    ModuleOf <- Names
    Jobs <- AllJobs
    Exclusive = TRUE
    MaxForeign = 1
SYMMETRY Symmetry
CHECK_DEADLOCK FALSE
INVARIANTS
    TypeOK
    SuccessIsVerified
    FailureIsUndoneOrTold
PROPERTIES
    OverwritesOnlySeen
