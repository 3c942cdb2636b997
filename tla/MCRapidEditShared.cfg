SPECIFICATION Spec
CONSTANTS
    w1 = w1
    w2 = w2
    t0 = t0
    t1 = t1
    bad = bad
    ren = ren
    cut = cut
    mangled = mangled
    Writers = {w1}
    Texts <- AllTexts
    Initial = t0
    Mangled = {mangled, cut}
    Broken = {bad, cut}
    Invalid = {cut}
    ModuleOf <- Names
    Jobs <- OnePatch
    Exclusive = FALSE
    MaxForeign = 1
CHECK_DEADLOCK FALSE
PROPERTY
    RollbackUndoesOwnWrite
