SPECIFICATION Spec
CONSTANTS
    Invocations = {i1}
    Interval = 2
    Own = {e1, e2, e3}
    Foreign = {f1}
    PageSize = 2
    MaxLength = 4
    MaxChanges = 2
INVARIANTS
    TypeOK
    NoSessionLeft
    ListedIsTheList
PROPERTIES
    RequestsSpaced
    EveryReadEnds
CHECK_DEADLOCK FALSE
