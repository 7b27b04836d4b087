SPECIFICATION Spec
CONSTANTS
    ClassLists = {}
    Ttls = {1}
    HoldFor = 1
    Floor = 1
    MaxLate = 1
    MaxTime = 2
    None = None
INVARIANT FailureIsReported
CHECK_DEADLOCK FALSE
