CONSTANTS
    Pools <- BothPools
    Instances <- ThreeAndOne
    MaxRequests = 3
SPECIFICATION Spec
INVARIANTS
    ReadyIfAnyUp
CHECK_DEADLOCK FALSE
