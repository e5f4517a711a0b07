CONSTANTS
    Pools <- BothPools
    Instances <- ThreeAndOne
    MaxRequests = 4
SPECIFICATION Spec
INVARIANTS
    OutstandingExact
    RoundRobinEven
PROPERTIES
    BusyClientSpared
CHECK_DEADLOCK FALSE
