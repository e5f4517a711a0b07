SPECIFICATION FairSpec
CONSTANTS
    r1 = r1
    Requests = {r1}
    Payloads <- UpToTwo
CHECK_DEADLOCK FALSE
INVARIANTS
    SplitKeepsText
    AlignedAnswer
    NoChildLeft
PROPERTIES
    ProxyResponds
