SPECIFICATION FairSpec
CONSTANTS
    t1 = t1
    t2 = t2
    c1 = c1
    Threads = {t1, t2}
    Clients = {c1}
    Backlogs = {0, 2}
    Capacity = 2
    QueueSize = 2
    MaxLines = 5
CHECK_DEADLOCK FALSE
INVARIANTS
    NoGap
    LinesInOrder
PROPERTIES
    GoneClientLeaves
    LinesArrive
