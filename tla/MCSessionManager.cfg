SPECIFICATION FairSpec
CONSTANTS
    Connections = {c1, c2, c3, c4}
    MaxConnections = 3
INVARIANTS
    SlotsAccounted
    ServicesOutliveSessions
PROPERTIES
    ShutdownEnds
