SPECIFICATION ManagerSpec
CONSTANTS
    Connections = {c1, c2, c3, c4}
    MaxConnections = 3
INVARIANT CountIsActive
