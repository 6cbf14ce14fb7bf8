SPECIFICATION MCSpec
CONSTANTS
    Rings = {"canary", "prod"}
    Contents<-MCContents
    Paths<-MCPaths
    YaraPaths = {"q"}
    Hashes = {1, 2}
    x = x
    Requests = {q1, q2}
    q1 = q1
    q2 = q2
    Appliers = {x}
    MaxMoves = 1
    Bad = {2}
    MaxFaults = 0
    MaxVersion = 2
    Halts = TRUE
    Rollbacks = TRUE
PROPERTIES RollbackReaches
CHECK_DEADLOCK FALSE
