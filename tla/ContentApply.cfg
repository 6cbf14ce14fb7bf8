SPECIFICATION MCSpec
CONSTANTS
    Rings = {"canary", "prod"}
    Contents<-MCContents
    Paths<-MCPaths
    YaraPaths = {"q"}
    Hashes = {1, 2}
    x = x
    Requests = {q1, q2}
    q1 = q1
    q2 = q2
    Appliers = {x}
    MaxMoves = 2
    Bad = {2}
    MaxFaults = 1
    MaxVersion = 2
    Halts = TRUE
    Rollbacks = TRUE
INVARIANTS RollbackLeavesServing
PROPERTIES RecordedReleaseOnDisk RolloutReaches EnginesFollow
CHECK_DEADLOCK FALSE
