SPECIFICATION Spec
CONSTANTS
    RestartDelays = {0, 1, 4}
    BACKOFF_CAP_SECS = 3
    FAST_CRASH_THRESHOLD = 3
    ticks_per_check = 2
    miss_limit = 2
    PROBATION_DEADLINE = 6
    SpawnErrors = TRUE
    MaxLost = 1
    MaxCrashRun = 3
    MaxEvents = 1
    MaxRestarts = 1
INVARIANTS NoSecondAgent BackoffGrows
PROPERTIES ProvenByBeat HungIsKilled ProbationEnds
CHECK_DEADLOCK FALSE
