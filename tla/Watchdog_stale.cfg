SPECIFICATION Spec
CONSTANTS
    RestartDelays = {1}
    BACKOFF_CAP_SECS = 3
    FAST_CRASH_THRESHOLD = 3
    ticks_per_check = 2
    miss_limit = 2
    PROBATION_DEADLINE = 6
    SpawnErrors = FALSE
    MaxLost = 0
    MaxCrashRun = 3
    MaxEvents = 1
    MaxRestarts = 0
PROPERTIES ProvenByProgress
CHECK_DEADLOCK FALSE
