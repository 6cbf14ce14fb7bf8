SPECIFICATION Spec
CONSTANTS
    Versions = {1, 2}
    Bad = {1}
    Files = {agent, watchdog}
    Overlap = TRUE
    MaxCrashes = 0
    MaxFaults = 0
INVARIANTS ActiveComplete
