SPECIFICATION Spec
CONSTANTS
    Versions = {1, 2, 3}
    Bad = {2}
    Files = {agent, watchdog}
    Overlap = FALSE
    MaxCrashes = 1
    MaxFaults = 1
INVARIANTS ActiveComplete LastProvenStays
PROPERTIES RollbackToKnownGood BadReleaseLeaves
