SPECIFICATION MCSpec
CONSTANTS
    SEGMENT_RECORDS = 2
    SEGMENT_MAX_BYTES = 6
    MaxBytes = 8
    Sizes = {3}
    WriteErrors = TRUE
    MultiByte = TRUE
    MaxPushes = 3
    MaxCrashes = 1
    batch_size = 1
    max_drain_attempts = 2
    max_network_drain_attempts = 2
    MaxAttempts = 4
INVARIANTS DeletedOnlyIfDelivered BudgetPerSegment
PROPERTIES ImplementsQueue ForwardProgress
