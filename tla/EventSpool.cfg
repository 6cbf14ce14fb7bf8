SPECIFICATION Spec
CONSTANTS
    SEGMENT_RECORDS = 2
    SEGMENT_MAX_BYTES = 5
    MaxBytes = 7
    Sizes = {2, 3}
    WriteErrors = TRUE
    MultiByte = FALSE
    MaxPushes = 4
    MaxCrashes = 1
INVARIANTS TypeOK SegmentNames NoSilentLoss LossIsCounted
CHECK_DEADLOCK FALSE
