\* Pause, then resume, while the first task is still between two checkpoints.
SPECIFICATION Spec
CHECK_DEADLOCK FALSE
CONSTANTS
    Workers = {w1, w2}
    MaxId = 4
    OldMessages = {2, 3}
    Media = {2, 4}
    IncludeMedia = TRUE
    BatchSize = 1
    CheckpointEvery = 2
    MaxFloodWaits = 0
    MaxAttempts = 1
    Budget <- TwoRequests
INVARIANT NeverReprocessed
