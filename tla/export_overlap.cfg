\* Two workers, redelivery and resume: two tasks of one export overlap.
SPECIFICATION Spec
CHECK_DEADLOCK FALSE
CONSTANTS
    Workers = {w1, w2}
    MaxId = 4
    OldMessages = {2, 3}
    Media = {2, 4}
    IncludeMedia = TRUE
    BatchSize = 1
    CheckpointEvery = 2
    MaxFloodWaits = 0
    MaxAttempts = 1
    Budget <- OverlapBudget
VIEW RowView
SYMMETRY WorkerSymmetry
INVARIANT CheckpointCovers
INVARIANT CompletedIsComplete
INVARIANT CoverageInv
INVARIANT FilesNotOvercounted
