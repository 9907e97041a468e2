\* A worker is lost and its task redelivered; the archive of the resumed run.
SPECIFICATION Spec
CHECK_DEADLOCK FALSE
CONSTANTS
    Workers = {w1}
    MaxId = 5
    OldMessages <- MCOldMessages
    Media <- MCMedia
    IncludeMedia = TRUE
    BatchSize = 2
    CheckpointEvery = 2
    MaxFloodWaits = 0
    MaxAttempts = 1
    Budget <- LossBudget
INVARIANT ArchiveMatchesLedger
