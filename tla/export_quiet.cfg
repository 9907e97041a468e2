\* One worker, no loss and no database error: what the user asked for and finds.
SPECIFICATION StopSpec
CHECK_DEADLOCK FALSE
CONSTANTS
    Workers = {w1}
    MaxId = 6
    OldMessages = {1, 2, 3, 4, 5}
    Media = {1, 4, 5}
    IncludeMedia = TRUE
    BatchSize = 2
    CheckpointEvery = 3
    MaxFloodWaits = 0
    MaxAttempts = 1
    Budget <- QuietBudget
INVARIANT ArchiveMatchesLedger
INVARIANT StopBounded
