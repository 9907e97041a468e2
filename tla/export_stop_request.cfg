\* A pause or a cancel that the engine's own writes race.
SPECIFICATION Spec
CHECK_DEADLOCK FALSE
CONSTANTS
    Workers = {w1}
    MaxId = 5
    OldMessages <- MCOldMessages
    Media <- MCMedia
    IncludeMedia = TRUE
    BatchSize = 2
    CheckpointEvery = 2
    MaxFloodWaits = 0
    MaxAttempts = 1
    Budget <- OneRequest
PROPERTY StopSticks
