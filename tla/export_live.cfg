\* One fair worker against an adversarial Telegram.
SPECIFICATION FairSpec
CHECK_DEADLOCK FALSE
CONSTANTS
    Workers = {w1}
    MaxId = 4
    OldMessages = {1, 3}
    Media = {1, 4}
    IncludeMedia = TRUE
    BatchSize = 1
    CheckpointEvery = 2
    MaxFloodWaits = 1
    MaxAttempts = 2
    Budget <- FairBudget
PROPERTY EventuallySettles
