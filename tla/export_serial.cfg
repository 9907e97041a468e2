\* One worker: tasks of one export never overlap, but they are lost and resumed.
SPECIFICATION Spec
CHECK_DEADLOCK FALSE
CONSTANTS
    Workers = {w1}
    MaxId = 5
    OldMessages <- MCOldMessages
    Media <- MCMedia
    IncludeMedia = TRUE
    BatchSize = 2
    CheckpointEvery = 2
    MaxFloodWaits = 0
    MaxAttempts = 1
    Budget <- SerialBudget
VIEW RowView
INVARIANT TypeOK
INVARIANT CheckpointExact
INVARIANT NeverReprocessed
INVARIANT NoGap
INVARIANT MediaSettled
PROPERTY ImplementsChatCopy
