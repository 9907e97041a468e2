\* Runs of every mode, each stopped by faults, over one state file.
SPECIFICATION Spec
CHECK_DEADLOCK FALSE
CONSTANTS
    MaxId = 5
    MediaIds = {2, 3}
    PageSize = 2
    BatchSize = 2
    Limit = 3
    Window <- MCWindow
    RunModes <- Modes
    FaultKinds <- Faults
    MaxRuns = 3
    MaxFaults = 2
INVARIANT TypeOK
INVARIANT NoSkip
INVARIANT CopiesBounded
INVARIANT OldestFirst
INVARIANT DoneIsComplete
