\* A batch whose import started but whose media echo is not confirmed.
SPECIFICATION Spec
CHECK_DEADLOCK FALSE
CONSTANTS
    MaxId = 5
    MediaIds = {2, 3}
    PageSize = 2
    BatchSize = 2
    Limit = 3
    Window <- MCWindow
    RunModes = {"full"}
    FaultKinds = {"badEcho"}
    MaxRuns = 2
    MaxFaults = 1
INVARIANT NoDuplicate
