\* Three requests, two accounts, room for one client, restarts at any moment.
SPECIFICATION Spec
CHECK_DEADLOCK FALSE
CONSTANTS
    MaxCalls = 3
    Accounts = {a1, a2}
    MaxSessions = 1
    Ops <- AllOps
VIEW LiveView
SYMMETRY AccountSymmetry
INVARIANT TypeOK
INVARIANT PoolBounded
INVARIANT Exclusive
INVARIANT LocksMove
PROPERTY SessionKept
