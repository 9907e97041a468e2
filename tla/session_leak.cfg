\* A create_export for a chat that does not resolve, and the next request.
SPECIFICATION FairSpec
CHECK_DEADLOCK FALSE
CONSTANTS
    MaxCalls = 2
    Accounts = {a1}
    MaxSessions = 1
    Ops <- LookupOps
PROPERTY EventuallyServed
