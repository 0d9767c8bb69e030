SPECIFICATION FairSession
CONSTANTS
    Callers = {c1, c2}
    Discoverers = {c1}
    RemoteTools <- MCRemoteTools
    Policies <- MCPolicies
    Overrides <- MCOverrides
    Cursors = {k1}
    MaxPages = 2
    MaxTools = 2
    Nil = Nil
INVARIANTS ShutdownResultIsTrue SnapshotComplete
PROPERTIES SessionComesToRest
CHECK_DEADLOCK FALSE
