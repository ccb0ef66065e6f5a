\* Safety: three requests over two connections, one slot short of each limit.
CONSTANTS
    c1 = c1
    c2 = c2
    tool = tool
    prompt = prompt
    Connections <- MCConnections
    Kinds <- MCKinds
    BrowserErrors <- MCBrowserErrors
    MaxConcurrent = 3
    MaxPerRuntime = 2
    MaxTombstones = 1
    RecentLimit = 2
    RequestTimeout = 1
    MaxInvocations = 3
    MaxTime = 2

SPECIFICATION Spec
SYMMETRY MCSymmetry
INVARIANTS
    TypeOK
    ActiveMatchesPending
    CapacityRespected
    PendingIffUnsettled
    AnswerIsOwners
    TombstonesSound
    RecentAgrees
CHECK_DEADLOCK FALSE
