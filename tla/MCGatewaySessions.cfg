\* Who is connected: three connections of two tabs, approvals and resumes, no requests.
CONSTANTS
    c1 = c1
    c2 = c2
    c3 = c3
    none = none
    Connections <- MCThree
    Pages <- MCPages
    PageOf <- MCPageOfThree
    None = none
    Definitions <- MCNoDefinitions
    SafeName <- MCSafeName
    MaxPerRuntime = 1
    MaxTotal = 1
    MaxBytesPerRuntime = 1
    MaxBytesTotal = 1
    Kinds <- MCKinds
    BrowserErrors <- MCBrowserErrors
    MaxConcurrent = 1
    MaxPerRuntimeCalls = 1
    MaxTombstones = 1
    RecentLimit = 1
    RequestTimeout = 1
    MaxEntries = 4
    MaxConnections = 4
    MaxPerOrigin = 2
    Grace = 2
    MaxPairings = 0
    MaxInvocations = 0
    MaxTime = 0

SPECIFICATION Spec
SYMMETRY MCSymmetry
INVARIANTS
    ApprovalsBounded
    ResumeReady
PROPERTIES
    RetiredIsReplaced
CHECK_DEADLOCK FALSE
