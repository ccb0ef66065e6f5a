\* What connections own: one tab that comes back, a tool, a request to it.
CONSTANTS
    c1 = c1
    c2 = c2
    c3 = c3
    none = none
    Connections <- MCTwo
    Pages <- MCOnePage
    PageOf <- MCPageOfTwo
    None = none
    Definitions <- MCOneTool
    SafeName <- MCSafeName
    MaxPerRuntime = 1
    MaxTotal = 1
    MaxBytesPerRuntime = 1
    MaxBytesTotal = 1
    Kinds <- MCKinds
    BrowserErrors <- MCBrowserErrors
    MaxConcurrent = 1
    MaxPerRuntimeCalls = 1
    MaxTombstones = 1
    RecentLimit = 1
    RequestTimeout = 1
    MaxEntries = 1
    MaxConnections = 2
    MaxPerOrigin = 1
    Grace = 2
    MaxPairings = 1
    MaxInvocations = 1
    MaxTime = 1

SPECIFICATION Spec
SYMMETRY MCSymmetry
INVARIANTS
    MapsAgree
PROPERTIES
    ImplementsOwnership
    ImplementsBroker
CHECK_DEADLOCK FALSE
