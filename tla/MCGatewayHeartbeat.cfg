\* A tab that is approved late is given up without a ping.
CONSTANTS
    c1 = c1
    c2 = c2
    c3 = c3
    none = none
    Connections <- MCOne
    Pages <- MCOnePage
    PageOf <- MCPageOfOne
    None = none
    Definitions <- MCNoDefinitions
    SafeName <- MCSafeName
    MaxPerRuntime = 1
    MaxTotal = 1
    MaxBytesPerRuntime = 1
    MaxBytesTotal = 1
    Kinds <- MCKinds
    BrowserErrors <- MCBrowserErrors
    MaxConcurrent = 1
    MaxPerRuntimeCalls = 1
    MaxTombstones = 1
    RecentLimit = 1
    RequestTimeout = 1
    MaxEntries = 1
    MaxConnections = 2
    MaxPerOrigin = 1
    Grace = 4
    MaxPairings = 0
    MaxInvocations = 0
    MaxTime = 0

SPECIFICATION Spec
PROPERTY HeartbeatSparesResponsive
CHECK_DEADLOCK FALSE
