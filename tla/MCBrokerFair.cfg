\* Refinement and liveness: two requests, one slot per connection.
CONSTANTS
    c1 = c1
    c2 = c2
    tool = tool
    prompt = prompt
    Connections <- MCConnections
    Kinds <- MCKinds
    BrowserErrors <- MCBrowserErrors
    MaxConcurrent = 2
    MaxPerRuntime = 1
    MaxTombstones = 1
    RecentLimit = 2
    RequestTimeout = 1
    MaxInvocations = 2
    MaxTime = 2

SPECIFICATION FairSpec
PROPERTIES
    ImplementsLedger
    EveryCallSettles
CHECK_DEADLOCK FALSE
