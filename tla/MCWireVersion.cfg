\* The handshake alone, for what the protocol's documentation says of its messages.
CONSTANTS
    Parts = {"wire"}
    \* Registry: every limit within reach.
    c1 = c1
    c2 = c2
    c3 = c3
    Connections <- MCConnections
    Identities <- MCIdentities
    NoSession = none
    Definitions <- MCDefinitions
    SafeName <- MCSafeName
    MaxPerRuntime = 2
    MaxTotal = 4
    MaxBytesPerRuntime = 3
    MaxBytesTotal = 5
    \* TokenStore: four tokens through a store of two
    Grants = {"g", "h"}
    MaxEntries = 2
    MaxIssued = 4
    \* HttpFront
    Exchanges = {1, 2}
    Kinds = {"tools", "prompts"}
    MaxConcurrent = 1
    \* Wire
    MaxSafeInteger = 2000000000
    Meetings <- MCMeetings
    \* Supervisor
    MaxGenerations = 2
    \* Storage: a tab; what others write stands for the other tabs.
    Tabs = {"t"}
    Keys = {1, 2, 3}
    Times = {1, 2}
    Sizes = {1}
    MaxEntryBytes = 1
    MaxStored = 2
    MaxTotalBytes = 3
    MaxScanEntries = 3
    MaxScanBytes = 4
    MaxForeign = 1
    \* Cube
    Calls = {"a", "b"}
    MaxMoves = 2
    MaxViews = 2
    MaxRevision = 6

SPECIFICATION PartsSpec
INVARIANT
    VersionKept
\* A handshake ends, and so do bounded behaviours.
CHECK_DEADLOCK FALSE
