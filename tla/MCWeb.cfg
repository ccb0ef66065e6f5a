\* Connection: two attempts, one and the one that follows, supersedes or waits for it.
\* Conversation: two registrations, two invocations that compete for a slot.
CONSTANTS
    MaxConnects = 2
    MaxAttempts = 1
    AutoReconnect = TRUE
    PreparesLNA = TRUE
    Eager = FALSE
    Regs = {r1, r2}
    Limit = 1
    MaxRecent = 1
    ListenerRegisters = FALSE
    MaxConnections = 2
    MaxCalls = 2
    MaxInvocations = 2

SPECIFICATION WebSpec
INVARIANTS
    OneAttempt
    StoredIsCurrent
    RegistrationsAgree
    InvocationsAccepted
PROPERTIES
    RejectionIsFinal
    DisconnectForgets
    OperationsEnd
    WorkEnds
\* The bounds end every behaviour.
CHECK_DEADLOCK FALSE
