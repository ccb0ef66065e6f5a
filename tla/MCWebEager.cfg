\* Three attempts: one that fails, and two that follow it.
CONSTANTS
    MaxConnects = 3
    MaxAttempts = 2
    AutoReconnect = TRUE
    PreparesLNA = TRUE
    Eager = TRUE
SPECIFICATION Spec
CHECK_DEADLOCK FALSE
INVARIANT OneAttempt
