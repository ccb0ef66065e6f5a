\* Three attempts: one that fails, one by the timer, and one that must not follow.
CONSTANTS
    MaxConnects = 3
    MaxAttempts = 1
    AutoReconnect = TRUE
    PreparesLNA = FALSE
    Eager = FALSE
SPECIFICATION Spec
CHECK_DEADLOCK FALSE
PROPERTY RevocationIsFinal
