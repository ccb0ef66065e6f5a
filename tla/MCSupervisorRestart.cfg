\* A restart, as its button offers it.
SPECIFICATION ServiceFairSpec
CONSTANTS
    MaxGenerations = 2
PROPERTIES
    RestartStartsAgain
CHECK_DEADLOCK FALSE
