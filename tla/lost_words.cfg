CONSTANTS
    MaxMessages = 4
    MaxTurns = 4
    MaxRestarts = 0
    MaxReconciliations = 1
SPECIFICATION TurnsSpec
PROPERTIES
    FoldedWordsWereHeard
CHECK_DEADLOCK FALSE
