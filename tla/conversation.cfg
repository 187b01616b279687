CONSTANTS
    MaxMessages = 2
    MaxTurns = 3
    MaxRestarts = 1
    MaxReconciliations = 2
SPECIFICATION FairTurnsSpec
INVARIANTS
    TurnsTypeOK
    ControllerServesOneTurn
    SubmittedBurstWasHeard
    RepeatsAreMarked
PROPERTIES
    SettlesEveryMessage
CHECK_DEADLOCK FALSE
