SPECIFICATION DutiesSpec
CONSTANTS
    MaxHeads = 2
    Groups = {one, two}
    one = one
    two = two
    Calls = {one, two}
    Tools = {"start_job", "send_to_thread"}
    External = {"send_to_thread"}
    Profiles <- OneToolEach
    MaxTurns = 2
    MaxTerms = 2
    MaxUpsets = 1
    MaxActs = 2
    Inspectors = {one, two}
    MaxFences = 2
SYMMETRY Symmetry
INVARIANTS
    DutiesTypeOK
    OfferedHeadIsProven
    OneThreadPerLens
    ActsAtMostOnce
    NothingActsBehindTheAnswer
    ReceiptsAgree
PROPERTIES
    RequeuedTurnDidNothing
CHECK_DEADLOCK FALSE
