SPECIFICATION Spec
CONSTANTS
    Sessions = {s1, s2}
    NoSession = NoSession
    MaxCalls = 2
INVARIANTS
    UnknownMergeKeepsItsClaims
CHECK_DEADLOCK FALSE
