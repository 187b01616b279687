SPECIFICATION FairSpec
CONSTANTS
    Sessions = {s1, s2}
    NoSession = NoSession
    MaxCalls = 2
INVARIANTS
    ProviderCalledAtMostOnce
    RejectedBeforeProvider
    RecordedMergeIsReal
    UnsettledMergeKeepsItsClaims
PROPERTIES
    LandedMergesAreRecorded
CHECK_DEADLOCK FALSE
