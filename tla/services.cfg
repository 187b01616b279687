SPECIFICATION FairServices
CONSTANTS
    card = card
    reply1 = reply1
    NoKey = NoKey
    MaxUpdates = 2
    MaxUpdateAttempts = 3
    PollLimit = 2
    MaxFaults = 2
    Keys = {card, reply1}
    Cards = {card}
    MaxSends = 2
    MaxVersion = 3
    delegation = delegation
    watch1 = watch1
    watch2 = watch2
    loop1 = loop1
    loop2 = loop2
    NoItem = NoItem
    Delegations = {delegation}
    MaxTasks = 2
    MaxOpen = 1
    Watches = {watch1, watch2}
    Sweepers = {loop1, loop2}
INVARIANTS
    CursorPassesOnlySettled
    ProcessedMeansHandled
    SentMeansShown
    JoinsReportEveryMember
    OneWakePerClaim
PROPERTIES
    
    
    EveryDelegationEnds
CHECK_DEADLOCK FALSE
