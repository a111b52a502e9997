CONSTANTS
    a1 = a1  a2 = a2  a3 = a3  n1 = n1
    NoJob = NoJob
    NoGroup = NoGroup
    Jobs = {a1, a2, a3, n1}
    GroupA = {a1, a2, a3}
    GroupB = {}
    Group <- MCGroup
    AllowedCount = 2
    StartCount = 1
    WaiterCount = 2
    SignalInCall = FALSE
SPECIFICATION FairSpec
INVARIANTS
    NoSadSituation
    RemainsIsFreePlaces
    NoLostWakeup
    CancelIsAlone
    NothingLeftBehind
PROPERTIES
    StartsInGroupOrder
    EveryJobEnds
    TerminateReturns
    ImplementsPool
CHECK_DEADLOCK FALSE
