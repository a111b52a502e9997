CONSTANTS
    a1 = a1  a2 = a2  b1 = b1
    NoJob = NoJob
    NoGroup = NoGroup
    Jobs = {a1, a2, b1}
    GroupA = {a1, a2}
    GroupB = {b1}
    Group <- MCGroup
    AllowedCount = 2
    StartCount = 1
    WaiterCount = 2
    SignalInCall = TRUE
SPECIFICATION FairSpec
PROPERTY
    InterruptedThreadComesBack
CHECK_DEADLOCK FALSE
