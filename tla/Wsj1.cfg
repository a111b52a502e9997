CONSTANTS
    k1 = k1  k2 = k2
    Calls = {k1, k2}
    MaxGenId = 2
    Slow = {k1}
    MaxDown = 1
SPECIFICATION Spec
CHECK_DEADLOCK FALSE
INVARIANTS
    UsersAreHeld
    RepliesMatch
PROPERTY
    CallsAreReplied
