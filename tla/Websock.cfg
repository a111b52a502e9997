CONSTANTS
    Frames <- MCFrames
    MaxFrames = 4
    Accepts = {"text"}
    Max7 = 3
    Max16 = 7
    maxlength = 6
SPECIFICATION Spec
CHECK_DEADLOCK FALSE
INVARIANTS
    SentIsReceived
    NeverAstray
    ClosedForAReason
