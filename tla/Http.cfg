CONSTANTS
    main = main  w1 = w1  w2 = w2  c1 = c1  c2 = c2
    None = None
    Main = main
    Workers = {w1, w2}
    Conns = {c1, c2}
SPECIFICATION Spec
SYMMETRY MCSymmetry
CHECK_DEADLOCK FALSE
INVARIANTS
    RequestsAreHeld
    ResumesTheSuspended
    OneResponse
PROPERTY
    ReplyIsResumed
