CONSTANTS
    c1 = c1  c2 = c2  h1 = h1
    u1 = u1  u2 = u2  v1 = v1
    api = api
    NULL = NULL
    NoSession = NoSession
    NoContext = NoContext
    NoSocket = NoSocket
    LongUuid = LongUuid
    MaxSessions = 1
    Timeout = 1
    InitToken = 1
    Uuids = {u1}
    Apis = {api}
    Values = {}
    MaxTime = 2
    MaxToken = 2
    Contexts = {c1, c2}
    Sockets = {h1}
    Verbs <- MCVerbs
    Loas = {1, 8}
SPECIFICATION Spec
SYMMETRY MCSymmetry
INVARIANTS
    RefcountIsHolders
    ClosedSessionsAreHeld
    OnlyValidatedChange
