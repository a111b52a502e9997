SPECIFICATION ServicesSpec
CONSTANTS
    h1 = h1  h2 = h2
    lib1 = lib1  lib2 = lib2  lib3 = lib3  remote = remote  n1 = n1  n2 = n2  n3 = n3
    Bindings = {lib1, lib2, lib3, remote}
    Sub = {lib1, lib3}
    Remotes = {remote}
    Name <- MCName
    Names = {n1, n2, n3}
    BadName = BadName
    Listening = {lib1}
    Events = {e}
    Calls = {q1}
    Clients = {c1}
    ShareSession = TRUE
    MaxSessions = 2
    Timeout = 1
    InitToken = 1
    Uuids = {u1, u2, u3}
    LongUuid = LongUuid
    NULL = NULL
    Apis = {api}
    Values = {}
    NoSession = NoSession
    MaxTime = 2
    MaxToken = 1
    Hooks = {h1, h2}
    Traced <- MCTraced
INVARIANTS
    ServicesKeepTheirSession
    TracedRequestsAreHeld
PROPERTY
    FoundSessionIsAlive
SYMMETRY MCSymmetry
CHECK_DEADLOCK FALSE
