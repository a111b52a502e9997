CONSTANTS
    r1 = r1  r2 = r2  c1 = c1  c2 = c2  e1 = e1
    None = None
    Reqs = {r1, r2}
    Clients = {c1, c2}
    Owner <- MCOwner
    Names = {e1}
    IdMod = 3
    MaxEventId = 1
    Closers = {r1}
    MaxDown = 1
SPECIFICATION Spec
INVARIANTS
    UsersAreHeld
    RepliesMatch
    EventsAreMirrored
PROPERTY
    CallsAreAnswered
