CONSTANTS
    r1 = r1  r2 = r2  r3 = r3  s1 = s1  s2 = s2  e1 = e1
    Reqs = {r1, r2, r3}
    Sessions = {s1, s2}
    Owner <- MCOwner
    Names = {e1}
    MaxEventId = 1
    Closers = {r1}
    MaxDown = 1
    Failing = {r1}
    Mortal = {s2}
    MaxCrashes = 1
SPECIFICATION Spec
INVARIANTS
    DestinationsAreHeld
    EventsAreMirrored
PROPERTY
    CallsAreAnswered
