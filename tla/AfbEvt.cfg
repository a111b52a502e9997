CONSTANTS
    e1 = e1  e2 = e2
    exported = exported  browser = browser  bus = bus
    Events = {e1, e2}
    Listeners = {exported, browser, bus}
    HasPush = {exported, browser}
    HasBroadcast = {exported, browser, bus}
    HasAdd = {exported}
    MaxId = 4
    WrapId = 3
    MaxRef = 2
    MaxActivity = 2
SPECIFICATION Spec
SYMMETRY MCSymmetry
INVARIANTS
    WatchesAreLinkedTwice
    RemoteKnowsItsEvents
