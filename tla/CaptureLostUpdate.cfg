\* Two events in flight: the checkpoint keeps one of them.
SPECIFICATION Spec
CONSTANTS
    Marker = Marker
    e1 = e1
    e2 = e2
    e3 = e3
    Events = {e1, e2, e3}
    Stamp <- MCStamp
    Kind <- MCKind
    ByHand = ByHand
    Clients = {c1, c2}
    MaxEvents = 5
    MaxRuns = 1
    MaxResolves = 1
    MaxOverlaps = 1
    MaxDeaths = 0
    MaxCrashes = 0
INVARIANT
    NoAckIsLost
CHECK_DEADLOCK FALSE
