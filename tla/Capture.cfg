\* Requests alone and at the same time, two runs of the thread, dead requests, a restart, a recorder of two events.
SPECIFICATION Spec
CONSTANTS
    Marker = Marker
    e1 = e1
    e2 = e2
    e3 = e3
    Events = {e1, e2, e3}
    Stamp <- MCStamp
    Kind <- MCKind
    ByHand = ByHand
    Clients = {c1, c2}
    MaxEvents = 2
    MaxRuns = 2
    MaxResolves = 3
    MaxOverlaps = 1
    MaxDeaths = 1
    MaxCrashes = 1
INVARIANTS
    TypeOK
    AckedIsMirrored
    StoredFixIsComplete
    RowsAreBounded
    FinalizedTraceIsKept
    NoEventInTwoRuns
    OrderIsKept
    LoneResolveIsComplete
SYMMETRY ClientSymmetry
CHECK_DEADLOCK FALSE
