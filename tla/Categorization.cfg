\* Scheduled and requested runs over a listing that changes, with calls that fail.
SPECIFICATION FairSpec
CONSTANTS
    i1 = i1
    i2 = i2
    i3 = i3
    i4 = i4
    Issues = {i1, i2, i3, i4}
    HasUrl = {i1, i4}
    Skipped = {i2}
    Listings <- MCListings
    Runs = {r1}
    PageSize = 1
    MaxPages = 3
    Limits <- MCLimits
    NoLimit = NoLimit
    Concurrency = 2
    MaxRetries = 2
    ParseRetries = 1
    MaxChanges = 1
    MaxFaults = 4
INVARIANTS
    TypeOK
    ListingIsExact
    OpeningHidesNothing
    CallsAreBounded
    PermitsAddUp
PROPERTIES
    RunEnds
    SchedulerGoesOn
