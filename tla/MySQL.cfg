\* Requests of every kind at once, two backup ids, one crash.
SPECIFICATION FairSpec
CONSTANTS
    r1 = r1
    r2 = r2
    r3 = r3
    i1 = i1
    i2 = i2
    i3 = i3
    Request = {r1, r2, r3}
    Id = {i1, i2, i3}
    NoId = NoId
    Shared = Shared
    NoObject = NoObject
    Stale = Stale
    Sealed = {i3}
    Asks <- Mixed
    Earlier <- OneFull
    Before = Before
    MaxHead = 1
    MaxCrashes = 1
INVARIANTS
    RefsCountUsers
    RestoredWithoutGap
    OneRestoreAtATime
PROPERTIES
    CleanupAlone
    Answered
CHECK_DEADLOCK FALSE
