\* A remote backup whose live handlers may lose their lock.
SPECIFICATION Spec
CONSTANTS
    b1 = b1
    Backup = {b1}
    Remote = {b1}
    Cancellable = {}
    MaxQueueSize = 1
    Attempts <- BackupRetried
    Concurrency <- OneAtATime
    MaxStalled = 1
    MaxRuns = 3
    MaxFaults = 1
    LockLoss = TRUE
    MaxCrashes = 0
INVARIANTS
    RunsBounded
    CatalogueSound
    SuccessNoticeBacked
PROPERTIES
    ImplementsCatalogue
CHECK_DEADLOCK FALSE
