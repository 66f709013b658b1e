\* A remote backup, a client that may cancel it, a crash and a failing call.
SPECIFICATION Spec
CONSTANTS
    b1 = b1
    Backup = {b1}
    Remote = {b1}
    Cancellable = {b1}
    MaxQueueSize = 1
    Attempts <- TwoAttempts
    Concurrency <- TwoAtATime
    MaxStalled = 1
    MaxRuns = 3
    MaxFaults = 1
    LockLoss = FALSE
    MaxCrashes = 1
INVARIANTS
    TypeOK
    JobHasRow
    LiveRunOwnsJob
    OutcomeAgrees
PROPERTIES
    FinishedFileFrozen
CHECK_DEADLOCK FALSE
