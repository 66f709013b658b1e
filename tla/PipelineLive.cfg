\* Two backups that share the worker process, which crashes once.
SPECIFICATION FairSpec
CONSTANTS
    b1 = b1
    b2 = b2
    Backup = {b1, b2}
    Remote = {b2}
    Cancellable = {}
    MaxQueueSize = 1
    Attempts <- OneAttempt
    Concurrency <- OneAtATime
    MaxStalled = 1
    MaxRuns = 2
    MaxFaults = 0
    LockLoss = FALSE
    MaxCrashes = 1
PROPERTIES
    QueuesDrain
    AcceptedSettles
CHECK_DEADLOCK FALSE
