\* Two overlapping executions, prompt replies, failing calls.
SPECIFICATION FairSpec
CONSTANTS
    h1 = h1
    h2 = h2
    NoHolder = NoHolder
    Holder <- TwoHolders
    Half = 1
    Prompt = TRUE
    MaxErrors = 1
    MaxLosses = 1
    MaxFaults = 2
INVARIANTS
    MutualExclusion
    MessagesMatchRecord
PROPERTIES
    BackupUnderLock
    LockFreed
CHECK_DEADLOCK FALSE
