\* Two users, replies that may be later than the time to live.
SPECIFICATION LockFairSpec
CONSTANTS
    h1 = h1
    h2 = h2
    NoHolder = NoHolder
    Holder <- TwoHolders
    Half = 2
    Prompt = FALSE
    MaxErrors = 1
    MaxLosses = 1
INVARIANTS
    NothingLeftBehind
PROPERTIES
    OnlyOwnerDeletes
    OnlyOwnerExtends
    KeyFreed
CHECK_DEADLOCK FALSE
