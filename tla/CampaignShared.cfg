\* Two modes, one prompt in common, one permit, one retry, two faults.
SPECIFICATION FairSpec
CONSTANTS
    lean = lean
    full = full
    i1 = i1
    i2 = i2
    shared = shared
    own = own
    None = None
    Threads = {lean, full}
    Prompts = {shared, own}
    Limit = 1
    Retries = 1
    Capacity = 2
    Fill = 2
    MaxTime = 2
    Order <- ModeOrder
    Items = {i1}
    Asks <- Prompted
    Configs <- AllConfigs
    Pairs <- Paired
    CpuWorkers = 2
    MaxFaults = 1
CHECK_DEADLOCK FALSE
INVARIANTS
    CompleteIsEarned
    AnsweredOnce
    GrantsWithinRate
PROPERTIES
    FinishedModesKept
    ResumeCompletes
