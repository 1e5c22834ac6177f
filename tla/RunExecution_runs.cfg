SPECIFICATION Spec
CONSTANTS
    Run = {1, 2, 3}
    Dispatcher = {d1}
    LocalMode = TRUE
    Streamed = {1, 2}
    Observed = {1, 2}
    Qualifying = {}
    Baselined = {2}
    StrictPolicy = {1}
    Scope = {s}
    scopeOf <- OneScope
    Trial <- FewTrials
    Slots = 1
    CaptureBudget = 1
    Units <- TwoUnits
    Limit = 4
    PageSize = 1
    MaxFence = 1
    BootstrapTTL = 1
    LeaseTTL = 1
    RetryLimit = 1
    MaxRun = 1
    Deadline = 1
INVARIANTS
    AllowIsSound
PROPERTIES
    ImplementsLedger
    BlockIsForever
CHECK_DEADLOCK FALSE
