SPECIFICATION Spec
CONSTANTS
    Run = {1}
    Dispatcher = {d1}
    LocalMode = FALSE
    Streamed = {}
    Observed = {}
    Qualifying = {}
    Baselined = {}
    StrictPolicy = {}
    Scope = {s}
    scopeOf <- OneScope
    Trial <- JustBad
    Slots = 1
    CaptureBudget = 2
    Units <- TwoUnits
    Limit = 2
    PageSize = 1
    MaxFence = 3
    BootstrapTTL = 1
    LeaseTTL = 1
    RetryLimit = 3
    MaxRun = 2
    Deadline = 3
INVARIANTS
    CompletionDecides
CHECK_DEADLOCK FALSE
