SPECIFICATION Spec
CONSTANTS
    Run = {1}
    Dispatcher = {d1, d2}
    LocalMode = FALSE
    Streamed = {1}
    Observed = {1}
    Qualifying = {}
    Baselined = {}
    StrictPolicy = {}
    Scope = {s}
    scopeOf <- OneScope
    Trial <- FewTrials
    Slots = 2
    CaptureBudget = 2
    Units <- TwoUnits
    Limit = 2
    PageSize = 1
    MaxFence = 2
    BootstrapTTL = 1
    LeaseTTL = 2
    RetryLimit = 2
    MaxRun = 1
    Deadline = 4
INVARIANTS
    TypeOK
    ExecutedOnce
    OnlyNewestLeaseUsable
    AuthorityWindow
    ChargedIffStarted
    FailurePreserved
PROPERTIES
    SettledIsFinal
CHECK_DEADLOCK FALSE
