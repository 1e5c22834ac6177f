SPECIFICATION SettlingSpec
CONSTANTS
    Run = {1}
    Dispatcher = {d1}
    LocalMode = FALSE
    Streamed = {1}
    Observed = {1}
    Qualifying = {}
    Baselined = {}
    StrictPolicy = {}
    Scope = {s}
    scopeOf <- OneScope
    Trial <- JustGood
    Slots = 2
    CaptureBudget = 1
    Units <- TwoUnits
    Limit = 2
    PageSize = 1
    MaxFence = 2
    BootstrapTTL = 1
    LeaseTTL = 2
    RetryLimit = 2
    MaxRun = 1
    Deadline = 3
    p1 = p1
    Nobody = Nobody
PROPERTIES
    EveryRunSettles
    DeliverySettles
    RouteRetires
CHECK_DEADLOCK FALSE
