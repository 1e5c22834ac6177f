SPECIFICATION MCSpec
CHECK_DEADLOCK FALSE
CONSTANTS
    Schedule = {1, 2}
    Ticker = {p1, p2}
    Interval = 2
    Deletion = Deletion
    None = None
    p1 = p1
    p2 = p2
    Sender = {p1, p2}
    MaxTries = 3
    RetryWindow = 2
    KeyWindow = 3
    NoCall = NoCall
    Releases = {1, 2}
    Reconciler = {p1, p2}
    MaxAttempts = 2
    Poll = 1
    MaxInstalls = 2
    MaxRefresh = 1
    Nobody = Nobody
    Enterprise = 3
    Paid = 1
    Period = 2
    TrialDays = 1
    GraceDays = 1
    MaxSubscriptions = 2
    MaxEvents = 4
    MaxTime = 3
    Reader = {p1}
    Key = {1, 2}
    RowLimit = 2
    Requalify = 1
    MaxRows = 2
    MaxClock = 1
    Component = {"prompt"}
    Value = {1}
    Position <- MCPosition
    Lifetime = 1
    Validity = {1, 2}
    MaxRecords = 4
    MaxHealth = 2
    MaxSourceTime = 1
    Tool <- MCTool
    Version = {1, 2}
    PageSize = 1
    MaxPages = 2
    Slot = {"prompt", "tools"}
    RequestKey = {1}
    Document <- MCDocument
    MaxCatalogs = 2
    MaxServerChanges = 2
    Object = {o1, o2}
    Request = {1, 2}
    NoObject = NoObject
    Definition <- MCDefinition
    Revisited <- MCRevisited
    Mapping <- MCMapping
    MaxLeaves = 3
INVARIANTS
    DifferencesAreAnnounced
    FreshnessIsEarned
    ComparisonIsTrue
    ReviewNeverPromotes
    SentAtMostOnce
    CreatedAtMostOnce
    FollowedIsCurrent
    EstablishedIsTrue
    DryRunIsConservative
    ErasureIsAllOrNothing
PROPERTIES
    RunsAreSpaced
    NoRunAfterStop
    UsageRenewsOnce
