SPECIFICATION MCSpec
CHECK_DEADLOCK FALSE
CONSTANTS
    p1 = p1
    p2 = p2
    k1 = k1
    k2 = k2
    k3 = k3
    Component = {k1, k2, k3}
    Digest = {1, 2}
    Input <- MCInput
    Action <- MCAction
    Predicate <- MCPredicate
    Required = "COMMITTED"
    Blindness <- MCBlindness
    MaxActions = 2
    MaxReceipts = 2
    MaxVersion = 2
    Claim = {1, 2}
    Given = {1}
    Definition <- MCDefinition
    Change <- MCChange
    Artifact <- MCArtifact
    Requested <- MCRequested
    MaxAge = 0
    MaxRuns = 3
    MaxBaselines = 1
    MaxHour = 1
    base = base
    cand = cand
    Property = {p1, p2}
    Config = {base, cand}
    Unbound = {}
    Reuse <- MCReuse
    Part = {k1, k2, k3}
    Content = {1, 2}
    Arguments <- MCArguments
    User = {o, u}
    Owner = o
    Policy <- MCPolicy
    Window = 1
    ExceptionTTL = 1
    GrantTTL = 1
    MaxEvidence = 3
    MaxPlans = 1
    MaxExceptions = 1
    MaxPolicies = 2
    MaxGrants = 1
    MaxReleases = 2
INVARIANTS
    BlockedPropertyBlocks
