SPECIFICATION Spec
CONSTANTS
    Groups = {g1,g2}
    g1 = g1
    g2 = g2
    NoPolicy = NoPolicy
    Policies <- MCPolicies
    EnvPolicies <- MCEnvPolicies
    Usages <- MCUsages
    MaxChanges = 1
    MissingBlock = TRUE
    FailClosed = TRUE
    Errors = TRUE
SYMMETRY Interchangeable
INVARIANTS TypeOK PolicyWasInForce UnblockHonoured
PROPERTIES DailyBlocksAreOfToday
