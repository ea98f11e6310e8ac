SPECIFICATION Spec
CONSTANTS
    Procs = {p1, p2}
    NoProc = NoProc
    RefreshTokens = {t1, t2}
    NoToken = NoToken
    Commands = {"run", "mcp"}
    QuotaConfigured = TRUE
    FailClosed = FALSE
    Faults = {}
PROPERTY OnlyRejectedDiscarded
