SPECIFICATION FairSpec
CONSTANTS
    Procs = {p1, p2}
    NoProc = NoProc
    RefreshTokens = {t1}
    NoToken = NoToken
    Commands = {"run", "desktop"}
    QuotaConfigured = FALSE
    FailClosed = FALSE
    Faults = {}
PROPERTIES EveryInvocationEnds
