SPECIFICATION Spec
CONSTANTS
    Procs = {p1, p2}
    NoProc = NoProc
    RefreshTokens = {t1, t2}
    NoToken = NoToken
    Commands = {"run", "desktop", "monitor", "clear"}
    QuotaConfigured = TRUE
    FailClosed = FALSE
    Faults = {}
INVARIANTS TypeOK StoredTokenLive
PROPERTIES BlockIsFinal QuotaBeforeCredentials
SYMMETRY Interchangeable
