SPECIFICATION Spec
CONSTANTS
    Procs = {p1, p2}
    NoProc = NoProc
    RefreshTokens = {t1}
    NoToken = NoToken
    Commands = {"run", "refreshIfNeeded", "desktopSilent", "mcp", "show"}
    QuotaConfigured = TRUE
    FailClosed = TRUE
    Faults = {"crash", "revoke", "noIdToken", "quotaDown", "writeFails"}
INVARIANTS PortHeld SilentStaysSilent
PROPERTIES ImplementsGate
SYMMETRY Interchangeable
