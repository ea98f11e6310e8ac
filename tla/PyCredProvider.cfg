SPECIFICATION FairSpec
CONSTANTS
    Procs = {p1, p2}
    NoProc = NoProc
    Commands <- AllCommands
    Reuse = TRUE
    QuotaConfigured = TRUE
    FailClosed = FALSE
    Faults <- AllFaults
INVARIANTS TypeOK PortsHeld
PROPERTIES ImplementsGate OnlyThePageLasts
