SPECIFICATION PackSpec
CONSTANTS
    Profiles <- MCProfiles
    Setups <- MCSetups
    Requests <- MCRequests
    NoProfile = NoProfile
    MaxRevision = 2
    MaxPackages = 2
    MaxBuilds = 2
    MaxCommands = 3
    MaxTrouble = 1
INVARIANTS PackTypeOK PackageTellsLocally BuildsOwnSource PublishedWhole
PROPERTIES PageKeepsServing
CHECK_DEADLOCK FALSE
