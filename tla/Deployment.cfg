SPECIFICATION Spec
CONSTANTS
    Profiles <- MCProfiles
    MaxCommands = 2
    MaxTrouble = 1
INVARIANTS TypeOK  DestroyTells EndpointSaved
PROPERTIES WantedSpared
CHECK_DEADLOCK FALSE
