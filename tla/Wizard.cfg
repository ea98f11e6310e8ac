SPECIFICATION WizardSpec
CONSTANTS
    Names = {"A", "B"}
    NoName = NoName
    Absent = Absent
    Broken = Broken
    Unset = Unset
    Intents <- MCIntents
    Legacies <- MCLegacies
    MaxInits = 3
    MaxKills = 1
INVARIANTS WizardTypeOK SavedAsMeant NothingMissing ActiveExists
PROPERTIES AcceptKeeps RegionRemembered
CHECK_DEADLOCK FALSE
