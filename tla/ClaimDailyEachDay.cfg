SPECIFICATION Spec
CONSTANTS
    Users = {u1}
    Runs = {r1}
    Kinds <- MCKinds
    Thresholds <- MCThresholds
    Deltas <- MCDeltas
    LastDay = 2
    NewMonth = 3
    MaxTotal = 4
    Faults = {"twoPages"}
INVARIANTS DailyAlertsEachDay
