SPECIFICATION Spec
CONSTANTS
    Users = {u1}
    Runs = {r1, r2}
    Kinds <- MCKinds
    Thresholds <- MCThresholds
    Deltas <- MCDeltas
    LastDay = 2
    NewMonth = 3
    MaxTotal = 4
    Faults = {"timeout", "overlap", "fetchFails", "publishFails"}
INVARIANTS TypeOK AlertedOnce ReachedIsReported DailyAlertsOfToday
SYMMETRY Interchangeable
