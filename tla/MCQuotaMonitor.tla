--------------------------- MODULE MCQuotaMonitor ---------------------------
(* QuotaMonitor with a monthly and a daily limit, in different units: a    *)
(* few tokens or dollars take a user through the levels.                   *)
EXTENDS QuotaMonitor, TLC

Interchangeable == Permutations(Runs)

MCKinds == {"monthly", "daily_cost"}
MCThresholds ==
    [k \in MCKinds |->
        IF k = "monthly" THEN [warning |-> 1, critical |-> 1, exceeded |-> 1]
        ELSE [warning |-> 0, critical |-> 0, exceeded |-> 1]]
MCDeltas == {[tokens |-> 0, cost |-> 0], [tokens |-> 2, cost |-> 1]}
=============================================================================
