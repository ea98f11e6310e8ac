--------------------------- MODULE MCQuotaCheck ---------------------------
(* QuotaCheck on a handful of policies and usages: limits of 2 stand for   *)
(* real limits, 4 for the token limit no one reaches that goes with a      *)
(* budget, 0 for "no limit".                                               *)
EXTENDS QuotaCheck, TLC

Budget == [enabled |-> TRUE, monthly |-> 4, daily |-> 0, cost |-> 2, dailyCost |-> 1,
           mode |-> "block", dailyMode |-> "block"]
Tokens == [enabled |-> TRUE, monthly |-> 2, daily |-> 1, cost |-> 0, dailyCost |-> 0,
           mode |-> "block", dailyMode |-> "alert"]
Disabled == [Tokens EXCEPT !.enabled = FALSE]
Alerting == [Tokens EXCEPT !.mode = "alert"]

MCPolicies == {Budget, Tokens, Disabled}
MCEnvPolicies == {Alerting}

Interchangeable == Permutations(Groups)
MCUsages ==
    {[total |-> 1, daily |-> 1, cost |-> 1, dailyCost |-> 1, age |-> 0],
     [total |-> 3, daily |-> 1, cost |-> 2, dailyCost |-> 0, age |-> 0]}
=============================================================================
