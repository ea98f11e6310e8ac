---------------------------- MODULE QuotaCheck ----------------------------
(***************************************************************************)
(* The quota_check lambda (deployment/infrastructure/lambda-functions/     *)
(* quota_check/index.py): one request of one user, which reads the         *)
(* policies, the unblock record and the usage of the month one table item  *)
(* at a time, while administrators change policies and unblock the user,   *)
(* and quota_monitor adds usage.                                           *)
(***************************************************************************)
EXTENDS Naturals, FiniteSets

CONSTANTS
    Groups,        \* groups that have or may get a policy
    Policies,      \* policy items
    NoPolicy,      \* no item, or no policy in force
    EnvPolicies,   \* policies that the lambda's environment may configure
    Usages,        \* what a month's usage item may hold
    MaxChanges,    \* bound: changes of policies while one request runs without a failure
    MissingBlock,  \* MISSING_EMAIL_ENFORCEMENT = "block"
    FailClosed,    \* ERROR_HANDLING_MODE = "fail_closed"
    Errors         \* whether a read of a table, or the handler itself, may fail

PolicyType ==
    [enabled : BOOLEAN, monthly : Nat, daily : Nat, cost : Nat, dailyCost : Nat,
     mode : {"alert", "block"}, dailyMode : {"alert", "block"}]
(* age: how many midnights ago the daily counters were updated (2: or more) *)
UsageType == [total : Nat, daily : Nat, cost : Nat, dailyCost : Nat, age : 0 .. 2]

ASSUME PoliciesAssumption == Policies \subseteq PolicyType /\ EnvPolicies \subseteq PolicyType
ASSUME NoPolicyAssumption == NoPolicy \notin PolicyType
ASSUME UsagesAssumption == Usages \subseteq UsageType
ASSUME GroupsAssumption == Groups \cap {"user", "default"} = {}
ASSUME SettingsAssumption ==
    MaxChanges \in Nat /\ {MissingBlock, FailClosed, Errors} \subseteq BOOLEAN

VARIABLES
    \* The tables and the lambda's configuration.
    table,    \* table[k]: the policy item of the user, a group or the default
    usage,    \* the usage item of the current month
    unblock,  \* the UNBLOCK#CURRENT item; one that expired counts as none
    env,      \* the policy in the lambda's environment, if it has one
    \* The request.
    pc, groups, todo, found, policy, seen, decision,
    clock,    \* midnights since the request read the clock
    closed,   \* the usage item of the month on its clock, if that month is over
    \* What happened since the request began.
    changes,  \* changes of policies
    inForce,  \* the policies that were in force at some moment
    lifted,   \* the user was unblocked at every moment
    failed    \* some read of a table failed

tables == <<table, usage, unblock, env>>
asOf == <<clock, closed>>
request == <<pc, groups, todo, found, policy, seen, decision, asOf>>
history == <<changes, inForce, lifted, failed>>
vars == <<tables, request, history>>

Keys == {"user", "default"} \cup Groups
NoUsage == [total |-> 0, daily |-> 0, cost |-> 0, dailyCost |-> 0, age |-> 0]
Undecided == [allowed |-> FALSE, reason |-> "none"]
Reasons == {"none", "missing_identity", "no_policy", "unblocked", "within_quota",
            "monthly_cost", "daily_cost", "monthly_tokens", "daily_tokens", "check_failed"}

TypeOK ==
    /\ table \in [Keys -> Policies \cup {NoPolicy}]
    /\ usage \in UsageType
    /\ unblock \in {"none", "active"}
    /\ env \in EnvPolicies \cup {NoPolicy}
    /\ pc \in {"idle", "user", "group", "default", "unblock", "clock", "usage", "done"}
    /\ groups \subseteq Groups /\ todo \subseteq groups
    /\ found \subseteq Policies
    /\ policy \in Policies \cup EnvPolicies \cup {NoPolicy}
    /\ seen \in UsageType
    /\ decision \in [allowed : BOOLEAN, reason : Reasons]
    /\ clock \in 0 .. 1
    /\ closed \subseteq UsageType /\ \A u, v \in closed : u = v
    /\ changes \in 0 .. MaxChanges
    /\ inForce \subseteq Policies \cup EnvPolicies \cup {NoPolicy}
    /\ lifted \in BOOLEAN /\ failed \in BOOLEAN

-----------------------------------------------------------------------------
(* Which policy applies.                                                   *)

Enabled(p) == p # NoPolicy /\ p.enabled

(* min(group_policies, key=monthly_token_limit): any of them on a tie,     *)
(* since the groups come out of a set.                                     *)
Least(ps) == {p \in ps : \A q \in ps : p.monthly <= q.monthly}

(* The policies in force for members of gs when the tables stand still.    *)
Effective(t, gs) ==
    IF env # NoPolicy THEN {env}
    ELSE IF Enabled(t["user"]) THEN {t["user"]}
    ELSE IF \E g \in gs : Enabled(t[g])
         THEN Least({t[g] : g \in {h \in gs : Enabled(t[h])}})
    ELSE IF Enabled(t["default"]) THEN {t["default"]} ELSE {NoPolicy}

Init ==
    /\ table \in [Keys -> Policies \cup {NoPolicy}]
    /\ usage = NoUsage
    /\ unblock = "none"
    /\ env \in EnvPolicies \cup {NoPolicy}
    /\ pc = "idle" /\ groups = {} /\ todo = {} /\ found = {} /\ policy = NoPolicy
    /\ seen = NoUsage /\ decision = Undecided /\ clock = 0 /\ closed = {}
    /\ changes = 0 /\ inForce = {} /\ lifted = FALSE /\ failed = FALSE

Decide(a, r) ==
    /\ pc' = "done"
    /\ decision' = [allowed |-> a, reason |-> r]

(* The caller's identity comes from the JWT claims or from the IAM ARN.    *)
Request(gs) ==
    /\ pc = "idle"
    /\ groups' = gs /\ todo' = gs
    /\ changes' = 0 /\ failed' = FALSE /\ lifted' = (unblock = "active")
    /\ inForce' = Effective(table, gs)
    /\ IF env # NoPolicy
       THEN pc' = "unblock" /\ policy' = env
       ELSE pc' = "user" /\ UNCHANGED policy
    /\ UNCHANGED <<tables, found, seen, decision, asOf>>

MissingIdentity ==
    /\ pc = "idle"
    /\ Decide(~MissingBlock, "missing_identity")
    /\ UNCHANGED <<tables, groups, todo, found, policy, seen, asOf, history>>

(* A bound: one request meets one failing read, or changed policies.        *)
MayFail == Errors /\ ~failed /\ changes = 0

(* get_policy: an error reads like a policy that is not there.             *)
Read(k, p) ==
    \/ p = table[k] /\ UNCHANGED failed
    \/ MayFail /\ p = NoPolicy /\ failed' = TRUE

(* Mutant: a disabled policy counts.                                       *)
GetUserPolicyEvenDisabled ==
    /\ pc = "user"
    /\ \E p \in Policies \cup {NoPolicy} :
        /\ Read("user", p)
        /\ IF p # NoPolicy
           THEN policy' = p /\ pc' = "unblock"
           ELSE pc' = "group" /\ UNCHANGED policy
    /\ UNCHANGED <<tables, groups, todo, found, seen, decision, asOf, changes, inForce, lifted>>

GetUserPolicy ==
    /\ pc = "user"
    /\ \E p \in Policies \cup {NoPolicy} :
        /\ Read("user", p)
        /\ IF Enabled(p)
           THEN policy' = p /\ pc' = "unblock"
           ELSE pc' = "group" /\ UNCHANGED policy
    /\ UNCHANGED <<tables, groups, todo, found, seen, decision, asOf, changes, inForce, lifted>>

(* Mutant: a missing group policy is kept as well.                         *)
GetGroupPolicyOrNone(g) ==
    /\ pc = "group" /\ g \in todo
    /\ todo' = todo \ {g}
    /\ \E p \in Policies \cup {NoPolicy} : Read(g, p) /\ found' = found \cup {p}
    /\ UNCHANGED <<tables, pc, groups, policy, seen, decision, asOf, changes, inForce, lifted>>

GetGroupPolicy(g) ==
    /\ pc = "group" /\ g \in todo
    /\ todo' = todo \ {g}
    /\ \E p \in Policies \cup {NoPolicy} :
        /\ Read(g, p)
        /\ found' = IF Enabled(p) THEN found \cup {p} ELSE found
    /\ UNCHANGED <<tables, pc, groups, policy, seen, decision, asOf, changes, inForce, lifted>>

ChooseGroupPolicy ==
    /\ pc = "group" /\ todo = {}
    /\ \/ found # {} /\ policy' \in Least(found) /\ pc' = "unblock"
       \/ found = {} /\ pc' = "default" /\ UNCHANGED policy
    /\ UNCHANGED <<tables, groups, todo, found, seen, decision, asOf, history>>

GetDefaultPolicy ==
    /\ pc = "default"
    /\ \E p \in Policies \cup {NoPolicy} :
        /\ Read("default", p)
        /\ IF Enabled(p)
           THEN policy' = p /\ pc' = "unblock" /\ UNCHANGED decision
           ELSE Decide(TRUE, "no_policy") /\ UNCHANGED policy
    /\ UNCHANGED <<tables, groups, todo, found, seen, asOf, changes, inForce, lifted>>

-----------------------------------------------------------------------------
(* Whether the usage is within it.                                         *)

(* Mutant: the record is looked at only when the policy is not to block.   *)
GetUnblockStatusUnlessBlocking ==
    /\ pc = "unblock"
    /\ IF unblock = "active" /\ policy.mode # "block"
       THEN Decide(TRUE, "unblocked")
       ELSE pc' = "clock" /\ UNCHANGED decision
    /\ UNCHANGED <<tables, groups, todo, found, policy, seen, asOf, history>>

(* An error reads like "not unblocked".                                    *)
GetUnblockStatus ==
    /\ pc = "unblock"
    /\ \/ unblock = "active" /\ Decide(TRUE, "unblocked") /\ UNCHANGED failed
       \/ unblock # "active" /\ pc' = "clock" /\ UNCHANGED <<decision, failed>>
       \/ MayFail /\ pc' = "clock" /\ failed' = TRUE /\ UNCHANGED decision
    /\ UNCHANGED <<tables, groups, todo, found, policy, seen, asOf, changes, inForce, lifted>>

(* Mutant: the counters of another day are taken as they are.              *)
CurrentAsStored(u) == u

(* The counters of another day than the one on the clock count as zero.    *)
Current(u) == IF u.age = clock THEN u ELSE [u EXCEPT !.daily = 0, !.dailyCost = 0]

(* A limit of zero is no limit.                                            *)
Hit(limit, used) == limit > 0 /\ used >= limit

Reached(p, u) ==
    {r \in {"monthly_cost", "daily_cost", "monthly_tokens", "daily_tokens"} :
        \/ r = "monthly_cost" /\ Hit(p.cost, u.cost)
        \/ r = "daily_cost" /\ Hit(p.dailyCost, u.dailyCost) /\ p.dailyMode = "block"
        \/ r = "monthly_tokens" /\ Hit(p.monthly, u.total)
        \/ r = "daily_tokens" /\ Hit(p.daily, u.daily) /\ p.dailyMode = "block"}

Blocks(p, u) == p.mode = "block" /\ Reached(p, u) # {}

(* The order in which the limits are looked at.                            *)
Rank == [monthly_cost |-> 1, daily_cost |-> 2, monthly_tokens |-> 3, daily_tokens |-> 4]

Reason(p, u) ==
    IF Blocks(p, u)
    THEN CHOOSE r \in Reached(p, u) : \A q \in Reached(p, u) : Rank[r] <= Rank[q]
    ELSE "within_quota"

(* get_user_usage takes the month and the day from the clock first ...     *)
ReadClock ==
    /\ pc = "clock" /\ pc' = "usage"
    /\ UNCHANGED <<tables, groups, todo, found, policy, seen, decision, asOf, history>>

(* ... and reads the item of that month then; the item a month names.      *)
Named == IF closed = {} THEN {usage} ELSE closed

(* An error reads like a month without usage.                              *)
GetUserUsage ==
    /\ pc = "usage"
    /\ \/ \E u \in Named : seen' = Current(u) /\ UNCHANGED failed
       \/ MayFail /\ seen' = NoUsage /\ failed' = TRUE
    /\ Decide(~Blocks(policy, seen'), Reason(policy, seen'))
    /\ clock' = 0 /\ closed' = {}
    /\ UNCHANGED <<tables, groups, todo, found, policy, changes, inForce, lifted>>

(* Anything else in the handler raises: the outermost except answers.      *)
CheckFails ==
    /\ pc # "done" /\ MayFail /\ failed' = TRUE
    /\ Decide(~FailClosed, "check_failed")
    /\ clock' = 0 /\ closed' = {}
    /\ UNCHANGED <<tables, groups, todo, found, policy, seen, changes, inForce, lifted>>

Respond ==
    /\ pc = "done" /\ pc' = "idle"
    /\ groups' = {} /\ todo' = {} /\ found' = {} /\ policy' = NoPolicy
    /\ seen' = NoUsage /\ decision' = Undecided
    /\ changes' = 0 /\ inForce' = {} /\ lifted' = FALSE /\ failed' = FALSE
    /\ UNCHANGED <<tables, asOf>>

-----------------------------------------------------------------------------
(* Administrators, the clock and quota_monitor.                            *)

Running == pc \notin {"idle", "done"}

(* ccwb quota set-user, set-group, set-default, delete, import.            *)
ChangePolicy(k) ==
    /\ changes < MaxChanges /\ ~failed
    /\ \E p \in (Policies \cup {NoPolicy}) \ {table[k]} : table' = [table EXCEPT ![k] = p]
    /\ changes' = IF Running THEN changes + 1 ELSE changes
    /\ inForce' = IF Running THEN inForce \cup Effective(table', groups) ELSE inForce
    /\ UNCHANGED <<usage, unblock, env, request, lifted, failed>>

(* ccwb quota unblock, its end, and its end through the clock.             *)
ChangeUnblock ==
    /\ \E b \in {"none", "active"} \ {unblock} :
        /\ unblock' = b
        /\ lifted' = (lifted /\ b = "active")
    /\ UNCHANGED <<table, usage, env, request, changes, inForce, failed>>

UsageGrows ==
    /\ \E u \in Usages :
        /\ u # usage /\ u.age = 0
        /\ u.total >= usage.total /\ u.cost >= usage.cost
        /\ usage.age = 0 => u.daily >= usage.daily /\ u.dailyCost >= usage.dailyCost
        /\ usage' = u
    /\ UNCHANGED <<table, unblock, env, request, history>>

Aged(u) == IF u = NoUsage \/ u.age = 2 THEN u ELSE [u EXCEPT !.age = @ + 1]

(* Midnight, which may end the month.  A bound: one midnight between the   *)
(* clock and the read of the item.                                         *)
NextDay ==
    /\ pc = "usage" => clock = 0
    /\ clock' = IF pc = "usage" THEN 1 ELSE 0
    /\ \/ usage' = Aged(usage) /\ UNCHANGED closed
       \/ usage' = NoUsage /\ closed' = IF pc = "usage" THEN {Aged(usage)} ELSE {}
    /\ UNCHANGED <<table, unblock, env, pc, groups, todo, found, policy, seen, decision, history>>

Next ==
    \/ \E gs \in SUBSET Groups : Request(gs)
    \/ \E g \in Groups : GetGroupPolicy(g)
    \/ MissingIdentity \/ GetUserPolicy \/ ChooseGroupPolicy \/ GetDefaultPolicy
    \/ GetUnblockStatus \/ ReadClock \/ GetUserUsage \/ CheckFails \/ Respond
    \/ \E k \in Keys : ChangePolicy(k)
    \/ ChangeUnblock \/ UsageGrows \/ NextDay

Spec == Init /\ [][Next]_vars

-----------------------------------------------------------------------------
(* Properties.                                                             *)

(* The policies are read one item at a time.  When no more than one item   *)
(* is changed meanwhile, the policy the request ends up with was the one   *)
(* in force at some moment since it began, never a mixture.                *)
PolicyWasInForce ==
    pc \in {"unblock", "clock", "usage"} /\ ~failed => policy \in inForce

(* An unblock that is there from the beginning of a request to its end is  *)
(* honoured, whatever the policies and the usage do meanwhile.             *)
UnblockHonoured == pc = "done" /\ lifted /\ ~failed => decision.allowed

(* Nobody is blocked for the tokens or the dollars of a day before the one *)
(* on which the request looked at the clock, even if quota_monitor has not *)
(* touched the item since, and whichever midnight passes until it is read. *)
DailyBlocksAreOfToday ==
    [][decision'.reason \in {"daily_cost", "daily_tokens"} /\ decision' # decision
        => \A u \in Named : u.age <= clock]_vars
=============================================================================
