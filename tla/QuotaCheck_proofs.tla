-------------------------- MODULE QuotaCheck_proofs --------------------------
(***************************************************************************)
(* Theorems about QuotaCheck, for any groups, policies and usages: types,  *)
(* the unblock, the day a block is for, and, with at most one change of a  *)
(* policy during a request, the policy the request ends up with.           *)
(***************************************************************************)
EXTENDS QuotaCheck, TLAPS

USE DEF tables, asOf, request, history

-----------------------------------------------------------------------------
(* Types.                                                                  *)

Limits == {"monthly_cost", "daily_cost", "monthly_tokens", "daily_tokens"}

LEMMA EffectiveTyped ==
    ASSUME TypeOK, NEW gs \in SUBSET Groups
    PROVE  Effective(table, gs) \subseteq Policies \cup EnvPolicies \cup {NoPolicy}
BY DEF TypeOK, Effective, Enabled, Least, Keys

(* One of the limits that are reached is looked at first.                  *)
LEMMA FirstReached ==
    ASSUME NEW R \in SUBSET Limits, R # {}
    PROVE  \E r \in R : \A q \in R : Rank[r] <= Rank[q]
<1>a. /\ Rank["monthly_cost"] = 1 /\ Rank["daily_cost"] = 2
      /\ Rank["monthly_tokens"] = 3 /\ Rank["daily_tokens"] = 4
  BY DEF Rank
<1>b. \A q \in R : q \in Limits
  OBVIOUS
<1>1. CASE "monthly_cost" \in R
  BY <1>a, <1>b, <1>1 DEF Limits
<1>2. CASE "monthly_cost" \notin R /\ "daily_cost" \in R
  BY <1>a, <1>b, <1>2 DEF Limits
<1>3. CASE "monthly_cost" \notin R /\ "daily_cost" \notin R /\ "monthly_tokens" \in R
  BY <1>a, <1>b, <1>3 DEF Limits
<1>4. CASE \A q \in R : q = "daily_tokens"
  BY <1>a, <1>4
<1>5. QED
  BY <1>b, <1>1, <1>2, <1>3, <1>4 DEF Limits

LEMMA ReasonReached ==
    ASSUME NEW p, NEW u
    PROVE  /\ Blocks(p, u) => Reason(p, u) \in Reached(p, u)
           /\ ~Blocks(p, u) => Reason(p, u) = "within_quota"
           /\ Blocks(p, u) \in BOOLEAN /\ Reason(p, u) \in Reasons
<1>1. Reached(p, u) \in SUBSET Limits
  BY DEF Reached, Limits
<1>2. CASE Blocks(p, u)
  <2>1. \E r \in Reached(p, u) : \A q \in Reached(p, u) : Rank[r] <= Rank[q]
    BY <1>1, <1>2, FirstReached DEF Blocks
  <2>2. Reason(p, u) \in Reached(p, u)
    BY <1>2, <2>1 DEF Reason
  <2>3. QED
    BY <1>1, <1>2, <2>2 DEF Limits, Reasons, Blocks
<1>3. CASE ~Blocks(p, u)
  BY <1>3 DEF Reason, Reasons, Blocks
<1>4. QED
  BY <1>2, <1>3

LEMMA Decides ==
    ASSUME NEW a \in BOOLEAN, NEW r \in Reasons, Decide(a, r)
    PROVE  pc' = "done" /\ decision' \in [allowed : BOOLEAN, reason : Reasons]
           /\ decision'.allowed = a /\ decision'.reason = r
BY DEF Decide

LEMMA UndecidedTyped == Undecided \in [allowed : BOOLEAN, reason : Reasons]
BY DEF Undecided, Reasons

LEMMA UsageTyped ==
    /\ NoUsage \in UsageType
    /\ \A u \in UsageType : Current(u) \in UsageType /\ Aged(u) \in UsageType
<1>1. NoUsage \in UsageType
  BY DEF NoUsage, UsageType
<1>2. ASSUME NEW u \in UsageType
      PROVE  Current(u) \in UsageType /\ Aged(u) \in UsageType
  <2>1. Aged(u) \in UsageType
    BY DEF UsageType, Aged
  <2>2. [u EXCEPT !.daily = 0, !.dailyCost = 0] \in UsageType
    BY DEF UsageType
  <2>3. QED
    BY <2>1, <2>2 DEF Current
<1>3. QED
  BY <1>1, <1>2

LEMMA TypesKept == TypeOK /\ [Next]_vars => TypeOK'
<1> SUFFICES ASSUME TypeOK, [Next]_vars PROVE TypeOK'
  OBVIOUS
<1> USE PoliciesAssumption, UsagesAssumption, SettingsAssumption DEF TypeOK
<1>1. ASSUME NEW gs \in SUBSET Groups, Request(gs) PROVE TypeOK'
  <2>1. inForce' \subseteq Policies \cup EnvPolicies \cup {NoPolicy}
    BY <1>1, EffectiveTyped DEF Request
  <2>2. lifted' \in BOOLEAN
    BY <1>1 DEF Request
  <2>3. pc' \in {"unblock", "user"} /\ policy' \in Policies \cup EnvPolicies \cup {NoPolicy}
    BY <1>1 DEF Request
  <2>4. changes' \in 0 .. MaxChanges
    BY <1>1 DEF Request
  <2>5. QED
    BY <1>1, <2>1, <2>2, <2>3, <2>4 DEF Request
<1>2. ASSUME NEW g \in Groups, GetGroupPolicy(g) PROVE TypeOK'
  BY <1>2 DEF GetGroupPolicy, Enabled, Read
<1>3. CASE MissingIdentity
  <2>1. decision' \in [allowed : BOOLEAN, reason : Reasons] /\ pc' = "done"
    BY <1>3 DEF MissingIdentity, Decide, Reasons
  <2>2. QED
    BY <1>3, <2>1 DEF MissingIdentity
<1>4. CASE GetUserPolicy
  BY <1>4 DEF GetUserPolicy, Enabled, Read
<1>5. CASE ChooseGroupPolicy
  BY <1>5 DEF ChooseGroupPolicy, Least
<1>6. CASE GetDefaultPolicy
  BY <1>6, Decides DEF GetDefaultPolicy, Enabled, Read, Reasons
<1>7. CASE GetUnblockStatus
  BY <1>7, Decides DEF GetUnblockStatus, Reasons
<1>8. CASE GetUserUsage
  <2>1. seen' \in UsageType /\ failed' \in BOOLEAN
    BY <1>8, UsageTyped DEF GetUserUsage, Named
  <2>2. pc' = "done" /\ decision' \in [allowed : BOOLEAN, reason : Reasons]
    BY <1>8, ReasonReached, Decides DEF GetUserUsage
  <2>3. QED
    BY <1>8, <2>1, <2>2 DEF GetUserUsage
<1>9. CASE Respond
  <2>1. /\ seen' \in UsageType /\ decision' \in [allowed : BOOLEAN, reason : Reasons]
        /\ changes' \in 0 .. MaxChanges
    BY <1>9, UsageTyped, UndecidedTyped DEF Respond
  <2>2. QED
    BY <1>9, <2>1 DEF Respond
<1>10. ASSUME NEW k \in Keys, ChangePolicy(k) PROVE TypeOK'
  <2>1. table' \in [Keys -> Policies \cup {NoPolicy}] /\ env' = env /\ groups' = groups
    BY <1>10 DEF ChangePolicy
  <2>2. Effective(table', groups) \subseteq Policies \cup EnvPolicies \cup {NoPolicy}
    BY <2>1 DEF Effective, Enabled, Least, Keys
  <2>3. changes' \in 0 .. MaxChanges
    BY <1>10 DEF ChangePolicy
  <2>4. inForce' \subseteq Policies \cup EnvPolicies \cup {NoPolicy}
    BY <1>10, <2>2 DEF ChangePolicy
  <2>5. QED
    BY <1>10, <2>1, <2>3, <2>4 DEF ChangePolicy
<1>11. CASE ChangeUnblock
  BY <1>11 DEF ChangeUnblock
<1>12. CASE UsageGrows
  BY <1>12 DEF UsageGrows
<1>13. CASE NextDay
  BY <1>13, UsageTyped DEF NextDay
<1>14. CASE ReadClock \/ UNCHANGED vars
  BY <1>14 DEF ReadClock, vars
<1>15. CASE CheckFails
  <2>1. pc' = "done" /\ decision' \in [allowed : BOOLEAN, reason : Reasons]
    BY <1>15, Decides DEF CheckFails, Reasons
  <2>2. QED
    BY <1>15, <2>1 DEF CheckFails
<1>16. QED
  BY <1>1, <1>2, <1>3, <1>4, <1>5, <1>6, <1>7, <1>8, <1>9, <1>10, <1>11, <1>12, <1>13, <1>14, <1>15
     DEF Next

(* Whatever the tables hold and whatever fails, every field of a request   *)
(* keeps its type; in particular a block always has one of the reasons.    *)
THEOREM QuotaTypes == Spec => []TypeOK
<1>1. Init => TypeOK
  <2> SUFFICES ASSUME Init PROVE TypeOK
    OBVIOUS
  <2>1. /\ usage \in UsageType /\ seen \in UsageType /\ changes \in 0 .. MaxChanges
        /\ decision \in [allowed : BOOLEAN, reason : Reasons]
    BY SettingsAssumption, UsageTyped, UndecidedTyped DEF Init
  <2>2. clock \in 0 .. 1 /\ closed \subseteq UsageType /\ \A u, v \in closed : u = v
    BY DEF Init
  <2>3. /\ groups \subseteq Groups /\ todo \subseteq groups /\ found \subseteq Policies
        /\ inForce \subseteq Policies \cup EnvPolicies \cup {NoPolicy}
    BY DEF Init
  <2>4. QED
    BY <2>1, <2>2, <2>3 DEF Init, TypeOK
<1>2. QED
  BY <1>1, TypesKept, PTL DEF Spec

-----------------------------------------------------------------------------
(* The unblock and the day.                                                *)

(* While a request that found the user unblocked runs, he stays so unless  *)
(* lifted says otherwise; it goes on to the usage only when he is not.     *)
Lifted ==
    /\ pc = "idle" => ~lifted
    /\ pc \notin {"idle", "done"} /\ lifted => unblock = "active"
    /\ pc \in {"clock", "usage"} /\ ~failed => ~lifted
    /\ pc = "done" /\ lifted /\ ~failed => decision.allowed
    /\ pc \in {"unblock", "clock", "usage"} => policy \in PolicyType
    /\ found \subseteq Policies

LEMMA LiftedKept == TypeOK /\ Lifted /\ [Next]_vars => Lifted'
<1> SUFFICES ASSUME TypeOK, Lifted, [Next]_vars PROVE Lifted'
  OBVIOUS
<1> USE PoliciesAssumption DEF Lifted
<1>1. ASSUME NEW gs \in SUBSET Groups, Request(gs) PROVE Lifted'
  <2>1. pc' \in {"unblock", "user"} /\ (pc' = "unblock" => policy' = env /\ env # NoPolicy)
    BY <1>1 DEF Request
  <2>2. lifted' => unblock = "active"
    BY <1>1 DEF Request
  <2>3. QED
    BY <1>1, <2>1, <2>2 DEF Request, TypeOK
<1>2. ASSUME NEW g \in Groups, GetGroupPolicy(g) PROVE Lifted'
  BY <1>2 DEF GetGroupPolicy, Read, Enabled, TypeOK
<1>3. CASE MissingIdentity
  BY <1>3 DEF MissingIdentity, Decide
<1>4. CASE GetUserPolicy
  BY <1>4 DEF GetUserPolicy, Enabled, Read
<1>5. CASE ChooseGroupPolicy
  BY <1>5 DEF ChooseGroupPolicy, Least
<1>6. CASE GetDefaultPolicy
  BY <1>6 DEF GetDefaultPolicy, Enabled, Read, Decide
<1>7. CASE GetUnblockStatus
  BY <1>7 DEF GetUnblockStatus, Decide
<1>8. CASE ReadClock \/ GetUserUsage \/ CheckFails
  BY <1>8 DEF ReadClock, GetUserUsage, CheckFails, Decide
<1>9. CASE Respond
  BY <1>9 DEF Respond
<1>10. ASSUME NEW k \in Keys, ChangePolicy(k) PROVE Lifted'
  BY <1>10 DEF ChangePolicy
<1>11. CASE ChangeUnblock
  BY <1>11 DEF ChangeUnblock, TypeOK
<1>12. CASE UsageGrows \/ NextDay \/ UNCHANGED vars
  BY <1>12 DEF UsageGrows, NextDay, vars
<1>13. QED
  BY <1>1, <1>2, <1>3, <1>4, <1>5, <1>6, <1>7, <1>8, <1>9, <1>10, <1>11, <1>12 DEF Next

LEMMA LiftedInvariant == Spec => []Lifted
<1>1. Init => Lifted
  BY DEF Init, Lifted
<1>2. QED
  BY <1>1, LiftedKept, QuotaTypes, PTL DEF Spec

(* An unblock that lasts as long as the request is honoured: no policy and *)
(* no usage, however they change meanwhile, blocks the user.               *)
THEOREM UnblocksAreHonoured == Spec => []UnblockHonoured
<1>1. Lifted => UnblockHonoured
  BY DEF Lifted, UnblockHonoured
<1>2. QED
  BY <1>1, LiftedInvariant, PTL

LEMMA OneNamed ==
    ASSUME TypeOK, NEW u \in Named PROVE u \in UsageType /\ Named = {u}
BY DEF TypeOK, Named

LEMMA EarlierDayBlocksNobody ==
    ASSUME NEW p \in PolicyType, NEW u \in UsageType, u.daily = 0, u.dailyCost = 0
    PROVE  Reason(p, u) \notin {"daily_cost", "daily_tokens"}
<1>1. {"daily_cost", "daily_tokens"} \cap Reached(p, u) = {}
  BY DEF Reached, Hit, PolicyType, UsageType
<1>2. QED
  BY <1>1, ReasonReached

(* Nobody is blocked for the tokens or the dollars of an earlier day.      *)
THEOREM BlocksAreOfToday == Spec => DailyBlocksAreOfToday
<1>1. TypeOK /\ Lifted /\ [Next]_vars =>
        [decision'.reason \in {"daily_cost", "daily_tokens"} /\ decision' # decision
            => \A u \in Named : u.age <= clock]_vars
  <2> SUFFICES ASSUME TypeOK, Lifted, Next, decision' # decision,
                      decision'.reason \in {"daily_cost", "daily_tokens"}
               PROVE  \A u \in Named : u.age <= clock
    OBVIOUS
  <2>1. GetUserUsage
    BY DEF Next, Request, GetGroupPolicy, MissingIdentity, GetUserPolicy, ChooseGroupPolicy,
       GetDefaultPolicy, GetUnblockStatus, ReadClock, CheckFails, Respond, ChangePolicy, ChangeUnblock, UsageGrows,
       NextDay, Decide, Undecided
  <2>2. policy \in PolicyType /\ decision'.reason = Reason(policy, seen')
    BY <2>1 DEF GetUserUsage, Lifted, Decide
  <2>3. PICK u \in Named : seen' = Current(u)
    <3>1. seen' # NoUsage
      BY <2>2, UsageTyped, EarlierDayBlocksNobody DEF NoUsage
    <3>2. QED
      BY <2>1, <3>1 DEF GetUserUsage
  <2>4. u \in UsageType /\ Named = {u}
    BY <2>3, OneNamed
  <2>5. u.age = clock
    <3>1. SUFFICES ASSUME u.age # clock PROVE FALSE
      OBVIOUS
    <3>2. seen' = [u EXCEPT !.daily = 0, !.dailyCost = 0]
      BY <2>3, <3>1 DEF Current
    <3>3. seen' \in UsageType /\ seen'.daily = 0 /\ seen'.dailyCost = 0
      BY <2>4, <3>2 DEF UsageType
    <3>4. QED
      BY <2>2, <3>3, EarlierDayBlocksNobody
  <2>6. QED
    BY <2>4, <2>5 DEF TypeOK
<1>2. QED
  BY <1>1, QuotaTypes, LiftedInvariant, PTL DEF Spec, DailyBlocksAreOfToday

-----------------------------------------------------------------------------
(* The policy in force.                                                    *)

Tables == [Keys -> Policies \cup {NoPolicy}]
Resolving == {"user", "group", "default"}

(* t is a table that was in force, that the request may have been reading  *)
(* all along: what it has read is what t says, and what it has not read is *)
(* in t as it is in the table now.                                         *)
Witness(t) ==
    /\ Effective(t, groups) \subseteq inForce
    /\ pc = "user" => t = table
    /\ pc = "group" =>
        /\ ~Enabled(t["user"])
        /\ found = {t[g] : g \in {h \in groups \ todo : Enabled(t[h])}}
        /\ \A k \in todo \cup {"default"} : t[k] = table[k]
    /\ pc = "default" =>
        /\ ~Enabled(t["user"]) /\ \A g \in groups : ~Enabled(t[g])
        /\ t["default"] = table["default"]

(* Before the one change the witness is the table itself.                  *)
OneTable ==
    /\ pc \in {"idle", "user"} => found = {}
    /\ pc = "user" => todo = groups
    /\ pc \in Resolving /\ ~failed =>
        /\ env = NoPolicy
        /\ changes = 0 => Witness(table)
        /\ \E t \in Tables : Witness(t)
    /\ pc \in {"unblock", "clock", "usage"} /\ ~failed => policy \in inForce

LEMMA KeysApart ==
    /\ "user" \in Keys /\ "default" \in Keys /\ Groups \subseteq Keys
    /\ "user" \notin Groups /\ "default" \notin Groups
BY GroupsAssumption DEF Keys

(* A read that does not fail reads what the witness says.                  *)
LEMMA ReadsWitness ==
    ASSUME TypeOK, OneTable, pc \in Resolving, ~failed', env = NoPolicy,
           NEW t \in Tables, Witness(t),
           GetUserPolicy \/ (\E g \in Groups : GetGroupPolicy(g)) \/ ChooseGroupPolicy
               \/ GetDefaultPolicy
    PROVE  /\ pc' \in Resolving => Witness(t)'
           /\ pc' \in {"unblock", "clock", "usage"} => policy' \in inForce'
<1> USE KeysApart DEF Resolving
<1>1. CASE GetUserPolicy
  <2>1. pc = "user" /\ t = table /\ found = {} /\ groups \ todo = {}
    BY <1>1 DEF GetUserPolicy, Witness, OneTable
  <2>2. CASE Enabled(table["user"])
    <3>1. pc' = "unblock" /\ policy' = t["user"] /\ inForce' = inForce
      BY <1>1, <2>1, <2>2 DEF GetUserPolicy, Read
    <3>2. Effective(t, groups) = {t["user"]}
      BY <2>1, <2>2 DEF Effective
    <3>3. QED
      BY <3>1, <3>2 DEF Witness
  <2>3. CASE ~Enabled(table["user"])
    <3>1. pc' = "group" /\ UNCHANGED <<tables, groups, todo, found, inForce>>
      BY <1>1, <2>3 DEF GetUserPolicy, Read
    <3>2. Effective(t, groups)' = Effective(t, groups)
      BY <3>1 DEF Effective
    <3>3. QED
      BY <2>1, <2>3, <3>1, <3>2 DEF Witness
  <2>4. QED
    BY <2>2, <2>3
<1>2. ASSUME NEW g \in Groups, GetGroupPolicy(g)
      PROVE  pc' = "group" /\ Witness(t)'
  <2>1. /\ pc = "group" /\ g \in todo /\ g \in groups /\ t[g] = table[g]
        /\ todo' = todo \ {g} /\ pc' = pc /\ UNCHANGED <<tables, groups, inForce>>
    BY <1>2 DEF GetGroupPolicy, Witness, TypeOK
  <2>2. found' = IF Enabled(t[g]) THEN found \cup {t[g]} ELSE found
    BY <1>2, <2>1 DEF GetGroupPolicy, Read
  <2>3. groups \ todo' = (groups \ todo) \cup {g}
    BY <2>1
  <2>4. found = {t[h] : h \in {i \in groups \ todo : Enabled(t[i])}}
    BY <2>1 DEF Witness
  <2>5. found' = {t[h] : h \in {i \in groups \ todo' : Enabled(t[i])}}
    BY <2>2, <2>3, <2>4
  <2>6. Effective(t, groups)' = Effective(t, groups)
    BY <2>1 DEF Effective
  <2>7. QED
    BY <2>1, <2>5, <2>6 DEF Witness
<1>3. CASE ChooseGroupPolicy
  <2>1. /\ pc = "group" /\ todo = {} /\ inForce' = inForce /\ ~Enabled(t["user"])
        /\ found = {t[h] : h \in {i \in groups : Enabled(t[i])}}
        /\ UNCHANGED <<tables, groups>>
    BY <1>3 DEF ChooseGroupPolicy, Witness
  <2>2. CASE found # {}
    <3>1. pc' = "unblock" /\ policy' \in Least(found)
      BY <1>3, <2>2 DEF ChooseGroupPolicy
    <3>2. \E i \in groups : Enabled(t[i])
      BY <2>1, <2>2
    <3>3. Effective(t, groups) = Least(found)
      BY <2>1, <3>2 DEF Effective
    <3>4. QED
      BY <2>1, <3>1, <3>3 DEF Witness
  <2>3. CASE found = {}
    <3>1. pc' = "default"
      BY <1>3, <2>3 DEF ChooseGroupPolicy
    <3>2. \A i \in groups : ~Enabled(t[i])
      BY <2>1, <2>3
    <3>3. Effective(t, groups)' = Effective(t, groups)
      BY <2>1 DEF Effective
    <3>4. QED
      BY <2>1, <3>1, <3>2, <3>3 DEF Witness
  <2>4. QED
    BY <2>2, <2>3
<1>4. CASE GetDefaultPolicy
  <2>1. /\ pc = "default" /\ inForce' = inForce /\ t["default"] = table["default"]
        /\ ~Enabled(t["user"]) /\ \A g \in groups : ~Enabled(t[g])
    BY <1>4 DEF GetDefaultPolicy, Witness
  <2>2. CASE Enabled(t["default"])
    <3>1. pc' = "unblock" /\ policy' = t["default"]
      BY <1>4, <2>1, <2>2 DEF GetDefaultPolicy, Read
    <3>2. Effective(t, groups) = {t["default"]}
      BY <2>1, <2>2 DEF Effective
    <3>3. QED
      BY <2>1, <3>1, <3>2 DEF Witness
  <2>3. CASE ~Enabled(t["default"])
    BY <1>4, <2>1, <2>3 DEF GetDefaultPolicy, Read, Decide
  <2>4. QED
    BY <2>2, <2>3
<1>5. QED
  BY <1>1, <1>2, <1>3, <1>4

(* The one change is seen by the request, or was made to what it has read. *)
LEMMA ChangeWitnessed ==
    ASSUME TypeOK, OneTable, pc \in Resolving, ~failed, changes = 0,
           NEW k \in Keys, ChangePolicy(k)
    PROVE  \E t \in Tables : Witness(t)'
<1> USE KeysApart DEF Resolving
<1>1. /\ Witness(table) /\ table \in Tables /\ table' \in Tables
      /\ \A j \in Keys \ {k} : table'[j] = table[j]
      /\ UNCHANGED <<env, request>>
  BY DEF ChangePolicy, OneTable, Tables, TypeOK
<1>2. inForce' = inForce \cup Effective(table', groups)
  BY DEF ChangePolicy, Running
<1>3. \A t \in Tables : Effective(t, groups)' = Effective(t, groups)
  BY <1>1 DEF Effective
<1>5. CASE pc = "user"
  <2>1. PICK t \in Tables : t = table'
    BY <1>1
  <2>2. Effective(t, groups)' \subseteq inForce'
    BY <1>2, <1>3, <2>1
  <2>3. Witness(t)'
    BY <1>1, <1>5, <2>1, <2>2 DEF Witness
  <2>4. QED
    BY <2>3
<1>6. CASE \/ pc = "group" /\ k \notin todo \cup {"default"}
           \/ pc = "default" /\ k # "default"
  <2>1. Witness(table)
    BY <1>1
  <2>2. PICK t \in Tables : t = table
    BY <1>1
  <2>3. Effective(t, groups)' \subseteq inForce'
    BY <1>2, <1>3, <2>1, <2>2 DEF Witness
  <2>4. Witness(t)'
    BY <1>1, <1>6, <2>1, <2>2, <2>3 DEF Witness, TypeOK
  <2>5. QED
    BY <2>4
<1>7. CASE \/ pc = "group" /\ k \in todo \cup {"default"}
           \/ pc = "default" /\ k = "default"
  <2>1. PICK t \in Tables : t = table'
    BY <1>1
  <2>2. Effective(t, groups)' \subseteq inForce'
    BY <1>2, <1>3, <2>1
  <2>3. t["user"] = table["user"] /\ \A g \in groups \ todo : t[g] = table[g]
    BY <1>1, <1>7, <2>1 DEF TypeOK
  <2>4. CASE pc = "group"
    <3>1. {h \in groups \ todo : Enabled(t[h])} = {h \in groups \ todo : Enabled(table[h])}
      BY <2>3
    <3>2. /\ ~Enabled(t["user"])
          /\ found = {t[g] : g \in {h \in groups \ todo : Enabled(t[h])}}
      BY <1>1, <2>3, <2>4, <3>1 DEF Witness
    <3>3. QED
      BY <1>1, <2>1, <2>2, <2>4, <3>2 DEF Witness
  <2>5. CASE pc = "default"
    <3>1. ~Enabled(t["user"]) /\ \A g \in groups : ~Enabled(t[g])
      BY <1>1, <1>7, <2>1, <2>5 DEF Witness, TypeOK
    <3>2. QED
      BY <1>1, <2>1, <2>2, <2>5, <3>1 DEF Witness
  <2>6. QED
    BY <1>7, <2>4, <2>5
<1>8. QED
  BY <1>5, <1>6, <1>7

OneChange == MaxChanges <= 1

LEMMA OneTableKept ==
    ASSUME OneChange PROVE TypeOK /\ OneTable /\ [Next]_vars => OneTable'
<1> SUFFICES ASSUME TypeOK, OneTable, [Next]_vars PROVE OneTable'
  OBVIOUS
<1> USE KeysApart DEF Resolving
<1>1. ASSUME NEW gs \in SUBSET Groups, Request(gs) PROVE OneTable'
  <2>1. /\ inForce' = Effective(table, gs) /\ groups' = gs /\ todo' = gs
        /\ found' = {} /\ UNCHANGED tables
    BY <1>1 DEF Request, OneTable
  <2>2. CASE env # NoPolicy
    BY <1>1, <2>1, <2>2 DEF Request, OneTable, Effective
  <2>3. CASE env = NoPolicy
    <3>1. pc' = "user"
      BY <1>1, <2>3 DEF Request
    <3>2. PICK t \in Tables : t = table
      BY DEF TypeOK, Tables
    <3>3. Effective(t, groups)' = Effective(table, gs)
      BY <2>1, <3>2 DEF Effective
    <3>4. Witness(t)'
      BY <2>1, <3>1, <3>2, <3>3 DEF Witness
    <3>5. Witness(table)'
      BY <2>1, <3>2, <3>4 DEF Witness, Effective
    <3>6. QED
      BY <2>1, <2>3, <3>1, <3>4, <3>5 DEF OneTable
  <2>4. QED
    BY <2>2, <2>3
<1>2. CASE GetUserPolicy \/ (\E g \in Groups : GetGroupPolicy(g)) \/ ChooseGroupPolicy
           \/ GetDefaultPolicy
  <2>1. /\ pc \in Resolving /\ UNCHANGED <<tables, changes>> /\ (failed => failed')
        /\ pc' \in {"group", "default", "unblock", "done"}
    BY <1>2 DEF GetUserPolicy, GetGroupPolicy, ChooseGroupPolicy, GetDefaultPolicy, Read, Decide
  <2>2. CASE failed'
    BY <2>1, <2>2 DEF OneTable
  <2>3. CASE ~failed'
    <3>1. ~failed /\ env = NoPolicy /\ (changes = 0 => Witness(table))
      BY <2>1, <2>3 DEF OneTable, TypeOK
    <3>2. PICK t \in Tables : Witness(t)
      BY <2>1, <3>1 DEF OneTable
    <3>3. /\ pc' \in Resolving => Witness(t)'
          /\ pc' \in {"unblock", "clock", "usage"} => policy' \in inForce'
      BY <1>2, <2>1, <2>3, <3>1, <3>2, ReadsWitness
    <3>4. ASSUME changes = 0, pc' \in Resolving PROVE Witness(table)'
      <4>1. PICK u \in Tables : u = table
        BY DEF TypeOK, Tables
      <4>2. Witness(u)
        BY <3>1, <3>4, <4>1
      <4>3. Witness(u)'
        BY <1>2, <2>1, <2>3, <3>1, <3>4, <4>2, ReadsWitness
      <4>4. QED
        BY <2>1, <4>1, <4>3 DEF Witness, Effective
    <3>5. QED
      BY <2>1, <3>1, <3>3, <3>4 DEF OneTable
  <2>4. QED
    BY <2>2, <2>3 DEF TypeOK
<1>3. CASE \/ MissingIdentity \/ GetUnblockStatus \/ ReadClock \/ GetUserUsage
           \/ CheckFails \/ Respond
  BY <1>3 DEF MissingIdentity, GetUnblockStatus, ReadClock, GetUserUsage, CheckFails, Respond,
                Decide, OneTable, TypeOK
<1>4. ASSUME NEW k \in Keys, ChangePolicy(k) PROVE OneTable'
  <2>1. UNCHANGED <<env, request, failed>> /\ ~failed /\ changes = 0
    BY <1>4, SettingsAssumption DEF ChangePolicy, OneChange, TypeOK
  <2>2. CASE pc \in Resolving
    <3>1. changes' = 1
      BY <1>4, <2>1, <2>2 DEF ChangePolicy, Running
    <3>2. \E t \in Tables : Witness(t)'
      BY <1>4, <2>1, <2>2, ChangeWitnessed
    <3>3. QED
      BY <2>1, <2>2, <3>1, <3>2 DEF OneTable
  <2>3. CASE pc \notin Resolving
    <3>1. inForce \subseteq inForce'
      BY <1>4 DEF ChangePolicy
    <3>2. QED
      BY <2>1, <2>3, <3>1 DEF OneTable
  <2>4. QED
    BY <2>2, <2>3
<1>5. CASE ChangeUnblock \/ UsageGrows \/ NextDay \/ UNCHANGED vars
  <2>1. UNCHANGED <<table, env, pc, groups, todo, found, policy, changes, inForce, failed>>
    BY <1>5 DEF ChangeUnblock, UsageGrows, NextDay, vars
  <2>2. QED
    BY <2>1 DEF OneTable, Witness, Effective
<1>6. QED
  BY <1>1, <1>2, <1>3, <1>4, <1>5 DEF Next

(* If at most one policy is changed while a request runs, the policy it    *)
(* ends up with was in force at some moment since it began, for any groups *)
(* and policies, whichever item changes and whichever were read before.    *)
THEOREM PolicyAlwaysWasInForce ==
    ASSUME OneChange
    PROVE  Spec => []PolicyWasInForce
<1>1. Init => OneTable
  BY DEF Init, OneTable, Resolving
<1>2. OneTable => PolicyWasInForce
  BY DEF OneTable, PolicyWasInForce
<1>3. QED
  BY <1>1, <1>2, OneTableKept, QuotaTypes, PTL DEF Spec
=============================================================================
