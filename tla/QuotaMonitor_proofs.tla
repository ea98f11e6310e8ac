------------------------- MODULE QuotaMonitor_proofs -------------------------
(***************************************************************************)
(* Theorems about QuotaMonitor, for any users, limits, days and numbers of *)
(* runs: types, and what the alerts promise.                               *)
(***************************************************************************)
EXTENDS QuotaMonitor, TLAPS

USE DEF tables, history

-----------------------------------------------------------------------------
(* Types.                                                                  *)

LEMMA DayTypes ==
    /\ 1 \in Days /\ Days \subseteq Nat \ {0}
    /\ \A d : MonthOf(d) \in Months
    /\ \A k, d \in Days : Period(k, d) \in Days \cup Months
BY BoundsAssumption DEF Days, Months, MonthOf, Period

LEMMA PlusTyped ==
    /\ Nothing \in UsageType
    /\ \A x, y \in UsageType : Plus(x, y) \in UsageType
BY DEF Nothing, Plus, UsageType

LEMMA IdleTyped == Idle \in RunType
<1>1. [u \in Users |-> Nothing] \in [Users -> UsageType]
  BY PlusTyped
<1>2. Unread \in [Users -> {<<>>} \cup [total : UsageType, daily : UsageType]]
  BY DEF Unread
<1>3. QED
  BY <1>1, <1>2, DayTypes DEF Idle, RunType

(* The state a run is in and what it becomes.                              *)
LEMMA BecomesTyped ==
    ASSUME run \in [Runs -> RunType], NEW r \in Runs, NEW new \in RunType, Become(r, new)
    PROVE  run' \in [Runs -> RunType] /\ run'[r] = new /\ \A q \in Runs \ {r} : run'[q] = run[q]
BY DEF Become

LEMMA ToUpdateTyped ==
    ASSUME NEW x \in RunType, NEW us \in SUBSET Users, NEW d \in Days
    PROVE  [x EXCEPT !.user = {}, !.reset = FALSE,
                !.pc = IF us = {} THEN "scan" ELSE "get",
                !.stamp = IF us = {} THEN 1 ELSE d,
                !.todo = IF us = {} THEN Users ELSE us] \in RunType
BY DayTypes DEF RunType

LEMMA GetTyped ==
    ASSUME NEW x \in RunType, NEW u \in Users, NEW b \in BOOLEAN
    PROVE  [x EXCEPT !.pc = "update", !.todo = @ \ {u}, !.user = {u}, !.reset = b] \in RunType
BY DEF RunType

LEMMA LimitsTyped ==
    ASSUME NEW x \in RunType, NEW ks \in SUBSET Kinds
    PROVE  [x EXCEPT !.pc = "sent", !.limits = ks] \in RunType
BY DEF RunType

LEMMA KnownTyped ==
    ASSUME NEW x \in RunType, NEW ks \in SUBSET Keys
    PROVE  [x EXCEPT !.known = ks] \in RunType
BY DEF RunType

LEMMA OutboxTyped ==
    ASSUME NEW x \in RunType, NEW a \in Alerts
    PROVE  [x EXCEPT !.outbox = @ \cup {a}] \in RunType /\ [x EXCEPT !.outbox = @ \ {a}] \in RunType
BY DEF RunType

LEMMA DueTyped ==
    ASSUME NEW x PROVE Due(x) \subseteq Reached(x) /\ Reached(x) \subseteq Alerts
BY DEF Due, Reached

LEMMA ToRecordTyped ==
    ASSUME run \in [Runs -> RunType], NEW r \in Runs, NEW x \in RunType, ToRecord(r, x)
    PROVE  run' \in [Runs -> RunType]
<1>1. [x EXCEPT !.pc = IF Due(x) \subseteq x.outbox THEN "publish" ELSE "record"] \in RunType
  BY DEF RunType
<1>2. QED
  BY <1>1 DEF ToRecord, Become

(* A run that has been begun with window w.                                *)
LEMMA BegunTyped ==
    ASSUME NEW w \in [Users -> UsageType], NEW d \in Days
    PROVE  [Idle EXCEPT !.pc = "fetch", !.date = d, !.window = w] \in RunType
           /\ [Idle EXCEPT !.pc = "retry", !.window = w] \in RunType
BY IdleTyped DEF RunType

LEMMA AddedTyped ==
    ASSUME NEW i \in [total : UsageType, daily : UsageType, date : {0} \cup Days],
           NEW w \in UsageType, NEW d \in Days, NEW b \in BOOLEAN
    PROVE  Added(i, w, d, b) \in [total : UsageType, daily : UsageType, date : {0} \cup Days]
BY PlusTyped DEF Added

LEMMA EntryTyped ==
    ASSUME NEW i \in [total : UsageType, daily : UsageType, date : {0} \cup Days], NEW d
    PROVE  BuildUsageEntry(i, d) \in [total : UsageType, daily : UsageType]
BY PlusTyped DEF BuildUsageEntry

LEMMA RecordTyped ==
    ASSUME NEW x \in RunType, NEW a \in Due(x)
    PROVE  a \in Alerts /\ Recorded(a) \in Records
<1>1. a \in Alerts /\ a.period = Period(a.kind, x.date) /\ x.date \in Days
  BY DEF Due, Reached, RunType
<1>2. DateOf(a) \in {0} \cup Days
  BY <1>1 DEF DateOf, Period
<1>3. QED
  BY <1>1, <1>2, DayTypes DEF Recorded, Records, Keys, KeyOf, Alerts

LEMMA KeysReadTyped ==
    ASSUME records \subseteq Records, NEW f \in SUBSET records, NEW g \in SUBSET records
    PROVE  {FirstPageKey(x) : x \in f} \subseteq Keys /\ {SecondPageKey(x) : x \in g} \subseteq Keys
BY DEF FirstPageKey, SecondPageKey, Records, Keys

LEMMA TypesKept == TypeOK /\ [Next]_vars => TypeOK'
<1> SUFFICES ASSUME TypeOK, [Next]_vars PROVE TypeOK'
  OBVIOUS
<1>a. run \in [Runs -> RunType]
  BY DEF TypeOK
<1>1. ASSUME NEW r \in Runs, Invoke(r) PROVE TypeOK'
  <2>1. PICK w \in [Users -> Deltas] : Begin(r, w)
    BY <1>1 DEF Invoke
  <2>2. w \in [Users -> UsageType]
    BY DeltasAssumption
  <2>3. run' \in [Runs -> RunType]
    BY <1>a, <2>1, <2>2, BegunTyped, BecomesTyped DEF Begin, TypeOK
  <2>4. clean' \in BOOLEAN
    BY <1>1 DEF Invoke, TypeOK
  <2>5. QED
    BY <1>1, <2>3, <2>4 DEF Invoke, TypeOK
<1>2. ASSUME NEW r \in Runs, Fetch(r) PROVE TypeOK'
  <2>1. run' \in [Runs -> RunType]
    BY <1>a, <1>2, ToUpdateTyped, BecomesTyped, IdleTyped DEF Fetch, ToUpdate, TypeOK
  <2>2. QED
    BY <1>2, <2>1 DEF Fetch, TypeOK
<1>3. ASSUME NEW r \in Runs, NEW u \in Users, GetItem(r, u) PROVE TypeOK'
  <2>1. run[r] \in RunType /\ run[r].stamp \in Days /\ run[r].todo \ {u} \in SUBSET Users
    BY <1>a DEF RunType
  <2>2. [run[r] EXCEPT !.pc = "update", !.todo = @ \ {u}, !.user = {u},
              !.reset = item[u][MonthOf(run[r].stamp)].date # run[r].stamp] \in RunType
    BY <2>1, GetTyped
  <2>3. run' \in [Runs -> RunType]
    BY <1>a, <1>3, <2>1, <2>2, ToUpdateTyped, BecomesTyped DEF GetItem, ToUpdate
  <2>4. clean' \in BOOLEAN
    BY <1>3 DEF GetItem, TableFails, TypeOK
  <2>5. QED
    BY <1>3, <2>3, <2>4 DEF GetItem, TypeOK
<1>4. ASSUME NEW r \in Runs, NEW u \in Users, UpdateItem(r, u) PROVE TypeOK'
  <2>1. /\ run[r] \in RunType /\ run[r].stamp \in Days /\ run[r].todo \in SUBSET Users
        /\ run[r].window[u] \in UsageType /\ run[r].reset \in BOOLEAN
        /\ MonthOf(run[r].stamp) \in Months
    BY <1>a, DayTypes DEF RunType
  <2>2. run' \in [Runs -> RunType]
    BY <1>a, <1>4, <2>1, ToUpdateTyped, BecomesTyped DEF UpdateItem, ToUpdate
  <2>3. clean' \in BOOLEAN
    BY <1>4 DEF UpdateItem, TableFails, TypeOK
  <2>4. item' \in [Users -> [Months -> [total : UsageType, daily : UsageType, date : {0} \cup Days]]]
    <3> DEFINE m == MonthOf(run[r].stamp)
               T == [total : UsageType, daily : UsageType, date : {0} \cup Days]
               new == Added(item[u][m], run[r].window[u], run[r].stamp, run[r].reset)
    <3>a. item \in [Users -> [Months -> T]] /\ m \in Months
      BY <2>1 DEF TypeOK
    <3>b. item[u][m] \in T
      BY <3>a
    <3>c. new \in T
      BY <2>1, <3>b, AddedTyped
    <3>1. item \in [Users -> [Months -> T]] /\ m \in Months /\ new \in T
      BY <3>a, <3>c
    <3>2. item' = item \/ item' = [item EXCEPT ![u][m] = new]
      BY <1>4 DEF UpdateItem
    <3> HIDE DEF T, m, new
    <3>3. item' \in [Users -> [Months -> T]]
      BY <3>1, <3>2
    <3>4. QED
      BY <3>3 DEF T
  <2>5. measured' \in [Users -> [Days -> UsageType]]
    <3> DEFINE d == run[r].stamp
               new == Plus(measured[u][d], run[r].window[u])
    <3>1. measured \in [Users -> [Days -> UsageType]] /\ d \in Days /\ new \in UsageType
      BY <2>1, PlusTyped DEF TypeOK
    <3>2. measured' = measured \/ measured' = [measured EXCEPT ![u][d] = new]
      BY <1>4 DEF UpdateItem
    <3> HIDE DEF d, new
    <3>3. QED
      BY <3>1, <3>2
  <2>6. QED
    BY <1>4, <2>2, <2>3, <2>4, <2>5 DEF UpdateItem, TypeOK
<1>5. ASSUME NEW r \in Runs, NEW u \in Users, ScanItem(r, u) PROVE TypeOK'
  <2> DEFINE i == item[u][Month(r)]
             e == IF i = NoItem THEN <<>> ELSE BuildUsageEntry(i, run[r].date)
             us == run[r].todo \ {u}
             es == [run[r].seen EXCEPT ![u] = e]
             new == [run[r] EXCEPT !.todo = us, !.seen = es,
                         !.pc = IF us = {} THEN "policies" ELSE "scan"]
  <2>1. i \in [total : UsageType, daily : UsageType, date : {0} \cup Days]
    BY DayTypes DEF TypeOK, Month
  <2>2. e \in {<<>>} \cup [total : UsageType, daily : UsageType]
    BY <2>1, EntryTyped
  <2>3. es \in [Users -> {<<>>} \cup [total : UsageType, daily : UsageType]]
    BY <1>a, <2>2 DEF RunType
  <2>4. new \in RunType
    <3>1. us \in SUBSET Users /\ run[r] \in RunType
      BY <1>a DEF RunType
    <3> HIDE DEF us, es
    <3>2. QED
      BY <2>3, <3>1 DEF RunType
  <2>5. Become(r, Idle) \/ Become(r, new)
    BY <1>5 DEF ScanItem
  <2>6. run' \in [Runs -> RunType]
    BY <1>a, <2>4, <2>5, IdleTyped, BecomesTyped
  <2>7. clean' \in BOOLEAN
    BY <1>5 DEF ScanItem, TableFails, TypeOK
  <2>8. QED
    BY <1>5, <2>6, <2>7 DEF ScanItem, TypeOK
<1>6. ASSUME NEW r \in Runs, LoadAllPolicies(r) PROVE TypeOK'
  <2>1. PICK ks \in {Kinds, {k \in Kinds : Unit(k) = "tokens"}, {}} :
            Become(r, [run[r] EXCEPT !.pc = "sent", !.limits = ks])
    BY <1>6 DEF LoadAllPolicies
  <2>2. [run[r] EXCEPT !.pc = "sent", !.limits = ks] \in RunType
    BY <1>a, <2>1, LimitsTyped
  <2>3. run' \in [Runs -> RunType]
    BY <1>a, <2>1, <2>2, BecomesTyped
  <2>4. clean' \in BOOLEAN
    BY <1>6 DEF LoadAllPolicies, TableFails, TypeOK
  <2>5. QED
    BY <1>6, <2>3, <2>4 DEF LoadAllPolicies, TypeOK
<1>7. ASSUME NEW r \in Runs, GetSentAlerts(r) PROVE TypeOK'
  <2>1. PICK ks : ks \subseteq Keys /\ ToRecord(r, [run[r] EXCEPT !.known = ks])
    <3> DEFINE now == {x \in records : x.month = MonthOf(day)}
    <3>1. PICK first \in SUBSET now :
            \/ ToRecord(r, [run[r] EXCEPT !.known =
                   {FirstPageKey(x) : x \in first} \cup {SecondPageKey(x) : x \in now \ first}])
            \/ \E ks \in {{}, {FirstPageKey(x) : x \in first}} :
                   ToRecord(r, [run[r] EXCEPT !.known = ks])
      BY <1>7 DEF GetSentAlerts, FirstPages
    <3>2. /\ {FirstPageKey(x) : x \in first} \subseteq Keys
          /\ {SecondPageKey(x) : x \in now \ first} \subseteq Keys
      BY <3>1, KeysReadTyped DEF TypeOK
    <3>3. QED
      BY <3>1, <3>2
  <2>2. [run[r] EXCEPT !.known = ks] \in RunType
    BY <1>a, <2>1, KnownTyped
  <2>3. run' \in [Runs -> RunType]
    BY <1>a, <2>1, <2>2, ToRecordTyped
  <2>4. clean' \in BOOLEAN
    BY <1>7 DEF GetSentAlerts, TableFails, TypeOK
  <2>5. QED
    BY <1>7, <2>3, <2>4 DEF GetSentAlerts, TypeOK
<1>8. ASSUME NEW r \in Runs, NEW a \in Alerts, RecordSentAlert(r, a) PROVE TypeOK'
  <2>1. run[r] \in RunType /\ a \in Due(run[r])
    BY <1>a, <1>8 DEF RecordSentAlert
  <2>2. [run[r] EXCEPT !.outbox = @ \cup {a}] \in RunType
    BY <2>1, OutboxTyped
  <2>3. run' \in [Runs -> RunType]
    BY <1>a, <1>8, <2>2, ToRecordTyped DEF RecordSentAlert
  <2>4. records' \subseteq Records
    BY <1>8, <2>1, RecordTyped DEF RecordSentAlert, TypeOK
  <2>5. clean' \in BOOLEAN
    BY <1>8 DEF RecordSentAlert, TableFails, TypeOK
  <2>6. QED
    BY <1>8, <2>3, <2>4, <2>5 DEF RecordSentAlert, TypeOK
<1>9. ASSUME NEW r \in Runs, NEW a \in Alerts, Publish(r, a) PROVE TypeOK'
  <2>1. [run[r] EXCEPT !.outbox = @ \ {a}] \in RunType
    BY <1>a, OutboxTyped
  <2>2. run' \in [Runs -> RunType]
    BY <1>a, <1>9, <2>1, BecomesTyped DEF Publish
  <2>3. QED
    BY <1>9, <2>2 DEF Publish, TypeOK
<1>10. ASSUME NEW r \in Runs, Return(r) \/ Timeout(r) \/ Retry(r) PROVE TypeOK'
  <2>1. run[r].outbox \subseteq Alerts /\ run[r].window \in [Users -> UsageType]
    BY <1>a DEF RunType
  <2>2. run' \in [Runs -> RunType]
    BY <1>a, <1>10, <2>1, BegunTyped, IdleTyped, BecomesTyped DEF Return, Timeout, Retry, Begin, TypeOK
  <2>3. QED
    BY <1>10, <2>1, <2>2 DEF Return, Timeout, Retry, TypeOK
<1>11. CASE NextDay
  BY <1>11, BoundsAssumption DEF NextDay, TypeOK, Days
<1>12. CASE UNCHANGED vars
  BY <1>12 DEF vars, TypeOK
<1>13. QED
  BY <1>1, <1>2, <1>3, <1>4, <1>5, <1>6, <1>7, <1>8, <1>9, <1>10, <1>11, <1>12 DEF Next

(* Every step of a run, also of one that is cut off, retried or meets a    *)
(* failing call, keeps the items, the records and the alerts well-formed.  *)
THEOREM MonitorTypes == Spec => []TypeOK
<1>1. Init => TypeOK
  <2> SUFFICES ASSUME Init PROVE TypeOK
    OBVIOUS
  <2>1. NoItem \in [total : UsageType, daily : UsageType, date : {0} \cup Days]
    BY PlusTyped DEF NoItem
  <2>2. QED
    BY <2>1, IdleTyped, PlusTyped, DayTypes DEF Init, TypeOK
<1>2. QED
  BY <1>1, TypesKept, PTL DEF Spec

-----------------------------------------------------------------------------
(* Daily alerts.                                                           *)

(* The levels of a limit are in order.                                     *)
OrderedThresholds ==
    \A k \in Kinds :
        /\ Thresholds[k]["warning"] <= Thresholds[k]["critical"]
        /\ Thresholds[k]["critical"] <= Thresholds[k]["exceeded"]

Within(x, y) == x.tokens <= y.tokens /\ x.cost <= y.cost

ItemCounted(u, m) ==
    item[u][m].date \in Days => Within(item[u][m].daily, measured[u][item[u][m].date])

(* What run x decided about the counters still holds, and what it read and *)
(* is about to publish was measured.                                       *)
RunCounted(x) ==
    /\ x.pc = "update" =>
        \A u \in x.user : x.reset <=> item[u][MonthOf(x.stamp)].date # x.stamp
    /\ \A u \in Users : x.seen[u] # <<>> => Within(x.seen[u].daily, measured[u][x.date])
    /\ \A a \in x.outbox : IsDaily(a.kind) =>
        measured[a.user][a.period][Unit(a.kind)] > Thresholds[a.kind]["warning"]

OneRun == \A r, q \in Runs : UnderWay(r) /\ UnderWay(q) => r = q

Counted ==
    clean =>
        /\ OneRun
        /\ \A u \in Users, m \in Months : ItemCounted(u, m)
        /\ \A r \in Runs : RunCounted(run[r])

LEMMA WithinReflexive == \A x \in UsageType : Within(x, x) /\ Within(Nothing, x)
BY DEF UsageType, Within, Nothing

LEMMA WithinSum ==
    \A x, y, w \in UsageType : Within(x, y) =>
        Within(x, Plus(y, w)) /\ Within(Plus(x, w), Plus(y, w)) /\ Within(w, Plus(y, w))
BY DEF UsageType, Within, Plus

LEMMA DueCounted ==
    ASSUME OrderedThresholds, TypeOK, NEW x \in RunType, RunCounted(x), NEW a \in Due(x), IsDaily(a.kind)
    PROVE  measured[a.user][a.period][Unit(a.kind)] > Thresholds[a.kind]["warning"]
<1> DEFINE e == x.seen[a.user]
<1>1. /\ a \in Alerts /\ e # <<>> /\ a.kind \in Kinds /\ a.user \in Users
      /\ a.level \in LevelsAt(a.kind, Used(e, a.kind)) /\ a.period = x.date /\ x.date \in Days
  BY DEF Due, Reached, Alerts, Period, RunType
<1>2. e \in [total : UsageType, daily : UsageType]
  BY <1>1 DEF RunType
<1>3. Within(e.daily, measured[a.user][x.date])
  BY <1>1 DEF RunCounted
<1>4. /\ e.daily[Unit(a.kind)] \in Nat /\ measured[a.user][x.date][Unit(a.kind)] \in Nat
      /\ e.daily[Unit(a.kind)] <= measured[a.user][x.date][Unit(a.kind)]
  <2>1. measured[a.user][x.date] \in UsageType /\ e.daily \in UsageType
    BY <1>1, <1>2 DEF TypeOK
  <2>2. QED
    BY <1>3, <2>1 DEF Unit, Within, UsageType
<1>5. Used(e, a.kind) = e.daily[Unit(a.kind)]
  BY DEF Used
<1>6. /\ Thresholds[a.kind]["warning"] \in Nat /\ Thresholds[a.kind]["critical"] \in Nat
      /\ Thresholds[a.kind]["exceeded"] \in Nat
  BY <1>1, KindsAssumption DEF Levels
<1> HIDE DEF e
<1>7. e.daily[Unit(a.kind)] > Thresholds[a.kind]["warning"]
  BY <1>1, <1>4, <1>5, <1>6 DEF LevelsAt, OrderedThresholds
<1>8. QED
  BY <1>1, <1>4, <1>6, <1>7

(* A step of run r that leaves the counters alone.                         *)
LEMMA RunCountedKept ==
    ASSUME TypeOK, Counted, clean, NEW r \in Runs, NEW new \in RunType, Become(r, new),
           UNCHANGED <<item, measured>>, UnderWay(r) \/ new.pc = "idle", RunCounted(new)
    PROVE  Counted'
<1>1. run'[r] = new /\ \A q \in Runs \ {r} : run'[q] = run[q]
  BY BecomesTyped DEF TypeOK
<1>2. OneRun'
  BY <1>1 DEF Counted, OneRun, UnderWay
<1>3. \A q \in Runs : RunCounted(run[q])' = RunCounted(run'[q])
  BY DEF RunCounted
<1>4. \A q \in Runs : RunCounted(run'[q])
  BY <1>1 DEF Counted
<1>5. QED
  BY <1>2, <1>3, <1>4 DEF Counted, ItemCounted

LEMMA BegunCounted ==
    ASSUME NEW w, NEW d
    PROVE  /\ RunCounted([Idle EXCEPT !.pc = "fetch", !.date = d, !.window = w])
           /\ RunCounted([Idle EXCEPT !.pc = "retry", !.window = w]) /\ RunCounted(Idle)
BY DEF RunCounted, Idle, Unread

LEMMA ToUpdateCounted ==
    ASSUME NEW x \in RunType, RunCounted(x), NEW us, NEW d
    PROVE  RunCounted([x EXCEPT !.user = {}, !.reset = FALSE,
                !.pc = IF us = {} THEN "scan" ELSE "get",
                !.stamp = IF us = {} THEN 1 ELSE d,
                !.todo = IF us = {} THEN Users ELSE us])
BY DEF RunCounted, RunType

LEMMA ToRecordCounted ==
    ASSUME NEW x \in RunType, RunCounted(x)
    PROVE  RunCounted([x EXCEPT !.pc = IF Due(x) \subseteq x.outbox THEN "publish" ELSE "record"])
BY DEF RunCounted, RunType

(* The update of an item, by the only run there is.                        *)
LEMMA UpdateCounted ==
    ASSUME TypeOK, Counted, clean', NEW r \in Runs, NEW u \in Users, UpdateItem(r, u)
    PROVE  Counted'
<1> DEFINE d == run[r].stamp
           m == MonthOf(d)
           w == run[r].window[u]
           i == item[u][m]
<1>1. /\ run \in [Runs -> RunType] /\ run[r] \in RunType /\ d \in Days /\ m \in Months
      /\ w \in UsageType /\ run[r].todo \in SUBSET Users /\ run[r].reset \in BOOLEAN
      /\ i \in [total : UsageType, daily : UsageType, date : {0} \cup Days]
      /\ measured \in [Users -> [Days -> UsageType]]
      /\ item \in [Users -> [Months -> [total : UsageType, daily : UsageType, date : {0} \cup Days]]]
  BY DayTypes DEF TypeOK, RunType
<1>2. /\ clean /\ UnderWay(r) /\ (run[r].reset <=> i.date # d)
      /\ item' = [item EXCEPT ![u][m] = Added(i, w, d, run[r].reset)]
      /\ measured' = [measured EXCEPT ![u][d] = Plus(measured[u][d], w)]
  BY DEF UpdateItem, TableFails, UnderWay, Counted, RunCounted, TypeOK
<1>3. ToUpdate(r, run[r].todo, d)
  BY DEF UpdateItem
<1> HIDE DEF d, m, w, i
<1>4. \A v \in Users, e \in Days :
        /\ measured[v][e] \in UsageType /\ measured'[v][e] \in UsageType
        /\ Within(measured[v][e], measured'[v][e])
  <2> SUFFICES ASSUME NEW v \in Users, NEW e \in Days
               PROVE  /\ measured[v][e] \in UsageType /\ measured'[v][e] \in UsageType
                      /\ Within(measured[v][e], measured'[v][e])
    OBVIOUS
  <2>1. measured[v][e] \in UsageType /\ Within(measured[v][e], measured[v][e])
    BY <1>1, WithinReflexive
  <2>2. /\ Plus(measured[v][e], w) \in UsageType
        /\ Within(measured[v][e], Plus(measured[v][e], w))
    BY <1>1, <2>1, WithinSum, PlusTyped
  <2>3. measured'[v][e] \in {measured[v][e], Plus(measured[v][e], w)}
    BY <1>1, <1>2
  <2>4. QED
    BY <2>1, <2>2, <2>3
<1>5. \A v \in Users, e \in Days, x \in UsageType :
        Within(x, measured[v][e]) => Within(x, measured'[v][e])
  BY <1>4 DEF Within, UsageType
<1>6. ASSUME NEW v \in Users, NEW n \in Months PROVE ItemCounted(v, n)'
  <2>0. ItemCounted(v, n) /\ item[v][n].daily \in UsageType
    BY <1>1, <1>2 DEF Counted
  <2>1. CASE v = u /\ n = m
    <3>1. item'[v][n] = Added(i, w, d, run[r].reset)
      BY <1>1, <1>2, <2>1
    <3>2. measured'[u][d] = Plus(measured[u][d], w)
      BY <1>1, <1>2
    <3>3. CASE i.date = d
      <4>1. item'[v][n].daily = Plus(i.daily, w) /\ item'[v][n].date = d
        BY <1>2, <3>1, <3>3 DEF Added
      <4>2. Within(i.daily, measured[u][d])
        BY <1>1, <2>0, <2>1, <3>3 DEF ItemCounted, i
      <4>3. Within(Plus(i.daily, w), Plus(measured[u][d], w))
        BY <1>1, <1>4, <4>2, WithinSum
      <4>4. QED
        BY <2>1, <3>2, <4>1, <4>3 DEF ItemCounted
    <3>4. CASE i.date # d
      <4>1. item'[v][n].daily = w /\ item'[v][n].date = d
        BY <1>2, <3>1, <3>4 DEF Added
      <4>2. Within(w, Plus(measured[u][d], w))
        BY <1>1, <1>4, WithinReflexive, WithinSum
      <4>3. QED
        BY <2>1, <3>2, <4>1, <4>2 DEF ItemCounted
    <3>5. QED
      BY <3>3, <3>4
  <2>2. CASE ~(v = u /\ n = m)
    <3>1. item'[v][n] = item[v][n]
      BY <1>1, <1>2, <2>2
    <3>2. QED
      BY <1>5, <2>0, <3>1 DEF ItemCounted
  <2>3. QED
    BY <2>1, <2>2
<1>7. ASSUME NEW x \in RunType, RunCounted(x), x.pc # "update" PROVE RunCounted(x)'
  <2>1. \A v \in Users : x.seen[v] # <<>> => Within(x.seen[v].daily, measured'[v][x.date])
    BY <1>5, <1>7 DEF RunCounted, RunType
  <2>2. ASSUME NEW a \in x.outbox, IsDaily(a.kind)
        PROVE  measured'[a.user][a.period][Unit(a.kind)] > Thresholds[a.kind]["warning"]
    <3>1. /\ a \in Alerts /\ a.user \in Users /\ a.kind \in Kinds
      BY DEF RunType, Alerts
    <3>2. measured[a.user][a.period][Unit(a.kind)] > Thresholds[a.kind]["warning"]
      BY <1>7, <2>2 DEF RunCounted
    <3>3. Thresholds[a.kind]["warning"] \in Nat
      BY <3>1, KindsAssumption DEF Levels
    <3>4. CASE a.period \in Days
      <4>1. Within(measured[a.user][a.period], measured'[a.user][a.period])
        BY <1>4, <3>1, <3>4
      <4>2. /\ measured[a.user][a.period] \in UsageType /\ measured'[a.user][a.period] \in UsageType
        BY <1>4, <3>1, <3>4
      <4>3. QED
        BY <3>2, <3>3, <4>1, <4>2 DEF Within, UsageType, Unit
    <3>5. CASE a.period \notin Days
      BY <1>1, <1>2, <3>1, <3>2, <3>5
    <3>6. QED
      BY <3>4, <3>5
  <2>3. QED
    BY <1>7, <2>1, <2>2 DEF RunCounted
<1>8. PICK new \in RunType : Become(r, new) /\ new.pc # "update" /\ RunCounted(new)
  <2> DEFINE us == run[r].todo
             new == [run[r] EXCEPT !.user = {}, !.reset = FALSE,
                         !.pc = IF us = {} THEN "scan" ELSE "get",
                         !.stamp = IF us = {} THEN 1 ELSE d,
                         !.todo = IF us = {} THEN Users ELSE us]
  <2>1. Become(r, new)
    BY <1>3 DEF ToUpdate
  <2>2. new \in RunType
    BY <1>1, ToUpdateTyped
  <2>3. RunCounted(new)
    BY <1>1, <1>2, ToUpdateCounted DEF Counted
  <2>4. new.pc # "update"
    BY <1>1 DEF RunType
  <2> HIDE DEF new
  <2>5. QED
    BY <2>1, <2>2, <2>3, <2>4
<1>9. run'[r] = new /\ \A q \in Runs \ {r} : run'[q] = run[q]
  BY <1>1, <1>8, BecomesTyped
<1>10. \A q \in Runs : run'[q] \in RunType /\ RunCounted(run'[q]) /\ run'[q].pc # "update"
  BY <1>1, <1>2, <1>8, <1>9 DEF Counted, OneRun, UnderWay
<1>11. \A q \in Runs : RunCounted(run[q])'
  BY <1>7, <1>10 DEF RunCounted
<1>12. OneRun'
  BY <1>2, <1>9 DEF Counted, OneRun, UnderWay
<1>13. QED
  BY <1>6, <1>11, <1>12 DEF Counted

(* Reading an item, for one user of the run.                               *)
LEMMA ScanCounted ==
    ASSUME TypeOK, Counted, clean', NEW r \in Runs, NEW u \in Users, ScanItem(r, u)
    PROVE  Counted'
<1> DEFINE i == item[u][Month(r)]
           e == IF i = NoItem THEN <<>> ELSE BuildUsageEntry(i, run[r].date)
           us == run[r].todo \ {u}
           es == [run[r].seen EXCEPT ![u] = e]
           new == [run[r] EXCEPT !.todo = us, !.seen = es,
                       !.pc = IF us = {} THEN "policies" ELSE "scan"]
<1>1. /\ run \in [Runs -> RunType] /\ run[r] \in RunType /\ run[r].date \in Days
      /\ Month(r) \in Months /\ us \in SUBSET Users
      /\ i \in [total : UsageType, daily : UsageType, date : {0} \cup Days]
      /\ measured[u][run[r].date] \in UsageType
  <2>1. run \in [Runs -> RunType] /\ run[r] \in RunType
    BY DEF TypeOK
  <2>2. run[r].date \in Days /\ us \in SUBSET Users
    BY <2>1 DEF RunType
  <2>3. Month(r) \in Months
    BY DayTypes DEF Month
  <2>4. QED
    BY <2>1, <2>2, <2>3 DEF TypeOK
<1>2. /\ clean /\ UnderWay(r) /\ UNCHANGED <<item, measured>> /\ clean' = clean
      /\ Become(r, Idle) \/ Become(r, new)
  BY DEF ScanItem, TableFails, UnderWay
<1>3. e # <<>> => Within(e.daily, measured[u][run[r].date])
  <2>1. ItemCounted(u, Month(r))
    BY <1>1, <1>2 DEF Counted
  <2>2. QED
    BY <1>1, <2>1, WithinReflexive DEF ItemCounted, BuildUsageEntry
<1>4. e \in {<<>>} \cup [total : UsageType, daily : UsageType]
  BY <1>1, EntryTyped
<1> HIDE DEF i, e, us
<1>5. es \in [Users -> {<<>>} \cup [total : UsageType, daily : UsageType]]
  BY <1>1, <1>4 DEF RunType
<1>6. RunCounted(run[r])
  BY <1>2 DEF Counted
<1>7. \A v \in Users : es[v] # <<>> => Within(es[v].daily, measured[v][run[r].date])
  BY <1>1, <1>3, <1>6 DEF RunCounted, RunType
<1> HIDE DEF es
<1>8. new \in RunType
  BY <1>1, <1>5 DEF RunType
<1>9. RunCounted(new)
  BY <1>1, <1>6, <1>7 DEF RunCounted, RunType
<1> HIDE DEF new
<1>10. QED
  BY <1>2, <1>8, <1>9, RunCountedKept, BegunCounted, IdleTyped DEF Idle

LEMMA CountedKept == OrderedThresholds /\ TypeOK /\ Counted /\ [Next]_vars => Counted'
<1> SUFFICES ASSUME OrderedThresholds, TypeOK, Counted, [Next]_vars, clean' PROVE Counted'
  BY DEF Counted
<1>a. run \in [Runs -> RunType] /\ \A r \in Runs : run[r] \in RunType
  BY DEF TypeOK
<1>1. ASSUME NEW r \in Runs, Invoke(r) PROVE Counted'
  <2>1. clean /\ \A q \in Runs : ~UnderWay(q)
    BY <1>1 DEF Invoke
  <2>2. PICK w \in [Users -> UsageType] : Begin(r, w)
    BY <1>1, DeltasAssumption DEF Invoke
  <2> DEFINE new == [Idle EXCEPT !.pc = "fetch", !.date = day, !.window = w]
  <2>3. new \in RunType /\ RunCounted(new) /\ Become(r, new)
    BY <2>2, BegunTyped, BegunCounted DEF Begin, TypeOK
  <2> HIDE DEF new
  <2>4. run'[r] = new /\ \A q \in Runs \ {r} : run'[q] = run[q]
    BY <1>a, <2>3, BecomesTyped
  <2>5. OneRun'
    BY <2>1, <2>4 DEF OneRun, UnderWay
  <2>6. UNCHANGED <<item, measured>>
    BY <1>1 DEF Invoke
  <2>7. \A q \in Runs : RunCounted(run[q])'
    BY <2>1, <2>3, <2>4, <2>6 DEF Counted, RunCounted
  <2>8. QED
    BY <2>1, <2>5, <2>6, <2>7 DEF Counted, ItemCounted
<1>2. ASSUME NEW r \in Runs, Fetch(r) PROVE Counted'
  <2>1. clean /\ UnderWay(r) /\ UNCHANGED <<item, measured>>
    BY <1>2 DEF Fetch, UnderWay
  <2> DEFINE us == {v \in Users : run[r].window[v].tokens > 0}
             new == [run[r] EXCEPT !.user = {}, !.reset = FALSE,
                         !.pc = IF us = {} THEN "scan" ELSE "get",
                         !.stamp = IF us = {} THEN 1 ELSE day,
                         !.todo = IF us = {} THEN Users ELSE us]
  <2>2. Become(r, new) \/ Become(r, Idle)
    BY <1>2 DEF Fetch, ToUpdate
  <2>3. new \in RunType /\ RunCounted(new)
    BY <1>a, <2>1, ToUpdateTyped, ToUpdateCounted DEF Counted, TypeOK
  <2> HIDE DEF new
  <2>4. QED
    BY <2>1, <2>2, <2>3, RunCountedKept, BegunCounted, IdleTyped DEF Idle
<1>3. ASSUME NEW r \in Runs, NEW u \in Users, GetItem(r, u) PROVE Counted'
  <2> DEFINE new == [run[r] EXCEPT !.pc = "update", !.todo = @ \ {u}, !.user = {u},
                         !.reset = item[u][MonthOf(run[r].stamp)].date # run[r].stamp]
  <2>1. clean /\ UnderWay(r) /\ UNCHANGED <<item, measured>> /\ Become(r, new)
    BY <1>3 DEF GetItem, UnderWay, TableFails
  <2>2. new \in RunType
    BY <1>a, GetTyped
  <2>3. RunCounted(run[r])
    BY <2>1 DEF Counted
  <2>4. RunCounted(new)
    BY <1>a, <2>3 DEF RunCounted, RunType
  <2> HIDE DEF new
  <2>5. QED
    BY <2>1, <2>2, <2>4, RunCountedKept
<1>4. ASSUME NEW r \in Runs, NEW u \in Users, UpdateItem(r, u) PROVE Counted'
  BY <1>4, UpdateCounted
<1>5. ASSUME NEW r \in Runs, NEW u \in Users, ScanItem(r, u) PROVE Counted'
  BY <1>5, ScanCounted
<1>6. ASSUME NEW r \in Runs, LoadAllPolicies(r) PROVE Counted'
  <2>1. PICK ks \in SUBSET Kinds : Become(r, [run[r] EXCEPT !.pc = "sent", !.limits = ks])
    BY <1>6 DEF LoadAllPolicies
  <2> DEFINE new == [run[r] EXCEPT !.pc = "sent", !.limits = ks]
  <2>2. clean /\ UnderWay(r) /\ UNCHANGED <<item, measured>>
    BY <1>6 DEF LoadAllPolicies, UnderWay, TableFails
  <2>3. new \in RunType
    BY <1>a, LimitsTyped
  <2>4. RunCounted(new)
    BY <1>a, <2>2 DEF RunCounted, RunType, Counted
  <2>5. Become(r, new)
    BY <2>1
  <2> HIDE DEF new
  <2>6. QED
    BY <2>2, <2>3, <2>4, <2>5, RunCountedKept
<1>7. ASSUME NEW r \in Runs, NEW x \in RunType, ToRecord(r, x), RunCounted(x), clean,
             UnderWay(r), UNCHANGED <<item, measured>>
      PROVE  Counted'
  <2> DEFINE new == [x EXCEPT !.pc = IF Due(x) \subseteq x.outbox THEN "publish" ELSE "record"]
  <2>1. new \in RunType /\ RunCounted(new) /\ Become(r, new)
    BY <1>7, ToRecordCounted DEF ToRecord, RunType
  <2> HIDE DEF new
  <2>2. QED
    BY <1>7, <2>1, RunCountedKept
<1>8. ASSUME NEW r \in Runs, GetSentAlerts(r) PROVE Counted'
  <2>1. PICK ks \in SUBSET Keys : ToRecord(r, [run[r] EXCEPT !.known = ks])
    <3>1. PICK first \in SUBSET records, second \in SUBSET records :
              ToRecord(r, [run[r] EXCEPT !.known =
                   {FirstPageKey(x) : x \in first} \cup {SecondPageKey(x) : x \in second}])
      BY <1>8 DEF GetSentAlerts, FirstPages, TableFails
    <3>2. QED
      BY <3>1, KeysReadTyped DEF TypeOK
  <2>2. clean /\ UnderWay(r) /\ UNCHANGED <<item, measured>>
    BY <1>8 DEF GetSentAlerts, UnderWay, TableFails
  <2> DEFINE x == [run[r] EXCEPT !.known = ks]
  <2>3. x \in RunType
    BY <1>a, KnownTyped
  <2>4. RunCounted(x)
    BY <1>8, <1>a, <2>2 DEF RunCounted, RunType, Counted, GetSentAlerts
  <2>5. ToRecord(r, x)
    BY <2>1
  <2> HIDE DEF x
  <2>6. QED
    BY <1>7, <2>2, <2>3, <2>4, <2>5
<1>9. ASSUME NEW r \in Runs, NEW a \in Alerts, RecordSentAlert(r, a) PROVE Counted'
  <2> DEFINE x == [run[r] EXCEPT !.outbox = @ \cup {a}]
  <2>1. /\ clean /\ UnderWay(r) /\ UNCHANGED <<item, measured>>
        /\ a \in Due(run[r]) /\ run[r].pc = "record" /\ ToRecord(r, x)
    BY <1>9 DEF RecordSentAlert, UnderWay, TableFails
  <2>2. x \in RunType
    BY <1>a, OutboxTyped
  <2>3. RunCounted(run[r])
    BY <2>1 DEF Counted
  <2>4. IsDaily(a.kind) => measured[a.user][a.period][Unit(a.kind)] > Thresholds[a.kind]["warning"]
    BY <1>a, <2>1, <2>3, DueCounted
  <2>5. RunCounted(x)
    BY <1>a, <2>1, <2>3, <2>4 DEF RunCounted, RunType
  <2> HIDE DEF x
  <2>6. QED
    BY <1>7, <2>1, <2>2, <2>5
<1>10. ASSUME NEW r \in Runs, NEW a \in Alerts, Publish(r, a) PROVE Counted'
  <2> DEFINE x == [run[r] EXCEPT !.outbox = @ \ {a}]
  <2>1. clean /\ UnderWay(r) /\ UNCHANGED <<item, measured>> /\ run[r].pc = "publish" /\ Become(r, x)
    BY <1>10 DEF Publish, UnderWay
  <2>2. x \in RunType
    BY <1>a, OutboxTyped
  <2>3. RunCounted(x)
    BY <1>a, <2>1 DEF RunCounted, RunType, Counted
  <2> HIDE DEF x
  <2>4. QED
    BY <2>1, <2>2, <2>3, RunCountedKept
<1>11. ASSUME NEW r \in Runs, Return(r) \/ Timeout(r) \/ Retry(r) PROVE Counted'
  <2> DEFINE w == run[r].window
             retried == [Idle EXCEPT !.pc = "retry", !.window = w]
             begun == [Idle EXCEPT !.pc = "fetch", !.date = day, !.window = w]
  <2>1. Become(r, Idle) \/ Become(r, retried) \/ Become(r, begun)
    BY <1>11 DEF Return, Timeout, Retry, Begin
  <2>2. w \in [Users -> UsageType] /\ day \in Days
    BY <1>a DEF RunType, TypeOK
  <2>3. /\ retried \in RunType /\ RunCounted(retried)
        /\ begun \in RunType /\ RunCounted(begun)
        /\ Idle \in RunType /\ RunCounted(Idle)
    BY <2>2, BegunTyped, BegunCounted, IdleTyped
  <2>4. clean /\ UnderWay(r) /\ UNCHANGED <<item, measured>>
    BY <1>11 DEF Return, Timeout, Retry, UnderWay
  <2> HIDE DEF w, retried, begun
  <2>5. QED
    BY <2>1, <2>3, <2>4, RunCountedKept
<1>12. CASE NextDay \/ UNCHANGED vars
  BY <1>12 DEF NextDay, vars, Counted, OneRun, UnderWay, ItemCounted, RunCounted
<1>13. QED
  BY <1>1, <1>2, <1>3, <1>4, <1>5, <1>6, <1>8, <1>9, <1>10, <1>11, <1>12 DEF Next

(* However many runs, days and users there are, and wherever runs are cut  *)
(* off: as long as they do not overlap and the table answers, each daily   *)
(* alert is about usage of its own day.                                    *)
THEOREM DailyAlertsAreOfTheirDay ==
    ASSUME OrderedThresholds PROVE Spec => []DailyAlertsOfToday
<1>1. Init => Counted
  <2> SUFFICES ASSUME Init, NEW r \in Runs PROVE RunCounted(run[r]) /\ ~UnderWay(r)
    BY DEF Init, Counted, OneRun, ItemCounted, NoItem, Days
  <2>1. QED
    BY BegunCounted DEF Init, UnderWay, Idle
<1>2. TypeOK /\ Counted => DailyAlertsOfToday
  BY DEF Counted, RunCounted, DailyAlertsOfToday
<1>3. QED
  BY <1>1, <1>2, CountedKept, MonitorTypes, PTL DEF Spec

-----------------------------------------------------------------------------
(* Alerts are published once, and none is forgotten.                       *)

(* The month in which an alert is recorded, and its record.                *)
PeriodMonth(a) == IF IsDaily(a.kind) THEN MonthOf(a.period) ELSE a.period
RecordOf(a) == [key |-> KeyOf(a, DateOf(a)), month |-> PeriodMonth(a)]

OnePage == "straddle" \notin Faults /\ "twoPages" \notin Faults

(* A run is in the month in which it began, and has nothing to publish     *)
(* before it has read the records.                                         *)
InItsMonth ==
    \A r \in Runs :
        /\ run[r].pc \notin {"idle", "retry"} => Month(r) = MonthOf(day)
        /\ run[r].pc \notin {"record", "publish"} => run[r].outbox = {}

(* A step of run r outside the part in which alerts are made: it begins,   *)
(* measures, reads, ends, or is cut off.                                   *)
Quiet(r, new) ==
    /\ Become(r, new) /\ UNCHANGED <<day, records, sent, repeated>>
    /\ new.pc \notin {"record", "publish"} /\ new.outbox = {}
    /\ new.pc \notin {"idle", "retry"} => MonthOf(new.date) = MonthOf(day)
    /\ lost' = lost \cup run[r].outbox
    /\ clean' => clean /\ (UnderWay(r) \/ \A q \in Runs : ~UnderWay(q))

LEMMA StepKinds ==
    ASSUME TypeOK, InItsMonth, Next
    PROVE  \/ \E r \in Runs : \E new : Quiet(r, new)
           \/ \E r \in Runs : GetSentAlerts(r)
           \/ \E r \in Runs, a \in Alerts : RecordSentAlert(r, a) \/ Publish(r, a)
           \/ NextDay
<1>a. ASSUME NEW r \in Runs
      PROVE  /\ run[r] \in RunType /\ Idle \in RunType
             /\ run[r].pc \notin {"idle", "retry"} => MonthOf(run[r].date) = MonthOf(day)
             /\ run[r].pc \notin {"record", "publish"} => run[r].outbox = {}
  BY <1>a, IdleTyped DEF TypeOK, InItsMonth, Month
<1>1. ASSUME NEW r \in Runs, Invoke(r) \/ Timeout(r) \/ Retry(r) \/ Return(r)
      PROVE  \E new : Quiet(r, new)
  <2>1. PICK w, new : /\ Become(r, new)
                      /\ new \in {Idle, [Idle EXCEPT !.pc = "retry", !.window = w],
                                   [Idle EXCEPT !.pc = "fetch", !.date = day, !.window = w]}
    BY <1>1 DEF Invoke, Timeout, Retry, Return, Begin
  <2>2. /\ new.pc \in {"idle", "retry", "fetch"} /\ new.outbox = {}
        /\ new.pc = "fetch" => new.date = day
    <3>1. Idle.pc = "idle" /\ Idle.outbox = {}
      BY DEF Idle
    <3>2. /\ [Idle EXCEPT !.pc = "retry", !.window = w].pc = "retry"
          /\ [Idle EXCEPT !.pc = "retry", !.window = w].outbox = {}
      BY DEF Idle
    <3>3. /\ [Idle EXCEPT !.pc = "fetch", !.date = day, !.window = w].pc = "fetch"
          /\ [Idle EXCEPT !.pc = "fetch", !.date = day, !.window = w].outbox = {}
          /\ [Idle EXCEPT !.pc = "fetch", !.date = day, !.window = w].date = day
      BY DEF Idle
    <3>4. QED
      BY <2>1, <3>1, <3>2, <3>3
  <2>3. lost' = lost \cup run[r].outbox
    BY <1>1, <1>a DEF Invoke, Timeout, Retry, Return, UnderWay
  <2>4. clean' => clean /\ (UnderWay(r) \/ \A q \in Runs : ~UnderWay(q))
    BY <1>1 DEF Invoke, Timeout, Retry, Return, UnderWay
  <2>5. UNCHANGED <<day, records, sent, repeated>>
    BY <1>1 DEF Invoke, Timeout, Retry, Return
  <2>6. QED
    BY <2>1, <2>2, <2>3, <2>4, <2>5 DEF Quiet
<1>2. ASSUME NEW r \in Runs, NEW new, Become(r, new), UnderWay(r),
             new.pc \notin {"record", "publish"}, new.outbox = {}, new.date = run[r].date,
             run[r].pc \notin {"record", "publish", "retry"},
             UNCHANGED <<day, records, sent, repeated, lost>>, clean' => clean
      PROVE  Quiet(r, new)
  BY <1>2, <1>a DEF Quiet, UnderWay
<1>3. ASSUME NEW r \in Runs, Become(r, Idle), UnderWay(r), run[r].pc \notin {"record", "publish"},
             UNCHANGED <<day, records, sent, repeated, lost>>, clean' => clean
      PROVE  Quiet(r, Idle)
  BY <1>3, <1>a DEF Quiet, Idle
<1>4. ASSUME NEW r \in Runs, NEW us, NEW d, ToUpdate(r, us, d), UnderWay(r),
             run[r].pc \notin {"record", "publish", "retry"},
             UNCHANGED <<day, records, sent, repeated, lost>>, clean' => clean
      PROVE  \E new : Quiet(r, new)
  <2> DEFINE new == [run[r] EXCEPT !.user = {}, !.reset = FALSE,
                         !.pc = IF us = {} THEN "scan" ELSE "get",
                         !.stamp = IF us = {} THEN 1 ELSE d,
                         !.todo = IF us = {} THEN Users ELSE us]
  <2>1. Become(r, new)
    BY <1>4 DEF ToUpdate
  <2>2. new.pc \notin {"record", "publish"} /\ new.outbox = {} /\ new.date = run[r].date
    BY <1>4, <1>a DEF RunType
  <2> HIDE DEF new
  <2>3. QED
    BY <1>2, <1>4, <2>1, <2>2
<1>5. ASSUME NEW r \in Runs, Fetch(r) PROVE \E new : Quiet(r, new)
  BY <1>3, <1>4, <1>5 DEF Fetch, UnderWay
<1>6. ASSUME NEW r \in Runs, NEW u \in Users, GetItem(r, u) PROVE \E new : Quiet(r, new)
  <2> DEFINE new == [run[r] EXCEPT !.pc = "update", !.todo = @ \ {u}, !.user = {u},
                         !.reset = item[u][MonthOf(run[r].stamp)].date # run[r].stamp]
  <2>1. new.pc = "update" /\ new.outbox = {} /\ new.date = run[r].date
    BY <1>6, <1>a DEF GetItem, RunType
  <2>2. Become(r, new) \/ ToUpdate(r, run[r].todo \ {u}, run[r].stamp)
    BY <1>6 DEF GetItem
  <2>3. /\ UnderWay(r) /\ run[r].pc = "get" /\ (clean' => clean)
        /\ UNCHANGED <<day, records, sent, repeated, lost>>
    BY <1>6 DEF GetItem, UnderWay, TableFails
  <2> HIDE DEF new
  <2>4. Become(r, new) => Quiet(r, new)
    BY <1>2, <2>1, <2>3
  <2>5. QED
    BY <1>4, <2>2, <2>3, <2>4
<1>7. ASSUME NEW r \in Runs, NEW u \in Users, UpdateItem(r, u) PROVE \E new : Quiet(r, new)
  BY <1>4, <1>7 DEF UpdateItem, UnderWay, TableFails
<1>8. ASSUME NEW r \in Runs, NEW u \in Users, ScanItem(r, u) PROVE \E new : Quiet(r, new)
  <2>1. PICK us, es :
            \/ Become(r, Idle)
            \/ Become(r, [run[r] EXCEPT !.todo = us, !.seen = es,
                             !.pc = IF us = {} THEN "policies" ELSE "scan"])
    BY <1>8 DEF ScanItem
  <2> DEFINE new == [run[r] EXCEPT !.todo = us, !.seen = es,
                         !.pc = IF us = {} THEN "policies" ELSE "scan"]
  <2>2. new.pc \in {"policies", "scan"} /\ new.outbox = {} /\ new.date = run[r].date
    BY <1>8, <1>a DEF ScanItem, RunType
  <2>3. /\ UnderWay(r) /\ run[r].pc = "scan" /\ (clean' => clean)
        /\ UNCHANGED <<day, records, sent, repeated, lost>>
    BY <1>8 DEF ScanItem, UnderWay, TableFails
  <2>4. Become(r, Idle) \/ Become(r, new)
    BY <2>1
  <2> HIDE DEF new
  <2>5. Become(r, new) => Quiet(r, new)
    BY <1>2, <2>2, <2>3
  <2>6. Become(r, Idle) => Quiet(r, Idle)
    BY <1>3, <2>3
  <2>7. QED
    BY <2>4, <2>5, <2>6
<1>9. ASSUME NEW r \in Runs, LoadAllPolicies(r) PROVE \E new : Quiet(r, new)
  <2>1. PICK ks : Become(r, [run[r] EXCEPT !.pc = "sent", !.limits = ks])
    BY <1>9 DEF LoadAllPolicies
  <2> DEFINE new == [run[r] EXCEPT !.pc = "sent", !.limits = ks]
  <2>2. new.pc = "sent" /\ new.outbox = {} /\ new.date = run[r].date
    BY <1>9, <1>a DEF LoadAllPolicies, RunType
  <2>3. /\ UnderWay(r) /\ run[r].pc = "policies" /\ (clean' => clean)
        /\ UNCHANGED <<day, records, sent, repeated, lost>>
    BY <1>9 DEF LoadAllPolicies, UnderWay, TableFails
  <2>4. Become(r, new)
    BY <2>1
  <2> HIDE DEF new
  <2>5. Quiet(r, new)
    BY <1>2, <2>2, <2>3, <2>4
  <2>6. QED
    BY <2>5
<1>10. QED
  BY <1>1, <1>5, <1>6, <1>7, <1>8, <1>9 DEF Next

(* An alert that is due, and its record.                                   *)
LEMMA DueRecord ==
    ASSUME NEW x \in RunType, NEW a \in Reached(x)
    PROVE  a \in Alerts /\ PeriodMonth(a) = MonthOf(x.date) /\ (IsDaily(a.kind) => a.period \in Days)
BY DEF Reached, Period, PeriodMonth, RunType

(* Without a second page, a run reads the keys of this month's records.    *)
KeysOf(m) == {x.key : x \in {y \in records : y.month = m}}

LEMMA SentRead ==
    ASSUME OnePage, NEW r \in Runs, GetSentAlerts(r)
    PROVE  \E ks \in SUBSET KeysOf(MonthOf(day)) :
              /\ ToRecord(r, [run[r] EXCEPT !.known = ks])
              /\ clean' => clean /\ ks = KeysOf(MonthOf(day))
<1> DEFINE now == {x \in records : x.month = MonthOf(day)}
<1>1. /\ {FirstPageKey(x) : x \in now} = KeysOf(MonthOf(day))
      /\ {SecondPageKey(x) : x \in now \ now} = {}
  BY DEF FirstPageKey, KeysOf
<1>2. PICK ks \in {{}, KeysOf(MonthOf(day)), KeysOf(MonthOf(day)) \cup {}} :
          /\ ToRecord(r, [run[r] EXCEPT !.known = ks])
          /\ \/ ~clean'
             \/ clean' = clean /\ ks = KeysOf(MonthOf(day)) \cup {}
  BY <1>1 DEF GetSentAlerts, OnePage, TableFails
<1>3. ks \in SUBSET KeysOf(MonthOf(day)) /\ (clean' => clean /\ ks = KeysOf(MonthOf(day)))
  BY <1>2
<1>4. QED
  BY <1>2, <1>3

(* What recording and publishing do to a run, in the terms used below.     *)
LEMMA AlertSteps ==
    ASSUME TypeOK, OnePage, NEW r \in Runs,
           \/ GetSentAlerts(r)
           \/ \E a \in Alerts : RecordSentAlert(r, a) \/ Publish(r, a)
    PROVE  /\ UNCHANGED day /\ (clean' => clean) /\ run[r].pc \in {"sent", "record", "publish"}
           /\ \A q \in Runs \ {r} : run'[q] = run[q]
           /\ run'[r] \in RunType /\ run'[r].date = run[r].date
           /\ run'[r].pc \in {"record", "publish"} /\ Reached(run'[r]) = Reached(run[r])
           /\ run'[r].pc = "publish" /\ run[r].pc # "publish" => Due(run'[r]) \subseteq run'[r].outbox
<1>1. run \in [Runs -> RunType] /\ run[r] \in RunType
  BY DEF TypeOK
<1>2. ASSUME NEW x \in RunType, ToRecord(r, x)
      PROVE  /\ \A q \in Runs \ {r} : run'[q] = run[q]
             /\ run'[r] \in RunType /\ run'[r].date = x.date /\ Reached(run'[r]) = Reached(x)
             /\ run'[r].pc \in {"record", "publish"}
             /\ run'[r].pc = "publish" => Due(run'[r]) \subseteq run'[r].outbox
             /\ run'[r].outbox = x.outbox /\ run'[r].known = x.known
  <2> DEFINE new == [x EXCEPT !.pc = IF Due(x) \subseteq x.outbox THEN "publish" ELSE "record"]
  <2>1. new \in RunType /\ new.date = x.date /\ new.outbox = x.outbox /\ new.known = x.known
        /\ new.limits = x.limits /\ new.seen = x.seen
        /\ new.pc = IF Due(x) \subseteq x.outbox THEN "publish" ELSE "record"
    BY DEF RunType
  <2>2. Become(r, new)
    BY <1>2 DEF ToRecord
  <2> HIDE DEF new
  <2>3. Reached(new) = Reached(x)
    BY <2>1 DEF Reached
  <2>4. Due(new) = Due(x)
    BY <2>1, <2>3 DEF Due
  <2>5. QED
    BY <1>1, <2>1, <2>2, <2>3, <2>4, BecomesTyped
<1>3. CASE GetSentAlerts(r)
  <2>1. PICK ks \in SUBSET KeysOf(MonthOf(day)) :
            ToRecord(r, [run[r] EXCEPT !.known = ks]) /\ (clean' => clean)
    BY <1>3, SentRead
  <2>2. ks \subseteq Keys
    BY <2>1 DEF TypeOK, Records, KeysOf
  <2> DEFINE x == [run[r] EXCEPT !.known = ks]
  <2>3. /\ x \in RunType /\ x.date = run[r].date
        /\ x.limits = run[r].limits /\ x.seen = run[r].seen
    BY <1>1, <2>2 DEF RunType
  <2>4. ToRecord(r, x)
    BY <2>1
  <2> HIDE DEF x
  <2>5. Reached(x) = Reached(run[r])
    BY <2>3 DEF Reached
  <2>6. UNCHANGED day /\ run[r].pc = "sent"
    BY <1>3 DEF GetSentAlerts
  <2>7. QED
    BY <1>2, <2>1, <2>3, <2>4, <2>5, <2>6
<1>4. CASE \E a \in Alerts : RecordSentAlert(r, a)
  <2>1. PICK a \in Alerts : RecordSentAlert(r, a)
    BY <1>4
  <2> DEFINE x == [run[r] EXCEPT !.outbox = @ \cup {a}]
  <2>2. /\ x \in RunType /\ x.date = run[r].date
        /\ x.limits = run[r].limits /\ x.seen = run[r].seen
    BY <1>1 DEF RunType
  <2>3. ToRecord(r, x) /\ UNCHANGED day /\ run[r].pc = "record" /\ (clean' => clean)
    BY <2>1 DEF RecordSentAlert, TableFails
  <2> HIDE DEF x
  <2>4. Reached(x) = Reached(run[r])
    BY <2>2 DEF Reached
  <2>5. QED
    BY <1>2, <2>2, <2>3, <2>4
<1>5. CASE \E a \in Alerts : Publish(r, a)
  <2>1. PICK a \in Alerts : Publish(r, a)
    BY <1>5
  <2> DEFINE x == [run[r] EXCEPT !.outbox = @ \ {a}]
  <2>2. /\ x \in RunType /\ x.date = run[r].date
        /\ x.limits = run[r].limits /\ x.seen = run[r].seen /\ x.pc = run[r].pc
    BY <1>1 DEF RunType
  <2>3. Become(r, x) /\ UNCHANGED day /\ run[r].pc = "publish" /\ (clean' => clean)
    BY <2>1 DEF Publish
  <2> HIDE DEF x
  <2>4. Reached(x) = Reached(run[r])
    BY <2>2 DEF Reached
  <2>5. QED
    BY <1>1, <2>2, <2>3, <2>4, BecomesTyped
<1>6. QED
  BY <1>3, <1>4, <1>5

LEMMA InItsMonthKept == OnePage /\ TypeOK /\ InItsMonth /\ [Next]_vars => InItsMonth'
<1> SUFFICES ASSUME OnePage, TypeOK, InItsMonth, [Next]_vars PROVE InItsMonth'
  OBVIOUS
<1>1. ASSUME NEW r \in Runs, NEW new, Quiet(r, new) PROVE InItsMonth'
  <2>1. run'[r] = new /\ (\A q \in Runs \ {r} : run'[q] = run[q]) /\ UNCHANGED day
    BY <1>1 DEF Quiet, Become, TypeOK
  <2>2. QED
    BY <1>1, <2>1 DEF Quiet, InItsMonth, Month
<1>2. ASSUME NEW r \in Runs,
             \/ GetSentAlerts(r)
             \/ \E a \in Alerts : RecordSentAlert(r, a) \/ Publish(r, a)
      PROVE  InItsMonth'
  BY <1>2, AlertSteps DEF InItsMonth, Month
<1>3. CASE NextDay
  BY <1>3 DEF NextDay, OnePage, InItsMonth, Month, UnderWay
<1>4. CASE UNCHANGED vars
  BY <1>4 DEF vars, InItsMonth, Month
<1>5. QED
  BY <1>1, <1>2, <1>3, <1>4, StepKinds

(* While runs do not overlap and the table answers: what was published or  *)
(* is about to be is on record, and a run that records knows what was      *)
(* published.                                                              *)
Once ==
    clean =>
        /\ OneRun /\ repeated = {}
        /\ \A a \in sent : RecordOf(a) \in records
        /\ \A r \in Runs : \A a \in run[r].outbox : a \notin sent /\ RecordOf(a) \in records
        /\ \A r \in Runs : run[r].pc = "record" =>
               \A a \in sent : PeriodMonth(a) = Month(r) => KeyOf(a, DateOf(a)) \in run[r].known

LEMMA OnceKept == OnePage /\ TypeOK /\ InItsMonth /\ Once /\ [Next]_vars => Once'
<1> SUFFICES ASSUME OnePage, TypeOK, InItsMonth, Once, [Next]_vars, clean' PROVE Once'
  BY DEF Once
<1>a. run \in [Runs -> RunType] /\ \A r \in Runs : run[r] \in RunType
  BY DEF TypeOK
<1>1. ASSUME NEW r \in Runs, NEW new, Quiet(r, new) PROVE Once'
  <2>1. /\ run'[r] = new /\ (\A q \in Runs \ {r} : run'[q] = run[q])
        /\ clean /\ UNCHANGED <<records, sent, repeated>>
    BY <1>a, <1>1 DEF Quiet, Become
  <2>2. OneRun'
    BY <1>1, <2>1 DEF Quiet, Once, OneRun, UnderWay
  <2>3. QED
    BY <1>1, <2>1, <2>2 DEF Quiet, Once, Month
<1>2. ASSUME NEW r \in Runs,
             \/ GetSentAlerts(r)
             \/ \E a \in Alerts : RecordSentAlert(r, a) \/ Publish(r, a)
      PROVE  /\ clean /\ OneRun' /\ UNCHANGED day /\ MonthOf(run[r].date) = MonthOf(day)
             /\ run'[r].date = run[r].date
             /\ \A q \in Runs \ {r} : run'[q] = run[q] /\ run[q].pc = "idle" /\ run[q].outbox = {}
  <2>1. UnderWay(r) /\ clean /\ \A q \in Runs \ {r} : run'[q] = run[q]
    BY <1>2, AlertSteps DEF UnderWay
  <2>2. \A q \in Runs \ {r} : run[q].pc = "idle"
    BY <2>1 DEF Once, OneRun, UnderWay
  <2>3. OneRun'
    BY <2>1, <2>2 DEF OneRun, UnderWay
  <2>4. QED
    BY <1>2, <2>1, <2>2, <2>3, AlertSteps DEF InItsMonth, Month
<1>3. ASSUME NEW r \in Runs, GetSentAlerts(r) PROVE Once'
  <2> DEFINE all == KeysOf(MonthOf(day))
             x == [run[r] EXCEPT !.known = all]
  <2>1. ToRecord(r, x)
    BY <1>3, SentRead
  <2>2. run'[r].known = all /\ run'[r].outbox = {}
    <3>1. run[r].outbox = {}
      BY <1>3 DEF InItsMonth, GetSentAlerts
    <3>2. x.known = all /\ x.outbox = {} /\ all \subseteq Keys
      BY <1>a, <3>1 DEF RunType, TypeOK, Records, KeysOf
    <3>3. x \in RunType
      BY <1>a, <3>2 DEF RunType
    <3> HIDE DEF all, x
    <3>4. QED
      BY <1>a, <2>1, <3>2, <3>3 DEF ToRecord, Become, RunType
  <2>3. UNCHANGED <<records, sent, repeated>>
    BY <1>3 DEF GetSentAlerts
  <2>4. ASSUME NEW a \in sent, PeriodMonth(a) = Month(r)' PROVE KeyOf(a, DateOf(a)) \in all
    <3>1. RecordOf(a) \in records /\ RecordOf(a).month = MonthOf(day)
      BY <1>2, <1>3, <2>4 DEF Once, Month, RecordOf
    <3>2. RecordOf(a).key = KeyOf(a, DateOf(a))
      BY DEF RecordOf
    <3>3. QED
      BY <3>1, <3>2 DEF KeysOf
  <2> HIDE DEF all, x
  <2>5. QED
    BY <1>2, <1>3, <2>2, <2>3, <2>4 DEF Once, Month
<1>4. ASSUME NEW r \in Runs, NEW a \in Alerts, RecordSentAlert(r, a) PROVE Once'
  <2> DEFINE x == [run[r] EXCEPT !.outbox = @ \cup {a}]
  <2>1. run'[r].known = run[r].known /\ run'[r].outbox = run[r].outbox \cup {a}
    <3>1. x \in RunType /\ x.known = run[r].known /\ x.outbox = run[r].outbox \cup {a}
      BY <1>a DEF RunType
    <3>2. ToRecord(r, x)
      BY <1>4 DEF RecordSentAlert
    <3> HIDE DEF x
    <3>3. QED
      BY <1>a, <3>1, <3>2 DEF ToRecord, Become, RunType
  <2>2. /\ UNCHANGED <<sent, repeated>> /\ records' = records \cup {Recorded(a)}
        /\ run[r].pc = "record" /\ a \in Due(run[r])
    BY <1>4 DEF RecordSentAlert, TableFails
  <2>3. /\ KeyOf(a, DateOf(a)) \notin run[r].known /\ PeriodMonth(a) = MonthOf(day)
    BY <1>a, <1>2, <1>4, <2>2, DueRecord DEF Due
  <2>4. Recorded(a) = RecordOf(a)
    BY <2>3 DEF Recorded, RecordOf
  <2>5. a \notin sent
    BY <1>2, <1>4, <2>2, <2>3 DEF Once, Month
  <2>6. QED
    BY <1>2, <1>4, <2>1, <2>2, <2>4, <2>5 DEF Once, Month
<1>5. ASSUME NEW r \in Runs, NEW a \in Alerts, Publish(r, a) PROVE Once'
  <2>1. /\ run'[r].outbox = run[r].outbox \ {a} /\ run'[r].pc = "publish"
    BY <1>a, <1>5 DEF Publish, Become, RunType
  <2>2. /\ UNCHANGED records /\ a \in run[r].outbox
        /\ \/ UNCHANGED <<sent, repeated>>
           \/ sent' = sent \cup {a} /\ repeated' = IF a \in sent THEN repeated \cup {a} ELSE repeated
    BY <1>5 DEF Publish
  <2>3. a \notin sent /\ RecordOf(a) \in records
    BY <1>2, <1>5, <2>2 DEF Once
  <2>4. QED
    BY <1>2, <1>5, <2>1, <2>2, <2>3 DEF Once, Month
<1>6. CASE NextDay \/ UNCHANGED vars
  BY <1>6 DEF NextDay, vars, Once, OneRun, UnderWay, Month
<1>7. QED
  BY <1>1, <1>3, <1>4, <1>5, <1>6, StepKinds

LEMMA InItsMonthInvariant ==
    ASSUME OnePage PROVE Spec => []InItsMonth
<1>1. Init => InItsMonth
  BY DEF Init, InItsMonth, Idle
<1>2. QED
  BY <1>1, InItsMonthKept, MonitorTypes, PTL DEF Spec

(* For any number of users, runs and days, wherever runs are cut off and   *)
(* retried: no alert is published twice, as long as runs do not overlap or *)
(* straddle the month, the table answers, and the records fit in a page.   *)
THEOREM AlertsAreSentOnce ==
    ASSUME OnePage PROVE Spec => []AlertedOnce
<1>1. Init => Once
  BY DEF Init, Once, OneRun, UnderWay, Idle
<1>2. Once => AlertedOnce
  BY DEF Once, AlertedOnce
<1>3. QED
  BY <1>1, <1>2, OnceKept, InItsMonthInvariant, MonitorTypes, PTL DEF Spec

(* The alerts that were published, will be, or were lost on the way; each  *)
(* record is of one of them, and a run that has seen a level reached gets  *)
(* to its end only when its alert is one of them.                          *)
Reported == sent \cup lost \cup UNION {run[q].outbox : q \in Runs}

Accounted ==
    /\ \A x \in records : \E a \in Reported \cap Alerts : x = RecordOf(a)
    /\ \A r \in Runs :
        /\ run[r].pc = "record" => Reached(run[r]) \ Due(run[r]) \subseteq Reported
        /\ run[r].pc = "publish" => Reached(run[r]) \subseteq Reported

(* A level found on record is accounted for.                               *)
LEMMA KnownReported ==
    ASSUME TypeOK, Accounted, NEW x \in RunType, MonthOf(x.date) = MonthOf(day),
           x.known \subseteq KeysOf(MonthOf(day)), NEW a \in Reached(x), a \notin Due(x)
    PROVE  a \in Reported
<1>1. a \in Alerts /\ PeriodMonth(a) = MonthOf(day) /\ (IsDaily(a.kind) => a.period \in Days)
  BY DueRecord
<1>2. PICK k \in x.known : k \in {KeyOf(a, DateOf(a)), KeyOf(a, 0)}
  BY DEF Due
<1>3. PICK y \in records : y.key = k /\ y.month = MonthOf(day)
  BY <1>2 DEF KeysOf
<1>4. PICK b \in Reported \cap Alerts : y = RecordOf(b)
  BY <1>3 DEF Accounted
<1>5. KeyOf(b, DateOf(b)) = k /\ PeriodMonth(b) = MonthOf(day)
  BY <1>3, <1>4 DEF RecordOf
<1>6. /\ b.user = a.user /\ b.kind = a.kind /\ b.level = a.level
      /\ DateOf(b) \in {DateOf(a), 0}
  BY <1>2, <1>5 DEF KeyOf
<1>7. b.period = a.period
  <2>1. CASE IsDaily(a.kind)
    <3>1. DateOf(b) = b.period /\ DateOf(a) = a.period
      BY <1>6, <2>1 DEF DateOf
    <3>2. b.period # 0
      BY <1>4, DayTypes DEF Alerts, Months
    <3>3. QED
      BY <1>6, <3>1, <3>2
  <2>2. CASE ~IsDaily(a.kind)
    BY <1>1, <1>5, <1>6, <2>2 DEF PeriodMonth
  <2>3. QED
    BY <2>1, <2>2
<1>8. b = a
  BY <1>1, <1>4, <1>6, <1>7 DEF Alerts
<1>9. QED
  BY <1>4, <1>8

LEMMA AccountedKept == OnePage /\ TypeOK /\ InItsMonth /\ Accounted /\ [Next]_vars => Accounted'
<1> SUFFICES ASSUME OnePage, TypeOK, InItsMonth, Accounted, [Next]_vars PROVE Accounted'
  OBVIOUS
<1>a. run \in [Runs -> RunType] /\ \A r \in Runs : run[r] \in RunType
  BY DEF TypeOK
<1>1. ASSUME NEW r \in Runs, NEW new, Quiet(r, new) PROVE Accounted'
  <2>1. /\ run'[r] = new /\ (\A q \in Runs \ {r} : run'[q] = run[q])
        /\ UNCHANGED <<records, sent>> /\ lost' = lost \cup run[r].outbox
        /\ new.pc \notin {"record", "publish"}
    BY <1>a, <1>1 DEF Quiet, Become
  <2>2. Reported \subseteq Reported'
    BY <2>1 DEF Reported
  <2>3. QED
    BY <2>1, <2>2 DEF Accounted, Reached, Due
<1>2. ASSUME NEW r \in Runs,
             \/ GetSentAlerts(r)
             \/ \E a \in Alerts : RecordSentAlert(r, a) \/ Publish(r, a),
             Reported \subseteq Reported',
             \A x \in records' \ records : \E a \in Reported' \cap Alerts : x = RecordOf(a),
             Reached(run[r]) \ Due(run'[r]) \subseteq Reported'
      PROVE  Accounted'
  <2>1. /\ \A q \in Runs \ {r} : run'[q] = run[q]
        /\ run'[r].pc \in {"record", "publish"} /\ Reached(run'[r]) = Reached(run[r])
    BY <1>2, AlertSteps
  <2>2. run'[r].pc = "publish" => Reached(run[r]) \subseteq Reported'
    <3>1. CASE run[r].pc = "publish"
      BY <1>2, <3>1 DEF Accounted
    <3>2. CASE run[r].pc # "publish"
      <4>1. run'[r].pc = "publish" => Due(run'[r]) \subseteq run'[r].outbox
        BY <1>2, <3>2, AlertSteps
      <4>2. run'[r].outbox \subseteq Reported'
        BY DEF Reported
      <4>3. QED
        BY <1>2, <4>1, <4>2
    <3>3. QED
      BY <3>1, <3>2
  <2>3. \A x \in records' : \E a \in Reported' \cap Alerts : x = RecordOf(a)
    BY <1>2 DEF Accounted
  <2>4. ASSUME NEW q \in Runs
        PROVE  /\ run'[q].pc = "record" => Reached(run'[q]) \ Due(run'[q]) \subseteq Reported'
               /\ run'[q].pc = "publish" => Reached(run'[q]) \subseteq Reported'
    <3>1. CASE q = r
      BY <1>2, <2>1, <2>2, <3>1
    <3>2. CASE q # r
      BY <1>2, <2>1, <3>2 DEF Accounted
    <3>3. QED
      BY <3>1, <3>2
  <2>5. QED
    BY <2>3, <2>4 DEF Accounted, Reached, Due
<1>3. ASSUME NEW r \in Runs, GetSentAlerts(r) PROVE Accounted'
  <2>1. PICK ks \in SUBSET KeysOf(MonthOf(day)) : ToRecord(r, [run[r] EXCEPT !.known = ks])
    BY <1>3, SentRead
  <2> DEFINE x == [run[r] EXCEPT !.known = ks]
  <2>2. ks \subseteq Keys
    BY <2>1 DEF TypeOK, Records, KeysOf
  <2>3. /\ x \in RunType /\ x.known = ks /\ x.date = run[r].date /\ x.outbox = run[r].outbox
        /\ x.limits = run[r].limits /\ x.seen = run[r].seen
    BY <1>a, <2>2 DEF RunType
  <2>4. ToRecord(r, x)
    BY <2>1
  <2>5. MonthOf(run[r].date) = MonthOf(day)
    BY <1>3 DEF InItsMonth, GetSentAlerts, Month
  <2> HIDE DEF x
  <2>6. Reached(x) = Reached(run[r])
    BY <2>3 DEF Reached
  <2>7. \A a \in Reached(x) : a \notin Due(x) => a \in Reported
    BY <2>1, <2>3, <2>5, KnownReported
  <2>8. Due(run'[r]) = Due(x) /\ run'[r].outbox = run[r].outbox
        /\ \A q \in Runs \ {r} : run'[q] = run[q]
    <3> DEFINE new == [x EXCEPT !.pc = IF Due(x) \subseteq x.outbox THEN "publish" ELSE "record"]
    <3>1. /\ new \in RunType /\ new.known = x.known /\ new.date = x.date /\ new.outbox = x.outbox
          /\ new.limits = x.limits /\ new.seen = x.seen
      BY <2>3 DEF RunType
    <3>2. Become(r, new)
      BY <2>4 DEF ToRecord
    <3> HIDE DEF new
    <3>3. Reached(new) = Reached(x)
      BY <3>1 DEF Reached
    <3>4. Due(new) = Due(x)
      BY <3>1, <3>3 DEF Due
    <3>5. QED
      BY <1>a, <2>3, <3>1, <3>2, <3>4, BecomesTyped
  <2>9. Reported' = Reported /\ UNCHANGED records
    BY <1>3, <2>8 DEF GetSentAlerts, Reported
  <2>10. QED
    BY <1>2, <1>3, <2>6, <2>7, <2>8, <2>9
<1>4. ASSUME NEW r \in Runs, NEW a \in Alerts, RecordSentAlert(r, a) PROVE Accounted'
  <2> DEFINE x == [run[r] EXCEPT !.outbox = @ \cup {a}]
             new == [x EXCEPT !.pc = IF Due(x) \subseteq x.outbox THEN "publish" ELSE "record"]
  <2>1. /\ run[r].pc = "record" /\ a \in Due(run[r]) /\ UNCHANGED <<day, sent, lost>>
        /\ records' \subseteq records \cup {Recorded(a)} /\ Become(r, new)
    BY <1>4 DEF RecordSentAlert, ToRecord
  <2>2. /\ new \in RunType /\ new.known = run[r].known /\ new.date = run[r].date
        /\ new.outbox = run[r].outbox \cup {a}
        /\ new.limits = run[r].limits /\ new.seen = run[r].seen
    <3>1. run[r] \in RunType /\ x \in RunType
      BY <1>a, OutboxTyped
    <3>2. /\ x.known = run[r].known /\ x.date = run[r].date /\ x.outbox = run[r].outbox \cup {a}
          /\ x.limits = run[r].limits /\ x.seen = run[r].seen
      BY <3>1 DEF RunType
    <3> HIDE DEF x
    <3>3. QED
      BY <3>1, <3>2 DEF RunType
  <2> HIDE DEF x, new
  <2>3. run'[r] = new /\ \A q \in Runs \ {r} : run'[q] = run[q]
    BY <1>a, <2>1, <2>2, BecomesTyped
  <2>4. Reached(new) = Reached(run[r])
    BY <2>2 DEF Reached
  <2>5. Due(run'[r]) = Due(run[r])
    BY <2>2, <2>3, <2>4 DEF Due
  <2>6. Reported \subseteq Reported' /\ a \in Reported'
    BY <2>1, <2>2, <2>3 DEF Reported
  <2>7. PeriodMonth(a) = MonthOf(day)
    BY <1>a, <2>1, DueTyped, DueRecord DEF InItsMonth, Month
  <2>8. Recorded(a) = RecordOf(a)
    BY <2>7 DEF Recorded, RecordOf
  <2>9. Reached(run[r]) \ Due(run[r]) \subseteq Reported
    BY <2>1 DEF Accounted
  <2>10. QED
    BY <1>2, <1>4, <2>1, <2>5, <2>6, <2>8, <2>9
<1>5. ASSUME NEW r \in Runs, NEW a \in Alerts, Publish(r, a) PROVE Accounted'
  <2> DEFINE new == [run[r] EXCEPT !.outbox = @ \ {a}]
  <2>1. /\ run[r].pc = "publish" /\ UNCHANGED records /\ Become(r, new)
        /\ sent \cup lost \cup {a} \subseteq sent' \cup lost'
    BY <1>5 DEF Publish
  <2>2. new \in RunType /\ new.outbox = run[r].outbox \ {a}
    BY <1>a DEF RunType
  <2> HIDE DEF new
  <2>3. run'[r] = new /\ \A q \in Runs \ {r} : run'[q] = run[q]
    BY <1>a, <2>1, <2>2, BecomesTyped
  <2>4. Reported \subseteq Reported'
    BY <2>1, <2>2, <2>3 DEF Reported
  <2>5. Reached(run[r]) \subseteq Reported
    BY <2>1 DEF Accounted
  <2>6. QED
    BY <1>2, <1>5, <2>1, <2>4, <2>5
<1>6. CASE NextDay \/ UNCHANGED vars
  BY <1>6 DEF NextDay, vars, Accounted, Reported, Reached, Due
<1>7. QED
  BY <1>1, <1>3, <1>4, <1>5, <1>6, StepKinds

(* A level that a run saw reached is reported, or was lost on the way, also *)
(* when runs overlap and calls fail: no record stands for an alert that     *)
(* nobody made.  It takes runs that stay in one month, and records that fit *)
(* in one page.                                                             *)
THEOREM NoAlertIsForgotten ==
    ASSUME OnePage PROVE Spec => []ReachedIsReported
<1>1. Init => Accounted
  BY DEF Init, Accounted, Idle
<1>2. Accounted => ReachedIsReported
  BY DEF Accounted, ReachedIsReported, Reported
<1>3. QED
  BY <1>1, <1>2, AccountedKept, InItsMonthInvariant, MonitorTypes, PTL DEF Spec
=============================================================================
