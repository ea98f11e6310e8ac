---------------------------- MODULE QuotaMonitor ----------------------------
(***************************************************************************)
(* The quota_monitor lambda (deployment/infrastructure/lambda-functions/   *)
(* quota_monitor/index.py).  EventBridge invokes it every 15 minutes, now  *)
(* and then twice, and Lambda runs it again when it was cut off by its     *)
(* timeout.  A run adds the usage of the last window to the DynamoDB item  *)
(* of each user, reads all the items back, and publishes an alert for each *)
(* threshold that was reached and not alerted yet; what was alerted is     *)
(* recorded in the same table.                                             *)
(***************************************************************************)
EXTENDS Naturals, FiniteSets

CONSTANTS
    Users,
    Runs,       \* invocations that may be under way at once
    Kinds,      \* the kinds of limits the policy sets
    Thresholds, \* Thresholds[k]: the usage above which a level of k is reached
    Deltas,     \* what a window's usage of one user may be
    LastDay,    \* bound: days of the calendar
    NewMonth,   \* the first day of the second month
    MaxTotal,   \* bound: tokens or cost of an item to which a run adds
    Faults      \* what may go wrong

AllKinds == {"monthly", "daily", "monthly_cost", "daily_cost"}
Levels == {"warning", "critical", "exceeded"}
UsageType == [tokens : Nat, cost : Nat]

(***************************************************************************)
(* "timeout": a run is cut off, and retried.                               *)
(* "overlap": a run starts while another is under way.                     *)
(* "straddle": the month ends while a run is under way.                    *)
(* "fetchFails", "tableFails", "publishFails": a call of that kind fails.  *)
(* "twoPages": the answers to scans and queries come in two pages.         *)
(***************************************************************************)
AllFaults == {"timeout", "overlap", "straddle", "fetchFails", "tableFails",
              "publishFails", "twoPages"}

ASSUME KindsAssumption == Kinds \subseteq AllKinds /\ Thresholds \in [Kinds -> [Levels -> Nat]]
ASSUME DeltasAssumption == Deltas \subseteq UsageType
ASSUME BoundsAssumption == {LastDay, NewMonth, MaxTotal} \subseteq Nat /\ LastDay > 0
ASSUME FaultsAssumption == Faults \subseteq AllFaults

VARIABLES
    day,       \* today, UTC
    item,      \* item[u][m]: the usage item of user u for month m
    records,   \* the recorded alerts
    run,       \* run[r]: where run r is, and what it has read
    \* What has happened.
    measured,  \* measured[u][d]: what runs of day d added for user u
    sent,      \* the alerts published
    repeated,  \* those published more than once
    lost,      \* those recorded by a run that did not publish them
    clean      \* no runs overlapped, and no access to the table failed

tables == <<item, records>>
history == <<measured, sent, repeated, lost, clean>>
vars == <<day, tables, run, history>>

Days == 1 .. LastDay
Months == {1, 2}
MonthOf(d) == IF d < NewMonth THEN 1 ELSE 2

IsDaily(k) == k \in {"daily", "daily_cost"}
Unit(k) == IF k \in {"monthly_cost", "daily_cost"} THEN "cost" ELSE "tokens"

Nothing == [tokens |-> 0, cost |-> 0]
Plus(x, y) == [tokens |-> x.tokens + y.tokens, cost |-> x.cost + y.cost]
NoItem == [total |-> Nothing, daily |-> Nothing, date |-> 0]

(* An alert is about a day or a month.  A record has the date of a daily   *)
(* alert, 0 for others, and the month in which it was made.                *)
Alerts == [user : Users, kind : Kinds, level : Levels, period : Days \cup Months]
Keys == [user : Users, kind : Kinds, level : Levels, date : {0} \cup Days]
Records == [key : Keys, month : Months]

(* What a run knows: its day and window, the day of its updates ("stamp"), *)
(* the users still to go and the one at hand, the usage it read ("seen"),  *)
(* the limits it loaded, the alerts it takes for sent ("known"), and those *)
(* it has not published yet.                                               *)
RunType ==
    [pc : {"idle", "retry", "fetch", "get", "update", "scan", "policies", "sent",
           "record", "publish"},
     date : Days, window : [Users -> UsageType], stamp : Days,
     todo : SUBSET Users, user : SUBSET Users, reset : BOOLEAN,
     seen : [Users -> {<<>>} \cup [total : UsageType, daily : UsageType]],
     limits : SUBSET Kinds, known : SUBSET Keys, outbox : SUBSET Alerts]

TypeOK ==
    /\ day \in Days
    /\ item \in [Users -> [Months -> [total : UsageType, daily : UsageType, date : {0} \cup Days]]]
    /\ records \subseteq Records
    /\ run \in [Runs -> RunType]
    /\ measured \in [Users -> [Days -> UsageType]]
    /\ sent \subseteq Alerts /\ repeated \subseteq sent /\ lost \subseteq Alerts
    /\ clean \in BOOLEAN

Unread == [u \in Users |-> <<>>]
Idle ==
    [pc |-> "idle", date |-> 1, window |-> [u \in Users |-> Nothing], stamp |-> 1,
     todo |-> {}, user |-> {}, reset |-> FALSE, seen |-> Unread,
     limits |-> {}, known |-> {}, outbox |-> {}]

Init ==
    /\ day = 1
    /\ item = [u \in Users |-> [m \in Months |-> NoItem]]
    /\ records = {}
    /\ run = [r \in Runs |-> Idle]
    /\ measured = [u \in Users |-> [d \in Days |-> Nothing]]
    /\ sent = {} /\ repeated = {} /\ lost = {} /\ clean = TRUE

UnderWay(r) == run[r].pc # "idle"
Month(r) == MonthOf(run[r].date)
Become(r, new) == run' = [run EXCEPT ![r] = new]
TableFails == "tableFails" \in Faults /\ clean' = FALSE

-----------------------------------------------------------------------------
(* Adding the usage of the window.                                         *)

Begin(r, w) == Become(r, [Idle EXCEPT !.pc = "fetch", !.date = day, !.window = w])

(* The bound: no usage is added to an item that has enough of it.          *)
Fits(w) ==
    \A u \in Users : w[u] # Nothing =>
        LET t == Plus(item[u][MonthOf(day)].total, w[u])
        IN  t.tokens <= MaxTotal /\ t.cost <= MaxTotal

Invoke(r) ==
    /\ ~UnderWay(r)
    /\ \E w \in [Users -> Deltas] : Fits(w) /\ Begin(r, w)
    /\ "overlap" \in Faults \/ \A q \in Runs : ~UnderWay(q)
    /\ clean' = (clean /\ \A q \in Runs : ~UnderWay(q))
    /\ UNCHANGED <<day, tables, measured, sent, repeated, lost>>

(* The users in us are still to be updated; after the last, all are read.  *)
ToUpdate(r, us, d) ==
    Become(r, [run[r] EXCEPT !.user = {}, !.reset = FALSE,
                   !.pc = IF us = {} THEN "scan" ELSE "get",
                   !.stamp = IF us = {} THEN 1 ELSE d,
                   !.todo = IF us = {} THEN Users ELSE us])

(* A failed query is answered with 500, which is no reason for a retry.    *)
(* Users without tokens in the window are skipped.  update_quota_metrics   *)
(* looks at the clock anew.                                                *)
Fetch(r) ==
    /\ run[r].pc = "fetch"
    /\ \/ ToUpdate(r, {u \in Users : run[r].window[u].tokens > 0}, day)
       \/ "fetchFails" \in Faults /\ Become(r, Idle)
    /\ UNCHANGED <<day, tables, history>>

GetItem(r, u) ==
    /\ run[r].pc = "get" /\ u \in run[r].todo
    /\ \/ Become(r, [run[r] EXCEPT
              !.pc = "update", !.todo = @ \ {u}, !.user = {u},
              !.reset = item[u][MonthOf(run[r].stamp)].date # run[r].stamp])
          /\ UNCHANGED clean
       \/ TableFails /\ ToUpdate(r, run[r].todo \ {u}, run[r].stamp)
    /\ UNCHANGED <<day, tables, measured, sent, repeated, lost>>

(* One update_item: ADD is atomic, the choice between ADD and SET is not.  *)
Added(i, w, d, reset) ==
    [total |-> Plus(i.total, w),
     daily |-> IF reset THEN w ELSE Plus(i.daily, w),
     date |-> IF reset THEN d ELSE i.date]

UpdateItem(r, u) ==
    /\ run[r].pc = "update" /\ u \in run[r].user
    /\ \/ /\ item' = [item EXCEPT ![u][MonthOf(run[r].stamp)] =
                         Added(@, run[r].window[u], run[r].stamp, run[r].reset)]
          /\ measured' = [measured EXCEPT ![u][run[r].stamp] = Plus(@, run[r].window[u])]
          /\ UNCHANGED clean
       \/ TableFails /\ UNCHANGED <<item, measured>>
    /\ ToUpdate(r, run[r].todo, run[r].stamp)
    /\ UNCHANGED <<day, records, sent, repeated, lost>>

-----------------------------------------------------------------------------
(* What is due.                                                            *)

Used(e, k) == IF IsDaily(k) THEN e.daily[Unit(k)] ELSE e.total[Unit(k)]

(* The highest level that usage x is above.                                *)
LevelsAt(k, x) ==
    IF x > Thresholds[k]["exceeded"] THEN {"exceeded"}
    ELSE IF x > Thresholds[k]["critical"] THEN {"critical"}
    ELSE IF x > Thresholds[k]["warning"] THEN {"warning"} ELSE {}

Period(k, d) == IF IsDaily(k) THEN d ELSE MonthOf(d)

Reached(x) ==
    {a \in Alerts :
        /\ a.kind \in x.limits /\ x.seen[a.user] # <<>>
        /\ a.level \in LevelsAt(a.kind, Used(x.seen[a.user], a.kind))
        /\ a.period = Period(a.kind, x.date)}

KeyOf(a, d) == [user |-> a.user, kind |-> a.kind, level |-> a.level, date |-> d]
DateOf(a) == IF IsDaily(a.kind) THEN a.period ELSE 0

(* check_limits_and_generate_alerts looks for the key with the date, the   *)
(* handler once more for the key without one.                              *)
Due(x) == {a \in Reached(x) : {KeyOf(a, DateOf(a)), KeyOf(a, 0)} \cap x.known = {}}

(* Once everything due is recorded, it is published.                       *)
ToRecord(r, x) ==
    Become(r, [x EXCEPT !.pc = IF Due(x) \subseteq x.outbox THEN "publish" ELSE "record"])

-----------------------------------------------------------------------------
(* Reading everything back.                                                *)

(* Mutant: the item is passed on as it is.                                 *)
RawItem(i, d) == i

(* Mutant: the guard against the counters of an earlier day is missing.    *)
StaleUsageEntry(i, d) == [total |-> i.total, daily |-> i.daily]

(* Counters of another day count as zero.                                  *)
BuildUsageEntry(i, d) ==
    [total |-> i.total, daily |-> IF i.date = d THEN i.daily ELSE Nothing]

(* The scan comes in pages, so the items are not read at once.  If a page  *)
(* fails, or no item is found, the run is over.                            *)
ScanItem(r, u) ==
    /\ run[r].pc = "scan" /\ u \in run[r].todo
    /\ LET i == item[u][Month(r)]
           e == IF i = NoItem THEN <<>> ELSE BuildUsageEntry(i, run[r].date)
           us == run[r].todo \ {u}
           es == [run[r].seen EXCEPT ![u] = e]
       IN  \/ /\ Become(r, IF us = {} /\ es = Unread THEN Idle
                           ELSE [run[r] EXCEPT !.todo = us, !.seen = es,
                                     !.pc = IF us = {} THEN "policies" ELSE "scan"])
              /\ UNCHANGED clean
           \/ TableFails /\ Become(r, Idle)
    /\ UNCHANGED <<day, tables, measured, sent, repeated, lost>>

(* A policy from the second page has no cost limits; after an error there  *)
(* are no policies, and no policy means no alerts.                         *)
LoadAllPolicies(r) ==
    /\ run[r].pc = "policies"
    /\ \E ks \in {Kinds, {k \in Kinds : Unit(k) = "tokens"}, {}} :
        /\ Become(r, [run[r] EXCEPT !.pc = "sent", !.limits = ks])
        /\ \/ ks = Kinds /\ UNCHANGED clean
           \/ ks # Kinds /\ "twoPages" \in Faults /\ ks # {} /\ UNCHANGED clean
           \/ ks = {} /\ TableFails
    /\ UNCHANGED <<day, tables, measured, sent, repeated, lost>>

(* How a record is read back: on the second page only "daily" keeps its    *)
(* date.                                                                   *)
FirstPageKey(x) == x.key
SecondPageKey(x) == IF x.key.kind = "daily" THEN x.key ELSE [x.key EXCEPT !.date = 0]

(* A page ends anywhere in the order of the sort keys, in which the users  *)
(* come first and then the kinds.                                          *)
SortRank == [daily |-> 1, daily_cost |-> 2, monthly |-> 3, monthly_cost |-> 4]
FirstPages(rs) ==
    {f \in SUBSET rs : \A x \in f, y \in rs :
        y.key.user = x.key.user /\ SortRank[y.key.kind] < SortRank[x.key.kind] => y \in f}

(* The month is that of the query, not that of the start of the run.  An   *)
(* error leaves what was read before it.                                   *)
GetSentAlerts(r) ==
    /\ run[r].pc = "sent"
    /\ LET now == {x \in records : x.month = MonthOf(day)}
       IN  \E first \in IF "twoPages" \in Faults THEN FirstPages(now) ELSE {now} :
             LET one == {FirstPageKey(x) : x \in first}
                 two == {SecondPageKey(x) : x \in now \ first}
             IN  \/ ToRecord(r, [run[r] EXCEPT !.known = one \cup two])
                    /\ UNCHANGED clean
                 \/ TableFails /\ \E ks \in {{}, one} :
                        ToRecord(r, [run[r] EXCEPT !.known = ks])
    /\ UNCHANGED <<day, tables, measured, sent, repeated, lost>>

-----------------------------------------------------------------------------
(* Recording and publishing.                                               *)

(* Mutant: the record has the day on which it is made.                     *)
RecordedToday(a) ==
    [key |-> KeyOf(a, IF IsDaily(a.kind) THEN day ELSE 0), month |-> MonthOf(day)]

Recorded(a) == [key |-> KeyOf(a, DateOf(a)), month |-> MonthOf(day)]

(* Mutant: the alert is put in the outbox, and not recorded.               *)
RecordNothing(r, a) ==
    /\ run[r].pc = "record" /\ a \in Due(run[r]) \ run[r].outbox
    /\ ToRecord(r, [run[r] EXCEPT !.outbox = @ \cup {a}])
    /\ UNCHANGED <<day, item, records, measured, sent, repeated, lost, clean>>

RecordSentAlert(r, a) ==
    /\ run[r].pc = "record" /\ a \in Due(run[r]) \ run[r].outbox
    /\ ToRecord(r, [run[r] EXCEPT !.outbox = @ \cup {a}])
    /\ \/ records' = records \cup {Recorded(a)} /\ UNCHANGED clean
       \/ TableFails /\ UNCHANGED records
    /\ UNCHANGED <<day, item, measured, sent, repeated, lost>>

Publish(r, a) ==
    /\ run[r].pc = "publish" /\ a \in run[r].outbox
    /\ Become(r, [run[r] EXCEPT !.outbox = @ \ {a}])
    /\ \/ /\ sent' = sent \cup {a}
          /\ repeated' = IF a \in sent THEN repeated \cup {a} ELSE repeated
          /\ UNCHANGED lost
       \/ /\ "publishFails" \in Faults
          /\ lost' = lost \cup {a}
          /\ UNCHANGED <<sent, repeated>>
    /\ UNCHANGED <<day, tables, measured, clean>>

Return(r) ==
    /\ run[r].pc = "publish" /\ run[r].outbox = {}
    /\ Become(r, Idle)
    /\ UNCHANGED <<day, tables, history>>

-----------------------------------------------------------------------------
(* Lambda and the calendar.                                                *)

Timeout(r) ==
    /\ "timeout" \in Faults /\ run[r].pc \notin {"idle", "retry"}
    /\ lost' = lost \cup run[r].outbox
    /\ \/ Become(r, [Idle EXCEPT !.pc = "retry", !.window = run[r].window])
       \/ Become(r, Idle)
    /\ UNCHANGED <<day, tables, measured, sent, repeated, clean>>

(* Lambda tries an asynchronous invocation twice more, a minute and two    *)
(* minutes later; the window is all but the same.                          *)
Retry(r) ==
    /\ run[r].pc = "retry"
    /\ IF Fits(run[r].window) THEN Begin(r, run[r].window) ELSE Become(r, Idle)
    /\ UNCHANGED <<day, tables, history>>

NextDay ==
    /\ day < LastDay
    /\ day' = day + 1
    /\ \/ MonthOf(day + 1) = MonthOf(day)
       \/ "straddle" \in Faults
       \/ \A r \in Runs : ~UnderWay(r)
    /\ UNCHANGED <<tables, run, history>>

Next ==
    \/ \E r \in Runs :
        \/ Invoke(r) \/ Fetch(r) \/ LoadAllPolicies(r)
        \/ GetSentAlerts(r) \/ Return(r) \/ Timeout(r) \/ Retry(r)
    \/ \E r \in Runs, u \in Users : GetItem(r, u) \/ UpdateItem(r, u) \/ ScanItem(r, u)
    \/ \E r \in Runs, a \in Alerts : RecordSentAlert(r, a) \/ Publish(r, a)
    \/ NextDay

Spec == Init /\ [][Next]_vars

-----------------------------------------------------------------------------
(* Properties.                                                             *)

(* "One alert per threshold per limit type per user per period", also when *)
(* runs are cut off anywhere and retried, and when midnight passes under   *)
(* them: as long as runs do not overlap and the table answers.             *)
AlertedOnce == clean => repeated = {}

(* A run that gets to its end has left no level that it saw unreported:    *)
(* the alert was published, is about to be, or was lost by a run that was  *)
(* cut off or could not publish it.                                        *)
ReachedIsReported ==
    \A r \in Runs : run[r].pc = "publish" =>
        Reached(run[r]) \subseteq sent \cup lost \cup UNION {run[q].outbox : q \in Runs}

(* "Daily alerts can be sent each day (they include the date in the        *)
(* deduplication key)" (QUOTA_MONITORING.md:266), also when the records    *)
(* fill two pages.                                                         *)
DailyAlertsEachDay ==
    \A r \in Runs : run[r].pc = "publish" =>
        {a \in Reached(run[r]) : IsDaily(a.kind)}
            \subseteq sent \cup lost \cup UNION {run[q].outbox : q \in Runs}

(* A daily alert is about the usage that the runs of that day measured,    *)
(* not about counters that an idle user's item still has from another day. *)
(* (Runs that overlap over midnight can add to the counters of a day that  *)
(* is not theirs.)                                                         *)
DailyAlertsOfToday ==
    clean => \A r \in Runs : \A a \in run[r].outbox :
        IsDaily(a.kind) =>
            measured[a.user][a.period][Unit(a.kind)] > Thresholds[a.kind]["warning"]
=============================================================================
