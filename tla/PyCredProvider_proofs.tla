------------------------ MODULE PyCredProvider_proofs ------------------------
(***************************************************************************)
(* Theorems about PyCredProvider, for any number of invocations, any       *)
(* configuration and any faults: types, the two ports, and the refinement  *)
(* of CredentialGate.  All three rest on Flow, which says where an         *)
(* invocation can be in which part of the program, and what the quota      *)
(* check has said of it there.                                             *)
(***************************************************************************)
EXTENDS PyCredProvider, TLAPS

USE DEF files, ports, control

ControlTyped ==
    /\ pc \in [Procs -> Labels] /\ path \in [Procs -> Paths]
    /\ verdict \in [Procs -> Verdicts]
    /\ outcome \in [Procs -> {"none", "creds", "ok", "fail"}]

(* The part of a run before it has an id_token, and the login.             *)
Waiting == {"bind", "waiting", "probed", "woken"}
Login == {"listen", "browser", "redeem"}
Checked == {"stamp", "openPage", "page", "clearSts"}
Minting == {"exchange", "save", "clearCreds", "clearToken"}

Flow(p) ==
    /\ pc[p] = "idle" <=> path[p] = "none"
    /\ pc[p] = "idle" => verdict[p] = "none"
    /\ outcome[p] # "none" => pc[p] \in {"idle", "release"}
    /\ path[p] = "recheck" => QuotaConfigured
    /\ pc[p] \in {"needRefresh", "readCache", "hit", "cacheAgain", "silentToken"} => path[p] = "run"
    /\ pc[p] = "readToken" => path[p] = "monitor"
    /\ pc[p] \in Waiting => path[p] \in {"run", "monitor"}
    /\ pc[p] \in Login => path[p] \in {"run", "monitor", "silent"}
    /\ pc[p] = "check" => path[p] \in {"recheck", "silent", "login"} /\ verdict[p] = "none"
    /\ pc[p] \in Checked => path[p] \in {"recheck", "silent", "login"} /\ verdict[p] # "none"
    /\ pc[p] \in {"openPage", "page"} => verdict[p] # "allow"
    /\ pc[p] \in {"stamp", "openPage", "page"} => QuotaConfigured
    /\ pc[p] = "clearSts" => verdict[p] = "block"
    /\ pc[p] \in {"exchange", "save"} => path[p] \in {"silent", "login"} /\ verdict[p] \in {"allow", "warn"}
    /\ pc[p] \in {"clearCreds", "clearToken"} =>
          \/ path[p] = "clear" /\ verdict[p] = "none"
          \/ path[p] \in {"silent", "login"} /\ verdict[p] \in {"allow", "warn"}
    /\ pc[p] = "saveToken" =>
          \/ path[p] = "monitor" /\ verdict[p] = "none"
          \/ path[p] \in {"silent", "login"} /\ verdict[p] \in {"allow", "warn"}
    /\ path[p] \in {"run", "monitor", "clear"} => verdict[p] = "none"
    /\ verdict[p] = "block" => pc[p] \in Checked \cup {"release"}
    /\ pc[p] = "release" /\ outcome[p] = "none" /\ verdict[p] # "block" =>
          path[p] \in {"login", "monitor"} /\ verdict[p] = "none"

ControlFlow == \A p \in Procs : Flow(p)

Outcomes == {"none", "creds", "ok", "fail"}

(* Only p moves, and to a place where Flow lets it be.                     *)
Frame(p) ==
    /\ pc' = [pc EXCEPT ![p] = pc'[p]]
    /\ path' = [path EXCEPT ![p] = path'[p]]
    /\ verdict' = [verdict EXCEPT ![p] = verdict'[p]]
    /\ outcome' = [outcome EXCEPT ![p] = outcome'[p]]

Moved(p) ==
    /\ Frame(p)
    /\ pc'[p] \in Labels /\ path'[p] \in Paths /\ verdict'[p] \in Verdicts
    /\ outcome'[p] \in Outcomes
    /\ Flow(p)'

LEMMA MovedKeeps ==
    ASSUME ControlTyped, ControlFlow, NEW p \in Procs, Moved(p)
    PROVE  ControlTyped' /\ ControlFlow'
<1>1. ControlTyped'
  BY DEF ControlTyped, Moved, Frame, Outcomes
<1>2. ASSUME NEW q \in Procs, q # p PROVE Flow(q)'
  <2>1. /\ pc'[q] = pc[q] /\ path'[q] = path[q]
        /\ verdict'[q] = verdict[q] /\ outcome'[q] = outcome[q]
    BY <1>2 DEF ControlTyped, Moved, Frame
  <2>2. Flow(q)
    BY DEF ControlFlow
  <2>3. QED
    BY <2>1, <2>2 DEF Flow
<1>3. QED
  BY <1>1, <1>2 DEF Moved, ControlFlow

-----------------------------------------------------------------------------
(* What the ways to go on say of the one process that goes on.             *)

LEMMA Goes ==
    ASSUME ControlTyped, NEW p \in Procs, NEW l, Goto(p, l)
    PROVE  /\ Frame(p) /\ pc'[p] = l /\ path'[p] = path[p]
           /\ verdict'[p] = verdict[p] /\ outcome'[p] = outcome[p]
BY DEF ControlTyped, Goto, At, Frame

LEMMA Enters ==
    ASSUME ControlTyped, NEW p \in Procs, NEW f, NEW l, Enter(p, f, l)
    PROVE  /\ Frame(p) /\ pc'[p] = l /\ path'[p] = f
           /\ verdict'[p] = verdict[p] /\ outcome'[p] = outcome[p]
BY DEF ControlTyped, Enter, At, Frame

LEMMA Obtains ==
    ASSUME ControlTyped, NEW p \in Procs, NEW f, NEW l, Obtain(p, f, l)
    PROVE  /\ Frame(p) /\ pc'[p] = l /\ path'[p] = f
           /\ verdict'[p] = "none" /\ outcome'[p] = outcome[p]
BY DEF ControlTyped, Obtain, At, Frame

LEMMA Returns ==
    ASSUME ControlTyped, NEW p \in Procs, NEW r, Return(p, r)
    PROVE  /\ Frame(p) /\ outcome'[p] = r /\ outcome' = [outcome EXCEPT ![p] = r]
           /\ p \in bound => pc'[p] = "release" /\ path'[p] = path[p] /\ verdict'[p] = verdict[p]
           /\ p \notin bound => pc'[p] = "idle" /\ path'[p] = "none" /\ verdict'[p] = "none"
BY DEF ControlTyped, Return, Forget, At, Frame

LEMMA ReturnMoves ==
    ASSUME ControlTyped, NEW p \in Procs, Flow(p), pc[p] # "idle",
           NEW r \in {"creds", "ok", "fail"}, Return(p, r)
    PROVE  Moved(p)
<1>1. path[p] \in Paths /\ verdict[p] \in Verdicts
  BY DEF ControlTyped
<1>2. CASE p \in bound
  BY <1>1, <1>2, Returns DEF Moved, Outcomes, Flow, Labels, Paths, Verdicts,
     Waiting, Login, Checked, Minting
<1>3. CASE p \notin bound
  BY <1>3, Returns DEF Moved, Outcomes, Flow, Labels, Paths, Verdicts,
     Waiting, Login, Checked, Minting
<1>4. QED
  BY <1>2, <1>3

LEMMA ContinueMoves ==
    ASSUME ControlTyped, NEW p \in Procs, Flow(p),
           pc[p] \in {"stamp", "openPage", "page"}, Continue(p)
    PROVE  Moved(p)
<1>1. path[p] \in Paths /\ verdict[p] \in Verdicts /\ outcome[p] = "none"
  BY DEF ControlTyped, Flow
<1>2. CASE verdict[p] = "block" /\ Goto(p, "clearSts")
  BY <1>1, <1>2, Goes DEF Moved, Outcomes, Flow, Labels, Waiting, Login, Checked, Minting
<1>3. CASE Return(p, "creds")
  BY <1>3, ReturnMoves
<1>4. CASE verdict[p] # "block" /\ path[p] \in {"silent", "login"} /\ Goto(p, "exchange")
  <2>1. verdict[p] \in {"allow", "warn"}
    BY <1>1, <1>4 DEF Flow, Checked, Verdicts
  <2>2. QED
    BY <1>1, <1>4, <2>1, Goes DEF Moved, Outcomes, Flow, Labels, Waiting, Login, Checked, Minting
<1>5. QED
  BY <1>2, <1>3, <1>4 DEF Continue

LEMMA NoCredentialsMoves ==
    ASSUME ControlTyped, NEW p \in Procs, Flow(p),
           pc[p] \in {"exchange", "save", "clearToken"}, NoCredentials(p)
    PROVE  Moved(p)
<1>1. path[p] \in Paths /\ verdict[p] \in Verdicts /\ outcome[p] = "none"
  BY DEF ControlTyped, Flow
<1>2. CASE path[p] = "silent" /\ Goto(p, "listen")
  BY <1>1, <1>2, Goes DEF Moved, Outcomes, Flow, Labels, Waiting, Login, Checked, Minting
<1>3. CASE Return(p, "fail")
  BY <1>3, ReturnMoves
<1>4. QED
  BY <1>2, <1>3 DEF NoCredentials

-----------------------------------------------------------------------------
(* Every step of an invocation moves it within Flow.                       *)

LEMMA CheckMoves ==
    ASSUME ControlTyped, NEW p \in Procs, Flow(p), CheckQuota(p) PROVE Moved(p)
<1>1. PICK v \in {"allow", "warn", "block"} :
        /\ ~QuotaConfigured => v = "allow"
        /\ verdict' = [verdict EXCEPT ![p] = v]
  BY DEF CheckQuota
<1>2. /\ Frame(p) /\ pc'[p] = IF QuotaConfigured THEN "stamp" ELSE "exchange"
      /\ path'[p] = path[p] /\ verdict'[p] = v /\ outcome'[p] = outcome[p]
  BY <1>1 DEF ControlTyped, CheckQuota, At, Frame
<1>3. /\ pc[p] = "check" /\ outcome[p] = "none"
      /\ path[p] \in Paths /\ path[p] \in {"recheck", "silent", "login"}
      /\ path[p] = "recheck" => QuotaConfigured
  BY DEF CheckQuota, ControlTyped, Flow
<1>4. QED
  BY <1>1, <1>2, <1>3 DEF Moved, Outcomes, Flow, Labels, Verdicts, Waiting, Login, Checked, Minting

LEMMA ReleaseMoves ==
    ASSUME ControlTyped, NEW p \in Procs, Flow(p), Release(p) PROVE Moved(p)
<1>1. /\ pc[p] = "release" /\ path[p] \in Paths /\ outcome[p] \in Outcomes
  BY DEF Release, ControlTyped, Outcomes
<1>2. CASE Forget(p)
  BY <1>1, <1>2 DEF Release, Forget, At, Goto, ControlTyped, Frame, Moved, Outcomes, Flow,
     Labels, Paths, Verdicts, Waiting, Login, Checked, Minting
<1>3. CASE /\ outcome[p] = "none" /\ verdict[p] # "block"
           /\ Goto(p, IF path[p] = "monitor" THEN "saveToken" ELSE "check")
  BY <1>1, <1>3, Goes DEF Moved, Outcomes, Flow, Labels, Verdicts, Waiting, Login, Checked, Minting
<1>4. QED
  BY <1>2, <1>3 DEF Release

LEMMA StepMoves ==
    ASSUME ControlTyped, NEW p \in Procs, Flow(p), Step(p) \/ Browser(p) PROVE Moved(p)
<1> USE DEF Moved, Outcomes, Flow, Labels, Waiting, Login, Checked, Minting
<1>a. path[p] \in Paths /\ verdict[p] \in Verdicts /\ outcome[p] \in Outcomes
  BY DEF ControlTyped
<1>1. CASE NeedRefresh(p)
  BY <1>1, <1>a, ReturnMoves, Goes DEF NeedRefresh
<1>2. CASE ReadCache(p)
  BY <1>2, <1>a, Goes DEF ReadCache
<1>3. CASE CacheHit(p)
  BY <1>3, <1>a, ReturnMoves, Enters DEF CacheHit, Paths, Verdicts
<1>4. CASE ReadToken(p)
  BY <1>4, <1>a, ReturnMoves, Goes DEF ReadToken
<1>5. CASE CheckQuota(p)
  BY <1>5, CheckMoves
<1>6. CASE SaveQuotaCheckTimestamp(p)
  BY <1>6, <1>a, ContinueMoves, Goes DEF SaveQuotaCheckTimestamp
<1>7. CASE ShowPage(p)
  BY <1>7, <1>a, ContinueMoves, Goes DEF ShowPage
<1>8. CASE ClearStsCredentials(p)
  BY <1>8, <1>a, Goes DEF ClearStsCredentials
<1>9. CASE Bind(p)
  BY <1>9, <1>a, Goes DEF Bind
<1>10. CASE Probe(p)
  BY <1>10, <1>a, Goes DEF Probe
<1>11. CASE ProbeDone(p)
  BY <1>11, <1>a, Goes DEF ProbeDone
<1>12. CASE WaitTimeout(p)
  BY <1>12, <1>a, ReturnMoves, Goes DEF WaitTimeout
<1>13. CASE Woken(p)
  BY <1>13, <1>a, ReturnMoves DEF Woken
<1>14. CASE CacheAgain(p)
  BY <1>14, <1>a, ReturnMoves, Goes DEF CacheAgain
<1>15. CASE Release(p)
  BY <1>15, ReleaseMoves
<1>16. CASE SilentToken(p)
  BY <1>16, <1>a, Obtains, Goes DEF SilentToken, Paths, Verdicts
<1>17. CASE Listen(p)
  BY <1>17, <1>a, ReturnMoves, Goes DEF Listen
<1>18. CASE LoginFails(p)
  BY <1>18, <1>a, ReturnMoves DEF LoginFails
<1>19. CASE Redeem(p)
  BY <1>19, <1>a, Obtains DEF Redeem, Paths, Verdicts
<1>20. CASE Exchange(p)
  BY <1>20, <1>a, NoCredentialsMoves, Goes DEF Exchange
<1>21. CASE ClearCredentials(p)
  BY <1>21, <1>a, Goes DEF ClearCredentials
<1>22. CASE ClearToken(p)
  BY <1>22, <1>a, ReturnMoves, NoCredentialsMoves DEF ClearToken
<1>23. CASE SaveCredentials(p)
  BY <1>23, <1>a, NoCredentialsMoves, Goes DEF SaveCredentials
<1>24. CASE SaveMonitoringToken(p)
  BY <1>24, <1>a, ReturnMoves DEF SaveMonitoringToken
<1>25. CASE Callback(p)
  BY <1>25, <1>a, Goes DEF Callback
<1>26. CASE PageServed(p)
  BY <1>26, <1>a, ContinueMoves DEF PageServed
<1>27. QED
  BY <1>1, <1>2, <1>3, <1>4, <1>5, <1>6, <1>7, <1>8, <1>9, <1>10, <1>11, <1>12, <1>13, <1>14, <1>15, <1>16, <1>17, <1>18, <1>19, <1>20, <1>21, <1>22, <1>23, <1>24, <1>25, <1>26 DEF Step, Browser

LEMMA StartMoves ==
    ASSUME ControlTyped, NEW p \in Procs, Flow(p), Start(p)
    PROVE  /\ Moved(p) /\ path'[p] \in {"run", "monitor", "clear"}
           /\ pc'[p] \in {"readCache", "needRefresh", "readToken", "clearCreds"}
<1>1. PICK c \in Commands :
        At(p, Entry(c)[2]) /\ path' = [path EXCEPT ![p] = Entry(c)[1]]
  BY DEF Start
<1>2. c \in AllCommands
  BY PyCommandsAssumption
<1>3. Entry(c) \in {<<"run", "readCache">>, <<"run", "needRefresh">>,
                    <<"monitor", "readToken">>, <<"clear", "clearCreds">>}
  BY <1>2 DEF AllCommands, Entry
<1>4. /\ Frame(p) /\ pc'[p] = Entry(c)[2] /\ path'[p] = Entry(c)[1]
      /\ verdict'[p] = verdict[p] /\ outcome'[p] = "none"
  BY <1>1 DEF Start, At, ControlTyped, Frame
<1>5. verdict[p] = "none"
  BY DEF Start, Flow
<1>6. QED
  BY <1>3, <1>4, <1>5 DEF Moved, Outcomes, Flow, Labels, Paths, Verdicts,
     Waiting, Login, Checked, Minting

LEMMA CrashMoves ==
    ASSUME ControlTyped, NEW p \in Procs, Flow(p), Crash(p) PROVE Moved(p)
<1>1. outcome[p] \in Outcomes
  BY DEF ControlTyped, Outcomes
<1>2. QED
  BY <1>1 DEF Crash, Forget, At, ControlTyped, Frame, Moved, Outcomes, Flow,
     Labels, Paths, Verdicts, Waiting, Login, Checked, Minting

Environment == CredentialsExpire \/ TokenExpires \/ IntervalPasses \/ UsageChanges

LEMMA ProcessMoves ==
    ASSUME ControlTyped, NEW p \in Procs, Flow(p), Start(p) \/ Step(p) \/ Browser(p) \/ Crash(p)
    PROVE  Moved(p)
BY StartMoves, StepMoves, CrashMoves

(* What the processes share keeps its type.                                *)
SharedTyped ==
    /\ {creds, token, stamp, over} \subseteq BOOLEAN
    /\ bound \subseteq Procs /\ {listening, page} \subseteq Procs \cup {NoProc}

LEMMA StepShared ==
    ASSUME SharedTyped, NEW p \in Procs, Start(p) \/ Step(p) \/ Browser(p) \/ Crash(p)
    PROVE  SharedTyped'
<1> USE DEF SharedTyped
<1>1. CASE Start(p) \/ Crash(p)
  BY <1>1 DEF Start, Crash
<1>2. CASE Step(p) \/ Browser(p)
  BY <1>2 DEF Step, Browser,
     NeedRefresh, ReadCache, CacheHit, ReadToken, CheckQuota, SaveQuotaCheckTimestamp,
     ShowPage, ClearStsCredentials, Bind, Probe, ProbeDone, WaitTimeout, Woken,
     CacheAgain, Release, SilentToken, Listen, LoginFails, Redeem, Exchange,
     ClearCredentials, ClearToken, SaveCredentials, SaveMonitoringToken, Callback,
     PageServed
<1>3. QED
  BY <1>1, <1>2

TypedFlow == TypeOK /\ ControlFlow

LEMMA TypedFlowKept == TypedFlow /\ [Next]_vars => TypedFlow'
<1> SUFFICES ASSUME TypedFlow, [Next]_vars PROVE TypedFlow'
  OBVIOUS
<1>1. ControlTyped /\ SharedTyped /\ ControlFlow
  BY DEF TypedFlow, TypeOK, ControlTyped, SharedTyped
<1>2. ASSUME ControlTyped', SharedTyped', ControlFlow' PROVE TypedFlow'
  BY <1>2 DEF TypedFlow, TypeOK, ControlTyped, SharedTyped
<1>3. CASE UNCHANGED control /\ SharedTyped'
  BY <1>1, <1>2, <1>3 DEF ControlTyped, ControlFlow, Flow
<1>4. ASSUME NEW p \in Procs, Start(p) \/ Step(p) \/ Browser(p) \/ Crash(p) PROVE TypedFlow'
  <2>1. Moved(p)
    BY <1>1, <1>4, ProcessMoves DEF ControlFlow
  <2>2. QED
    BY <1>1, <1>2, <1>4, <2>1, MovedKeeps, StepShared
<1>5. CASE Environment
  BY <1>1, <1>3, <1>5 DEF Environment, CredentialsExpire, TokenExpires, IntervalPasses,
     UsageChanges, SharedTyped
<1>6. CASE UNCHANGED vars
  BY <1>1, <1>3, <1>6 DEF vars, SharedTyped
<1>7. QED
  BY <1>4, <1>5, <1>6 DEF Next, Environment

LEMMA TypedFlowStarts == Init => TypedFlow
BY DEF Init, TypedFlow, TypeOK, ControlFlow, Flow, Labels, Paths, Verdicts,
   Waiting, Login, Checked, Minting

THEOREM TypedFlowInvariant == Spec => []TypedFlow
BY TypedFlowStarts, TypedFlowKept, PTL DEF Spec

(* No step of an invocation, of its browser or of its death leaves a       *)
(* variable outside its type.                                              *)
THEOREM PyTypes == Spec => []TypeOK
<1>1. TypedFlow => TypeOK
  BY DEF TypedFlow
<1>2. QED
  BY <1>1, TypedFlowInvariant, PTL

-----------------------------------------------------------------------------
(* The ports.                                                              *)

PortsOf(p) ==
    /\ Locked(p) => p \in bound
    /\ p \in bound => Locked(p) \/ pc[p] = "release"
    /\ listening = p => pc[p] \in {"browser", "redeem", "release"}
    /\ pc[p] \in {"browser", "redeem"} => listening = p
    /\ pc[p] = "page" <=> page = p

LEMMA PortsByProcess ==
    ASSUME TypeOK PROVE PortsHeld <=> \A p \in Procs : PortsOf(p)
BY PyProcsAssumption DEF TypeOK, PortsHeld, PortsOf

(* The ports of the other processes are left alone.                        *)
LEMMA PortsOfOthers ==
    ASSUME TypeOK, NEW p \in Procs, PortsOf(p), NEW q \in Procs, q # p,
           Start(p) \/ Step(p) \/ Browser(p) \/ Crash(p)
    PROVE  /\ q \in bound' <=> q \in bound
           /\ listening' = q <=> listening = q
           /\ page' = q <=> page = q
<1> USE PyProcsAssumption DEF TypeOK
<1>1. CASE Start(p) \/ Crash(p)
  BY <1>1 DEF Start, Crash
<1>2. CASE PageServed(p)
  BY <1>2 DEF PageServed, PortsOf
<1>3. CASE Probe(p)
  BY <1>3 DEF Probe
<1>4. CASE (Step(p) /\ ~Probe(p)) \/ Callback(p)
  BY <1>4 DEF Step,
     NeedRefresh, ReadCache, CacheHit, ReadToken, CheckQuota, SaveQuotaCheckTimestamp,
     ShowPage, ClearStsCredentials, Bind, Probe, ProbeDone, WaitTimeout, Woken,
     CacheAgain, Release, SilentToken, Listen, LoginFails, Redeem, Exchange,
     ClearCredentials, ClearToken, SaveCredentials, SaveMonitoringToken, Callback,
     PageServed
<1>5. QED
  BY <1>1, <1>2, <1>3, <1>4 DEF Browser

LEMMA ReturnPorts ==
    ASSUME TypedFlow, NEW p \in Procs, PortsOf(p), pc[p] # "release", NEW r, Return(p, r),
           r # "none", bound' = bound, listening' = listening, page' # p
    PROVE  PortsOf(p)'
<1>1. ControlTyped
  BY DEF TypedFlow, TypeOK, ControlTyped
<1>2. CASE p \in bound
  BY <1>1, <1>2, Returns DEF PortsOf, Locked
<1>3. CASE p \notin bound
  BY <1>1, <1>3, Returns DEF PortsOf, Locked
<1>4. QED
  BY <1>2, <1>3

LEMMA GotoPorts ==
    ASSUME TypedFlow, NEW p \in Procs, PortsOf(p), NEW l, Goto(p, l),
           pc[p] \notin {"idle", "release"}, l \notin {"idle", "page"},
           path[p] = "silent" \/ ~Locked(p), path[p] = "silent" \/ l \notin
           {"probed", "cacheAgain", "silentToken", "listen", "browser", "redeem"},
           bound' = bound, listening' = listening, page' # p,
           listening = p => l = "release", l \notin {"browser", "redeem"}
    PROVE  PortsOf(p)'
<1>1. ControlTyped
  BY DEF TypedFlow, TypeOK, ControlTyped
<1>2. QED
  BY <1>1, Goes DEF PortsOf, Locked

LEMMA ContinuePorts ==
    ASSUME TypedFlow, NEW p \in Procs, PortsOf(p), pc[p] \in {"stamp", "openPage", "page"},
           Continue(p), bound' = bound, listening' = listening, page' # p
    PROVE  PortsOf(p)'
<1>1. path[p] \in {"recheck", "silent", "login"} /\ listening # p
  BY DEF TypedFlow, ControlFlow, Flow, Checked, PortsOf
<1>2. QED
  BY <1>1, GotoPorts, ReturnPorts DEF Continue, Locked

LEMMA NoCredentialsPorts ==
    ASSUME TypedFlow, NEW p \in Procs, PortsOf(p), pc[p] \in {"exchange", "save", "clearToken"},
           NoCredentials(p), bound' = bound, listening' = listening, page' = page
    PROVE  PortsOf(p)'
<1>1. listening # p /\ page # p
  BY DEF PortsOf
<1>2. QED
  BY <1>1, GotoPorts, ReturnPorts DEF NoCredentials, Locked

LEMMA StepPorts ==
    ASSUME TypedFlow, NEW p \in Procs, PortsOf(p), Step(p) \/ Browser(p) PROVE PortsOf(p)'
<1> USE PyProcsAssumption DEF PortsOf, Locked
<1>a. ControlTyped
  BY DEF TypedFlow, TypeOK, ControlTyped
<1>b. Flow(p)
  BY DEF TypedFlow, ControlFlow
<1>1. CASE NeedRefresh(p)
  BY <1>a, <1>b, <1>1, ReturnPorts, Goes DEF NeedRefresh, Flow, Waiting, Login, Checked, Minting
<1>2. CASE ReadCache(p)
  BY <1>a, <1>b, <1>2, Goes DEF ReadCache, Flow, Waiting, Login, Checked, Minting
<1>3. CASE CacheHit(p)
  BY <1>a, <1>b, <1>3, ReturnPorts, Enters DEF CacheHit, Flow, Waiting, Login, Checked, Minting
<1>4. CASE ReadToken(p)
  BY <1>a, <1>b, <1>4, ReturnPorts, Goes DEF ReadToken, Flow, Waiting, Login, Checked, Minting
<1>5. CASE CheckQuota(p)
  BY <1>a, <1>5 DEF ControlTyped, CheckQuota, At
<1>6. CASE SaveQuotaCheckTimestamp(p)
  BY <1>a, <1>b, <1>6, ContinuePorts, Goes DEF SaveQuotaCheckTimestamp, Flow, Waiting, Login, Checked, Minting
<1>7. CASE ShowPage(p)
  BY <1>a, <1>b, <1>7, ContinuePorts, Goes DEF ShowPage, Flow, Waiting, Login, Checked, Minting
<1>8. CASE ClearStsCredentials(p)
  BY <1>a, <1>b, <1>8, Goes DEF ClearStsCredentials, Flow, Waiting, Login, Checked, Minting
<1>9. CASE Bind(p)
  BY <1>a, <1>b, <1>9, Goes DEF Bind, Flow, Waiting, Login, Checked, Minting
<1>10. CASE Probe(p)
  BY <1>a, <1>b, <1>10, Goes DEF Probe, Flow, Waiting, Login, Checked, Minting
<1>11. CASE ProbeDone(p)
  BY <1>a, <1>b, <1>11, Goes DEF ProbeDone, Flow, Waiting, Login, Checked, Minting
<1>12. CASE WaitTimeout(p)
  BY <1>a, <1>b, <1>12, ReturnPorts, Goes DEF WaitTimeout, Flow, Waiting, Login, Checked, Minting
<1>13. CASE Woken(p)
  BY <1>a, <1>b, <1>13, ReturnPorts DEF Woken, Flow, Waiting, Login, Checked, Minting
<1>14. CASE CacheAgain(p)
  BY <1>a, <1>b, <1>14, ReturnPorts, Goes DEF CacheAgain, Flow, Waiting, Login, Checked, Minting
<1>15. CASE Release(p)
  <2>1. Moved(p) /\ (pc'[p] = "idle" \/ (path'[p] = path[p] /\ pc'[p] \in {"saveToken", "check"}))
    BY <1>a, <1>b, <1>15, ReleaseMoves DEF Release, Forget, Goto, At, ControlTyped
  <2>2. pc'[p] # "idle" => path[p] # "silent"
    BY <1>a, <1>b, <1>15 DEF Release, Forget, At, ControlTyped, Flow
  <2>3. QED
    BY <1>b, <1>15, <2>1, <2>2 DEF Release, TypedFlow, TypeOK
<1>16. CASE SilentToken(p)
  BY <1>a, <1>b, <1>16, Obtains, Goes DEF SilentToken, Flow, Waiting, Login, Checked, Minting
<1>17. CASE Listen(p)
  BY <1>a, <1>b, <1>17, ReturnPorts, Goes DEF Listen, Flow, Waiting, Login, Checked, Minting
<1>18. CASE LoginFails(p)
  BY <1>a, <1>b, <1>18, ReturnPorts DEF LoginFails, Flow, Waiting, Login, Checked, Minting
<1>19. CASE Redeem(p)
  BY <1>a, <1>b, <1>19, Obtains DEF Redeem, Flow, Waiting, Login, Checked, Minting
<1>20. CASE Exchange(p)
  BY <1>a, <1>b, <1>20, NoCredentialsPorts, Goes DEF Exchange, Flow, Waiting, Login, Checked, Minting
<1>21. CASE ClearCredentials(p)
  BY <1>a, <1>b, <1>21, Goes DEF ClearCredentials, Flow, Waiting, Login, Checked, Minting
<1>22. CASE ClearToken(p)
  BY <1>a, <1>b, <1>22, ReturnPorts, NoCredentialsPorts DEF ClearToken, Flow, Waiting, Login, Checked, Minting
<1>23. CASE SaveCredentials(p)
  BY <1>a, <1>b, <1>23, NoCredentialsPorts, Goes DEF SaveCredentials, Flow, Waiting, Login, Checked, Minting
<1>24. CASE SaveMonitoringToken(p)
  BY <1>a, <1>b, <1>24, ReturnPorts DEF SaveMonitoringToken, Flow, Waiting, Login, Checked, Minting
<1>25. CASE Callback(p)
  BY <1>a, <1>b, <1>25, Goes DEF Callback, Flow, Waiting, Login, Checked, Minting
<1>26. CASE PageServed(p)
  BY <1>a, <1>b, <1>26, ContinuePorts DEF PageServed, Flow, Waiting, Login, Checked, Minting
<1>27. QED
  BY <1>1, <1>2, <1>3, <1>4, <1>5, <1>6, <1>7, <1>8, <1>9, <1>10, <1>11, <1>12, <1>13, <1>14, <1>15, <1>16, <1>17, <1>18, <1>19, <1>20, <1>21, <1>22, <1>23, <1>24, <1>25, <1>26 DEF Step, Browser

LEMMA PortsKept == TypedFlow /\ PortsHeld /\ [Next]_vars => PortsHeld'
<1> SUFFICES ASSUME TypedFlow, PortsHeld, [Next]_vars PROVE PortsHeld'
  OBVIOUS
<1>1. TypeOK /\ TypeOK' /\ ControlTyped /\ ControlFlow
  BY TypedFlowKept DEF TypedFlow, TypeOK, ControlTyped
<1>2. \A p \in Procs : PortsOf(p)
  BY <1>1, PortsByProcess
<1>3. CASE UNCHANGED <<ports, control>>
  BY <1>3 DEF PortsHeld, Locked
<1>4. ASSUME NEW p \in Procs, Start(p) \/ Step(p) \/ Browser(p) \/ Crash(p) PROVE PortsHeld'
  <2>1. Moved(p) /\ Flow(p)
    BY <1>1, <1>4, ProcessMoves DEF ControlFlow
  <2>2. ASSUME NEW q \in Procs, q # p PROVE PortsOf(q)'
    <3>1. pc'[q] = pc[q] /\ path'[q] = path[q]
      BY <1>1, <2>1, <2>2 DEF Moved, Frame, ControlTyped
    <3>2. QED
      BY <1>1, <1>2, <1>4, <2>2, <3>1, PortsOfOthers DEF PortsOf, Locked
  <2>3. PortsOf(p)'
    <3>1. CASE Start(p)
      BY <1>1, <1>2, <2>1, <3>1, StartMoves DEF Start, PortsOf, Locked
    <3>2. CASE Crash(p)
      BY <1>1, <1>2, <3>2, PyProcsAssumption DEF Crash, Forget, At, PortsOf, Locked, ControlTyped, TypeOK
    <3>3. QED
      BY <1>2, <1>4, <3>1, <3>2, StepPorts
  <2>4. QED
    BY <1>1, <2>2, <2>3, PortsByProcess DEF TypeOK, PortsHeld, PortsOf
<1>5. QED
  BY <1>3, <1>4 DEF Next, vars, CredentialsExpire, TokenExpires, IntervalPasses, UsageChanges

(* Whatever way an invocation ends, by a return, a refusal, a timeout or   *)
(* a kill, it has closed the redirect port and the port of the page, and   *)
(* nobody is in the login without its port.                                *)
THEOREM PortsAlwaysHeld == Spec => []PortsHeld
<1>1. Init => PortsHeld
  BY PyProcsAssumption DEF Init, PortsHeld, Locked
<1>2. QED
  BY <1>1, TypedFlowInvariant, PortsKept, PTL DEF Spec

-----------------------------------------------------------------------------
(* The refinement.  Permitted says in terms of Session which moves of p    *)
(* the gate allows.                                                        *)

Sessions == [p \in Procs |-> Session(p)]

Ends(p, r) == Session(p)' = "out" /\ outcome' = [outcome EXCEPT ![p] = r] /\ creds' = creds

Becomes(p, s, t) ==
    Session(p) = s /\ Session(p)' = t /\ outcome' = outcome /\ creds' = creds

Permitted(p) ==
    \/ Session(p)' = Session(p) /\ outcome' = outcome /\ creds' \in {creds, FALSE}
    \/ Becomes(p, "allowed", "in")
    \/ Becomes(p, "in", "allowed")
    \/ Becomes(p, "in", "refused") \/ Becomes(p, "holding", "refused")
    \/ Becomes(p, "in", "holding") /\ creds
    \/ /\ Session(p) = "allowed" /\ Session(p)' = "holding"
       /\ outcome' = outcome /\ creds' \in {creds, TRUE}
    \/ Ends(p, "fail") /\ Session(p) # "out"
    \/ Ends(p, "ok") /\ Session(p) = "in"
    \/ Ends(p, "creds") /\ (Session(p) = "holding" \/ (Session(p) = "in" /\ creds))
    \/ /\ Session(p) = "out" /\ Session(p)' = "in" /\ creds' = creds
       /\ outcome' = [outcome EXCEPT ![p] = "none"]

LEMMA SessionMoves ==
    ASSUME ControlTyped, NEW p \in Procs, Frame(p)
    PROVE  Sessions' = [Sessions EXCEPT ![p] = Session(p)']
<1>1. \A q \in Procs \ {p} : Session(q)' = Session(q)
  BY DEF ControlTyped, Frame, Session, Holding
<1>2. QED
  BY <1>1 DEF Sessions

LEMMA GateAllows ==
    ASSUME ControlTyped, NEW p \in Procs, Frame(p), Permitted(p)
    PROVE  [Gate!Next]_(Gate!vars)
<1>1. Sessions' = [Sessions EXCEPT ![p] = Session(p)'] /\ Sessions[p] = Session(p)
  BY SessionMoves DEF Sessions
<1>2. Sessions \in [Procs -> {"out", "in", "allowed", "refused", "holding"}]
  BY DEF Sessions, Session
<1> USE <1>1, <1>2 DEF Gate!Next, Gate!vars, Gate!Become, Gate!End, Sessions
<1>3. CASE Session(p)' = Session(p) /\ outcome' = outcome /\ creds' \in {creds, FALSE}
  <2>1. Sessions' = Sessions
    BY <1>3
  <2>2. QED
    BY <1>3, <2>1 DEF Gate!Empty
<1>4. CASE Becomes(p, "allowed", "in")
  BY <1>4 DEF Becomes, Gate!Drop
<1>5. CASE Becomes(p, "in", "allowed") \/ Becomes(p, "in", "refused") \/ Becomes(p, "holding", "refused")
  BY <1>5 DEF Becomes, Gate!Ask
<1>6. CASE Becomes(p, "in", "holding") /\ creds
  BY <1>6 DEF Becomes, Gate!Take
<1>7. CASE /\ Session(p) = "allowed" /\ Session(p)' = "holding"
           /\ outcome' = outcome /\ creds' \in {creds, TRUE}
  BY <1>7 DEF Gate!Mint
<1>8. CASE (Ends(p, "fail") /\ Session(p) # "out") \/ (Ends(p, "ok") /\ Session(p) = "in")
  BY <1>8 DEF Ends, Gate!Leave
<1>9. CASE Ends(p, "creds") /\ (Session(p) = "holding" \/ (Session(p) = "in" /\ creds))
  BY <1>9 DEF Ends, Gate!HandOut, Gate!Take
<1>10. CASE /\ Session(p) = "out" /\ Session(p)' = "in" /\ creds' = creds
            /\ outcome' = [outcome EXCEPT ![p] = "none"]
  BY <1>10 DEF Gate!Enter
<1>11. QED
  BY <1>3, <1>4, <1>5, <1>6, <1>7, <1>8, <1>9, <1>10 DEF Permitted

(* Where an invocation stands follows from the access it makes next.       *)
LEMMA Stands ==
    ASSUME ControlTyped, NEW p \in Procs, Flow(p)
    PROVE  /\ outcome[p] # "none" => Session(p) = "out"
           /\ pc[p] \in {"needRefresh", "readCache", "readToken", "check", "silentToken", "cacheAgain",
                         "clearCreds", "clearToken"} \cup Waiting \cup Login /\ path[p] # "recheck"
                => Session(p) = "in"
           /\ pc[p] = "hit" \/ (pc[p] = "check" /\ path[p] = "recheck") => Session(p) = "holding"
           /\ pc[p] \in {"stamp", "openPage", "page", "clearSts", "exchange", "save"} =>
                Session(p) = IF verdict[p] = "block" THEN "refused"
                             ELSE IF path[p] = "recheck" THEN "holding" ELSE "allowed"
           /\ pc[p] = "saveToken" => Session(p) = IF path[p] = "monitor" THEN "in" ELSE "holding"
           /\ pc[p] = "release" /\ outcome[p] = "none" =>
                Session(p) = IF verdict[p] = "block" THEN "refused" ELSE "in"
<1>1. path[p] \in Paths /\ verdict[p] \in Verdicts
  BY DEF ControlTyped
<1>2. QED
  BY <1>1 DEF Session, Holding, Flow, Verdicts, Waiting, Login, Checked, Minting

LEMMA ReturnEnds ==
    ASSUME ControlTyped, NEW p \in Procs, NEW r, r # "none", Return(p, r), creds' = creds
    PROVE  Ends(p, r)
BY Returns DEF Ends, Session

LEMMA ContinuePermitted ==
    ASSUME ControlTyped, NEW p \in Procs, Flow(p), pc[p] \in {"stamp", "openPage", "page"},
           Continue(p), creds' = creds
    PROVE  Permitted(p)
<1>1. outcome[p] = "none" /\ path[p] \in {"recheck", "silent", "login"}
  BY DEF Flow, Checked
<1>2. CASE verdict[p] = "block" /\ Goto(p, "clearSts")
  BY <1>1, <1>2, Stands, Goes DEF Permitted, Session, Goto
<1>3. CASE verdict[p] # "block" /\ path[p] = "recheck" /\ Return(p, "creds")
  BY <1>3, Stands, ReturnEnds DEF Permitted
<1>4. CASE verdict[p] # "block" /\ path[p] \in {"silent", "login"} /\ Goto(p, "exchange")
  <2>1. verdict[p] # "none"
    BY DEF Flow, Checked
  <2>2. QED
    BY <1>1, <1>4, <2>1, Stands, Goes DEF Permitted, Session, Holding, Goto
<1>5. QED
  BY <1>2, <1>3, <1>4 DEF Continue

LEMMA NoCredentialsPermitted ==
    ASSUME ControlTyped, NEW p \in Procs, Flow(p), pc[p] \in {"exchange", "save", "clearToken"},
           NoCredentials(p), creds' = creds
    PROVE  Permitted(p)
<1>1. path[p] \in {"silent", "login"} /\ verdict[p] # "block" /\ outcome[p] = "none"
  BY DEF NoCredentials, Flow, Checked
<1>2. Session(p) \in {"in", "allowed"}
  BY <1>1, Stands
<1>3. CASE path[p] = "silent" /\ Goto(p, "listen")
  <2>1. Session(p)' = "in" /\ outcome' = outcome
    BY <1>1, <1>3, Goes DEF Session, Holding, Goto
  <2>2. QED
    BY <1>2, <2>1 DEF Permitted, Becomes
<1>4. CASE Return(p, "fail")
  BY <1>2, <1>4, ReturnEnds DEF Permitted
<1>5. QED
  BY <1>3, <1>4 DEF NoCredentials

LEMMA StepPermitted ==
    ASSUME ControlTyped, NEW p \in Procs, Flow(p), Step(p) \/ Browser(p) PROVE Permitted(p)
<1> USE DEF Permitted, Becomes, Flow, Waiting, Login, Checked, Minting
<1>a. ControlTyped' /\ Flow(p)' /\ Frame(p)
  BY StepMoves DEF Moved, Frame, ControlTyped, Outcomes
<1>s. /\ pc[p] \in {"needRefresh", "readCache", "readToken", "silentToken", "cacheAgain"} \cup Waiting \cup Login
           => Session(p) = "in"
  BY Stands
<1>t. \A l : Goto(p, l) => /\ pc'[p] = l /\ path'[p] = path[p] /\ verdict'[p] = verdict[p]
                           /\ outcome'[p] = outcome[p] /\ outcome' = outcome
  BY Goes DEF Goto
<1>1. CASE NeedRefresh(p)
  BY <1>1, ReturnEnds, <1>t, <1>s, Stands DEF NeedRefresh, Session, Holding
<1>2. CASE ReadCache(p)
  BY <1>2, <1>t, <1>s, Stands DEF ReadCache, Session, Holding
<1>3. CASE CacheHit(p)
  <2>1. Session(p) = "holding" /\ creds' = creds /\ verdict[p] = "none" /\ outcome[p] = "none"
    BY <1>3, Stands DEF CacheHit
  <2>2. CASE Enter(p, "recheck", "check")
    <3>1. outcome' = outcome
      BY <2>2 DEF Enter
    <3>2. pc'[p] = "check" /\ path'[p] = "recheck" /\ verdict'[p] = "none" /\ outcome'[p] = "none"
      BY <2>1, <2>2, Enters
    <3>3. Session(p)' = "holding"
      BY <3>2 DEF Session, Holding
    <3>4. QED
      BY <2>1, <3>1, <3>3
  <2>3. CASE Return(p, "creds")
    BY <2>1, <2>3, ReturnEnds
  <2>4. QED
    BY <1>3, <2>2, <2>3 DEF CacheHit
<1>4. CASE ReadToken(p)
  BY <1>4, ReturnEnds, <1>t, <1>s, Stands DEF ReadToken, Session, Holding
<1>5. CASE CheckQuota(p)
  <2>1. /\ pc'[p] \in {"stamp", "exchange"} /\ path'[p] = path[p] /\ outcome' = outcome
        /\ verdict'[p] \in {"allow", "warn", "block"} /\ pc[p] = "check" /\ creds' = creds
        /\ pc'[p] = "exchange" => verdict'[p] = "allow" /\ path[p] # "recheck"
    BY <1>5 DEF CheckQuota, ControlTyped, At
  <2>2. Session(p) = IF path[p] = "recheck" THEN "holding" ELSE "in"
    BY <2>1, Stands
  <2>3. Session(p)' = IF verdict'[p] = "block" THEN "refused"
                      ELSE IF path[p] = "recheck" THEN "holding" ELSE "allowed"
    BY <2>1 DEF Session, Holding
  <2>4. QED
    BY <2>1, <2>2, <2>3
<1>6. CASE SaveQuotaCheckTimestamp(p)
  BY <1>6, ContinuePermitted, <1>t, <1>s, Stands DEF SaveQuotaCheckTimestamp, Session, Holding
<1>7. CASE ShowPage(p)
  BY <1>7, ContinuePermitted, <1>t, <1>s, Stands DEF ShowPage, Session, Holding
<1>8. CASE ClearStsCredentials(p)
  <2>1. Session(p) = "refused" /\ Session(p)' = "refused" /\ outcome' = outcome
    BY <1>8, <1>t, Stands DEF ClearStsCredentials, Session
  <2>2. QED
    BY <1>8, <2>1 DEF ClearStsCredentials
<1>9. CASE Bind(p)
  BY <1>9, <1>t, <1>s, Stands DEF Bind, Session, Holding
<1>10. CASE Probe(p)
  BY <1>10, <1>t, <1>s, Stands DEF Probe, Session, Holding
<1>11. CASE ProbeDone(p)
  BY <1>11, <1>t, <1>s, Stands DEF ProbeDone, Session, Holding
<1>12. CASE WaitTimeout(p)
  BY <1>12, ReturnEnds, <1>t, <1>s, Stands DEF WaitTimeout, Session, Holding
<1>13. CASE Woken(p)
  BY <1>13, ReturnEnds, <1>s, Stands DEF Woken, Session, Holding
<1>14. CASE CacheAgain(p)
  BY <1>14, ReturnEnds, <1>t, <1>s, Stands DEF CacheAgain, Session, Holding
<1>15. CASE Release(p)
  <2>1. pc[p] = "release" /\ creds' = creds
    BY <1>15 DEF Release
  <2>2. CASE outcome[p] # "none" /\ Forget(p) /\ UNCHANGED outcome
    BY <2>1, <2>2 DEF Session, Forget, At, ControlTyped
  <2>3. CASE outcome[p] = "none" /\ verdict[p] = "block" /\ Forget(p)
             /\ outcome' = [outcome EXCEPT ![p] = "fail"]
    BY <2>1, <2>3, Stands DEF Ends, Session, Forget, At, ControlTyped
  <2>4. CASE outcome[p] = "none" /\ verdict[p] # "block"
             /\ Goto(p, IF path[p] = "monitor" THEN "saveToken" ELSE "check")
    BY <1>t, <2>1, <2>4, Stands DEF Session, Holding
  <2>5. QED
    BY <1>15, <2>2, <2>3, <2>4 DEF Release
<1>16. CASE SilentToken(p)
  <2>1. Session(p) = "in" /\ creds' = creds /\ outcome[p] = "none" /\ verdict[p] = "none" /\ path[p] = "run"
    BY <1>16, <1>s DEF SilentToken
  <2>2. Session(p)' = "in" /\ outcome' = outcome
    BY <1>16, <1>t, <2>1, Obtains DEF SilentToken, Obtain, Session, Holding
  <2>3. QED
    BY <2>1, <2>2
<1>17. CASE Listen(p)
  BY <1>17, ReturnEnds, <1>t, <1>s, Stands DEF Listen, Session, Holding
<1>18. CASE LoginFails(p)
  BY <1>18, ReturnEnds, <1>s, Stands DEF LoginFails, Session, Holding
<1>19. CASE Redeem(p)
  <2>1. Session(p) = "in" /\ creds' = creds /\ outcome[p] = "none"
    BY <1>19, <1>s DEF Redeem
  <2>2. PICK f \in {"monitor", "login"} : Obtain(p, f, "release")
    BY <1>19 DEF Redeem
  <2>3. pc'[p] = "release" /\ path'[p] = f /\ verdict'[p] = "none" /\ outcome'[p] = "none"
    BY <2>1, <2>2, Obtains
  <2>4. Session(p)' = "in" /\ outcome' = outcome
    BY <2>2, <2>3 DEF Obtain, Session, Holding
  <2>5. QED
    BY <2>1, <2>4
<1>20. CASE Exchange(p)
  BY <1>20, NoCredentialsPermitted, <1>t, <1>s, Stands DEF Exchange, Session, Holding
<1>21. CASE ClearCredentials(p)
  <2>1. pc[p] = "clearCreds" /\ pc'[p] = "clearToken" /\ path[p] \notin {"recheck", "none"}
        /\ outcome' = outcome /\ creds' = FALSE
    BY <1>21, <1>t DEF ClearCredentials
  <2>2. Session(p) = "in"
    BY <2>1, Stands
  <2>3. Session(p)' = "in"
    BY <1>21, <1>t, <2>1 DEF ClearCredentials, Session, Holding
  <2>4. QED
    BY <2>1, <2>2, <2>3
<1>22. CASE ClearToken(p)
  BY <1>22, ReturnEnds, NoCredentialsPermitted, <1>s, Stands DEF ClearToken, Session, Holding
<1>23. CASE SaveCredentials(p)
  BY <1>23, NoCredentialsPermitted, <1>t, <1>s, Stands DEF SaveCredentials, Session, Holding
<1>24. CASE SaveMonitoringToken(p)
  BY <1>24, ReturnEnds, <1>s, Stands DEF SaveMonitoringToken, Session, Holding
<1>25. CASE Callback(p)
  BY <1>25, <1>t, <1>s, Stands DEF Callback, Session, Holding
<1>26. CASE PageServed(p)
  BY <1>26, ContinuePermitted, <1>s, Stands DEF PageServed, Session, Holding
<1>27. QED
  BY <1>1, <1>2, <1>3, <1>4, <1>5, <1>6, <1>7, <1>8, <1>9, <1>10, <1>11, <1>12, <1>13, <1>14, <1>15, <1>16, <1>17, <1>18, <1>19, <1>20, <1>21, <1>22, <1>23, <1>24, <1>25, <1>26 DEF Step, Browser

LEMMA StartPermitted ==
    ASSUME ControlTyped, NEW p \in Procs, Flow(p), Start(p) PROVE Permitted(p)
<1>1. Session(p) = "out" /\ creds' = creds /\ outcome' = [outcome EXCEPT ![p] = "none"]
  BY DEF Start, Session
<1>2. verdict'[p] = "none" /\ outcome'[p] = "none"
  BY <1>1 DEF Start, Flow, ControlTyped
<1>3. Session(p)' = "in"
  BY <1>2, StartMoves DEF Session, Holding
<1>4. QED
  BY <1>1, <1>3 DEF Permitted

LEMMA CrashPermitted ==
    ASSUME ControlTyped, NEW p \in Procs, Flow(p), Crash(p) PROVE Permitted(p)
<1>1. Session(p)' = "out" /\ creds' = creds /\ pc[p] # "idle"
  BY DEF Crash, Forget, At, Session, ControlTyped
<1>2. CASE outcome[p] = "none"
  BY <1>1, <1>2 DEF Crash, Permitted, Ends, Session, ControlTyped
<1>3. CASE outcome[p] # "none"
  BY <1>1, <1>3 DEF Crash, Permitted, Session, ControlTyped
<1>4. QED
  BY <1>2, <1>3

(* Every step of the provider, its browser and its environment is a step   *)
(* of the gate or changes nothing the gate sees.                           *)
THEOREM PyGateRefined == Spec => ImplementsGate
<1>1. Init => Gate!Init
  BY DEF Init, Gate!Init, Session
<1>2. TypedFlow /\ [Next]_vars => [Gate!Next]_(Gate!vars)
  <2> SUFFICES ASSUME TypedFlow, [Next]_vars PROVE [Gate!Next]_(Gate!vars)
    OBVIOUS
  <2>1. ControlTyped /\ ControlFlow
    BY DEF TypedFlow, TypeOK, ControlTyped
  <2>2. ASSUME NEW p \in Procs, Start(p) \/ Step(p) \/ Browser(p) \/ Crash(p)
        PROVE  [Gate!Next]_(Gate!vars)
    <3>1. Flow(p)
      BY <2>1 DEF ControlFlow
    <3>2. Frame(p) /\ Permitted(p)
      BY <2>1, <2>2, <3>1, ProcessMoves, StartPermitted, StepPermitted, CrashPermitted DEF Moved
    <3>3. QED
      BY <2>1, <3>2, GateAllows
  <2>3. CASE UNCHANGED control /\ creds' \in {creds, FALSE}
    <3>1. Sessions' = Sessions
      BY <2>3 DEF Sessions, Session, Holding
    <3>2. QED
      BY <2>3, <3>1 DEF Gate!Next, Gate!vars, Gate!Empty, Sessions
  <2>4. CASE Environment \/ UNCHANGED vars
    BY <2>3, <2>4 DEF Environment, CredentialsExpire, TokenExpires, IntervalPasses, UsageChanges, vars
  <2>5. QED
    BY <2>2, <2>4 DEF Next, Environment
<1>3. QED
  BY <1>1, <1>2, TypedFlowInvariant, PTL DEF Spec, ImplementsGate, Gate!Spec
=============================================================================
