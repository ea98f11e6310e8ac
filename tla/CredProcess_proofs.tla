------------------------- MODULE CredProcess_proofs -------------------------
(***************************************************************************)
(* Theorems about CredProcess, for any number of processes and             *)
(* refresh_tokens: types and the port, the refinement of CredentialGate    *)
(* and what follows from the control flow, and the tokens in flight.       *)
(***************************************************************************)
EXTENDS CredProcessInv, TLAPS

USE DEF disk, world, locals, control

ControlTyped ==
    /\ pc \in [Procs -> Labels]
    /\ cmd \in [Procs -> AllCommands \cup {"none"}]
    /\ fn \in [Procs -> Functions]
    /\ src \in [Procs -> Sources]
    /\ verdict \in [Procs -> Verdicts]
    /\ held \in [Procs -> RefreshTokens \cup {NoToken}]
    /\ fresh \in [Procs -> RefreshTokens \cup {NoToken}]
    /\ outcome \in [Procs -> Outcomes]

DiskTyped ==
    /\ creds \in BOOLEAN /\ token \in BOOLEAN /\ stamp \in BOOLEAN
    /\ refresh \in RefreshTokens \cup {NoToken}

WorldTyped ==
    /\ port \in Procs \cup {NoProc}
    /\ grants \subseteq RefreshTokens
    /\ over \in BOOLEAN

LEMMA TypeParts == TypeOK <=> DiskTyped /\ WorldTyped /\ ControlTyped
BY DEF TypeOK, DiskTyped, WorldTyped, ControlTyped

LEMMA GotoTyped ==
    ASSUME ControlTyped, NEW p \in Procs, NEW l \in Labels, Goto(p, l)
    PROVE  ControlTyped'
BY DEF ControlTyped, Goto, At

LEMMA CallTyped ==
    ASSUME ControlTyped, NEW p \in Procs, NEW l \in Labels, NEW f \in Functions, Call(p, f, l)
    PROVE  ControlTyped'
BY DEF ControlTyped, Call, At

LEMMA ExitTyped ==
    ASSUME ControlTyped, NEW p \in Procs, NEW r \in Outcomes, Exit(p, r)
    PROVE  ControlTyped'
BY DEF ControlTyped, Exit, At, Labels, Functions, Sources, Verdicts

LEMMA ObtainTyped ==
    ASSUME ControlTyped, NEW p \in Procs, NEW s \in Sources, NEW l \in Labels,
           Obtain(p, s, l),
           held' \in [Procs -> RefreshTokens \cup {NoToken}],
           fresh' \in [Procs -> RefreshTokens \cup {NoToken}]
    PROVE  ControlTyped'
BY DEF ControlTyped, Obtain, At, Verdicts

LEMMA ServeTyped ==
    ASSUME ControlTyped, NEW p \in Procs, Serve(p)
    PROVE  ControlTyped'
BY GotoTyped, ExitTyped DEF Serve, Labels, Outcomes

LEMMA FallBackTyped ==
    ASSUME ControlTyped, NEW p \in Procs, FallBack(p)
    PROVE  ControlTyped'
BY CallTyped, ExitTyped DEF FallBack, Labels, Functions, Outcomes

LEMMA RefreshUnavailableTyped ==
    ASSUME ControlTyped, NEW p \in Procs, RefreshUnavailable(p)
    PROVE  ControlTyped'
BY GotoTyped, ServeTyped, ExitTyped, FallBackTyped DEF RefreshUnavailable, Labels, Outcomes

(* A step of an invocation keeps the types.                                *)
LEMMA StepTyped ==
    ASSUME TypeOK, NEW p \in Procs, Step(p)
    PROVE  TypeOK'
<1>1. DiskTyped /\ WorldTyped /\ ControlTyped
  BY TypeParts
<1>2. SUFFICES DiskTyped' /\ WorldTyped' /\ ControlTyped'
  BY DEF TypeOK, DiskTyped, WorldTyped, ControlTyped
<1> USE <1>1 DEF DiskTyped, WorldTyped, Labels, Outcomes
<1>3. CASE NeedRefresh(p)
  BY <1>3, GotoTyped, ExitTyped DEF NeedRefresh
<1>4. CASE ReadCache(p)
  BY <1>4, GotoTyped, ExitTyped DEF ReadCache
<1>5. CASE CacheHit(p)
  BY <1>5, CallTyped, ServeTyped DEF CacheHit, Functions
<1>6. CASE TryAcquire(p)
  BY <1>6, GotoTyped DEF TryAcquire
<1>7. CASE ReleaseLock(p)
  BY <1>7, GotoTyped DEF ReleaseLock
<1>8. CASE RaceGuard(p)
  BY <1>8, GotoTyped, ServeTyped DEF RaceGuard
<1>9. CASE Probe(p)
  BY <1>9, GotoTyped DEF Probe
<1>10. CASE ProbeDone(p)
  BY <1>10, GotoTyped DEF ProbeDone
<1>11. CASE WaitTimeout(p)
  BY <1>11, ExitTyped DEF WaitTimeout
<1>12. CASE Woken(p)
  BY <1>12, ExitTyped, ServeTyped DEF Woken
<1>13. CASE ReadToken(p)
  <2>1. CASE token
    <3>1. CASE fn[p] \in {"run", "recheck"}
      BY <1>13, <2>1, <3>1, ObtainTyped DEF ReadToken, Sources, ControlTyped
    <3>2. CASE fn[p] \notin {"run", "recheck"}
      BY <1>13, <2>1, <3>2, ExitTyped DEF ReadToken
    <3>3. QED
      BY <3>1, <3>2
  <2>2. CASE ~token
    BY <1>13, <2>2, GotoTyped DEF ReadToken
  <2>3. QED
    BY <2>1, <2>2
<1>14. CASE LoadRefresh(p)
  BY <1>14, RefreshUnavailableTyped DEF LoadRefresh, ControlTyped, At
<1>15. CASE Exchanged(p)
  BY <1>15, ObtainTyped DEF Exchanged, Sources, Rotation, Spare, ControlTyped, At
<1>16. CASE ExchangedInVain(p)
  BY <1>16, RefreshUnavailableTyped DEF ExchangedInVain, Rotation, Spare
<1>17. CASE TransientFailure(p)
  BY <1>17, RefreshUnavailableTyped DEF TransientFailure
<1>18. CASE Rejected(p)
  BY <1>18, GotoTyped DEF Rejected
<1>19. CASE Discard(p)
  BY <1>19, RefreshUnavailableTyped DEF Discard
<1>20. CASE KeepToken(p)
  BY <1>20, GotoTyped DEF Written, KeepToken
<1>21. CASE KeepRefresh(p)
  BY <1>21, ExitTyped DEF Written, KeepRefresh, ControlTyped, At
<1>22. CASE Listen(p)
  BY <1>22, GotoTyped, ExitTyped DEF Listen, LoginFailed
<1>23. CASE Callback(p)
  BY <1>23, GotoTyped, ExitTyped DEF Callback, LoginFailed, Functions
<1>24. CASE Redeem(p)
  <2>1. CASE LoginFailed(p) /\ UNCHANGED grants
    BY <1>24, <2>1, ExitTyped DEF Redeem, LoginFailed
  <2>2. CASE ~(LoginFailed(p) /\ UNCHANGED grants)
    <3>1. PICK t \in Spare \cup {NoToken} :
            /\ grants' = grants \cup ({t} \ {NoToken})
            /\ fresh' = [fresh EXCEPT ![p] = IF fn[p] = "run" THEN t ELSE NoToken]
      BY <1>24, <2>2 DEF Redeem
    <3>2. t \in RefreshTokens \cup {NoToken}
      BY DEF Spare
    <3>3. UNCHANGED <<disk, port, over, held>>
      BY <1>24, <2>2 DEF Redeem
    <3>4. ControlTyped'
      BY <1>24, <2>2, <3>1, <3>2, <3>3, ObtainTyped DEF Redeem, Sources, ControlTyped
    <3>5. QED
      BY <3>1, <3>2, <3>3, <3>4
  <2>3. QED
    BY <2>1, <2>2
<1>25. CASE CheckQuota(p)
  BY <1>25 DEF CheckQuota, ControlTyped, At, CheckResults, Answer, FailAnswer, Verdicts
<1>26. CASE Answered(p)
  BY <1>26, GotoTyped, ExitTyped, ServeTyped DEF Answered
<1>27. CASE Exchange(p)
  BY <1>27, GotoTyped, ExitTyped, FallBackTyped DEF Exchange
<1>28. CASE SaveCredentials(p)
  BY <1>28, GotoTyped DEF Written, SaveCredentials
<1>29. CASE SaveMonitoringToken(p)
  BY <1>29, GotoTyped, ExitTyped, ServeTyped DEF Written, SaveMonitoringToken
<1>30. CASE SaveRefreshToken(p)
  BY <1>30, ServeTyped DEF Written, SaveRefreshToken, ControlTyped
<1>31. CASE DesktopReread(p)
  BY <1>31, ExitTyped DEF DesktopReread
<1>32. CASE ClearCredentials(p)
  BY <1>32, GotoTyped DEF ClearCredentials
<1>33. CASE ClearRefreshToken(p)
  BY <1>33, ExitTyped DEF ClearRefreshToken
<1>34. QED
  BY <1>3, <1>4, <1>5, <1>6, <1>7, <1>8, <1>9, <1>10, <1>11, <1>12, <1>13, <1>14, <1>15, <1>16, <1>17, <1>18, <1>19, <1>20, <1>21, <1>22, <1>23, <1>24, <1>25, <1>26, <1>27, <1>28, <1>29, <1>30, <1>31, <1>32, <1>33 DEF Step

LEMMA InitTyped ==
    ASSUME Init
    PROVE  TypeOK
<1>1. DiskTyped /\ WorldTyped
  BY DEF Init, DiskTyped, WorldTyped
<1>2. pc \in [Procs -> Labels] /\ cmd \in [Procs -> AllCommands \cup {"none"}]
  BY DEF Init, Labels
<1>3. fn \in [Procs -> Functions] /\ src \in [Procs -> Sources]
  BY DEF Init, Functions, Sources
<1>4. verdict \in [Procs -> Verdicts] /\ outcome \in [Procs -> Outcomes]
  BY DEF Init, Verdicts, Outcomes
<1>5. held \in [Procs -> RefreshTokens \cup {NoToken}] /\ fresh \in [Procs -> RefreshTokens \cup {NoToken}]
  BY DEF Init
<1>6. QED
  BY <1>1, <1>2, <1>3, <1>4, <1>5, TypeParts DEF ControlTyped

LEMMA StartTyped ==
    ASSUME TypeOK, NEW p \in Procs, Start(p)
    PROVE  TypeOK'
<1>1. PICK c \in Commands :
        /\ cmd' = [cmd EXCEPT ![p] = c]
        /\ fn' = [fn EXCEPT ![p] = Entry(c)[1]]
        /\ At(p, Entry(c)[2])
  BY DEF Start
<1>2. c \in AllCommands
  BY CommandsAssumption
<1>3. Entry(c)[1] \in Functions /\ Entry(c)[2] \in Labels
  BY <1>2 DEF Entry, AllCommands, Functions, Labels
<1>4. QED
  BY <1>1, <1>2, <1>3 DEF Start, At, TypeOK, Outcomes

LEMMA EnvironmentTyped ==
    ASSUME TypeOK, Environment
    PROVE  TypeOK'
<1> USE DEF DiskTyped, WorldTyped
<1>1. DiskTyped /\ WorldTyped /\ ControlTyped
  BY TypeParts
<1>2. ASSUME NEW p \in Procs, Crash(p)
      PROVE  TypeOK'
  <2>1. ControlTyped'
    BY <1>1, <1>2, ExitTyped DEF Crash, Outcomes
  <2>2. DiskTyped' /\ WorldTyped'
    BY <1>1, <1>2 DEF Crash
  <2>3. QED
    BY <2>1, <2>2 DEF TypeOK, ControlTyped
<1>3. QED
  BY <1>2 DEF Environment, TypeOK, CredentialsExpire, TokenAges, IntervalPasses,
              UsageChanges, Revoke

(* Type correctness: every variable keeps its type, for any number of      *)
(* processes and tokens, any configuration and any faults.                 *)
THEOREM TypeCorrect == Spec => []TypeOK
<1>1. TypeOK /\ [Next]_vars => TypeOK'
  <2> SUFFICES ASSUME TypeOK, [Next]_vars PROVE TypeOK'
    OBVIOUS
  <2>1. CASE UNCHANGED vars
    BY <2>1 DEF vars, TypeOK
  <2>2. QED
    BY <2>1, EnvironmentTyped, StartTyped, StepTyped DEF Next
<1>2. QED
  BY <1>1, InitTyped, PTL DEF Spec

-----------------------------------------------------------------------------
(* The callback port.                                                      *)

Sits == {"locked", "probed", "callback"}
Away(p) == \E l \in Labels \ Sits : At(p, l)

LEMMA ExitQuiet == ASSUME NEW p, NEW r, Exit(p, r) PROVE Away(p)
BY DEF Exit, Away, Labels, Sits

LEMMA ServeQuiet == ASSUME NEW p, Serve(p) PROVE Away(p)
BY DEF Serve, Exit, Goto, Away, Labels, Sits

LEMMA FallBackQuiet == ASSUME NEW p, FallBack(p) PROVE Away(p)
BY DEF FallBack, Exit, Call, Away, Labels, Sits

LEMMA RefreshUnavailableQuiet == ASSUME NEW p, RefreshUnavailable(p) PROVE Away(p)
BY ServeQuiet, FallBackQuiet, ExitQuiet DEF RefreshUnavailable, Goto, Away, Labels, Sits

PortActions(p) ==
    TryAcquire(p) \/ ReleaseLock(p) \/ Probe(p) \/ ProbeDone(p) \/ Listen(p) \/ Callback(p)

(* The other steps neither touch the port nor come near it.                *)
LEMMA QuietSteps ==
    ASSUME NEW p \in Procs, Step(p), ~PortActions(p)
    PROVE  port' = port /\ pc[p] \notin Sits /\ Away(p)
<1> USE DEF Labels, Sits
<1>1. CASE NeedRefresh(p)
  BY <1>1, ExitQuiet DEF NeedRefresh, Goto, Away
<1>2. CASE ReadCache(p)
  BY <1>2, ExitQuiet DEF ReadCache, Goto, Away
<1>3. CASE CacheHit(p)
  BY <1>3, ServeQuiet DEF CacheHit, Call, Away
<1>4. CASE RaceGuard(p)
  BY <1>4, ServeQuiet DEF RaceGuard, Goto, Away
<1>5. CASE WaitTimeout(p)
  BY <1>5, ExitQuiet DEF WaitTimeout
<1>6. CASE Woken(p)
  BY <1>6, ExitQuiet, ServeQuiet DEF Woken
<1>7. CASE ReadToken(p)
  BY <1>7, ExitQuiet DEF ReadToken, Goto, Obtain, Away
<1>8. CASE LoadRefresh(p)
  BY <1>8, RefreshUnavailableQuiet DEF LoadRefresh, Away
<1>9. CASE Exchanged(p)
  BY <1>9 DEF Exchanged, Obtain, Away
<1>10. CASE ExchangedInVain(p)
  BY <1>10, RefreshUnavailableQuiet DEF ExchangedInVain
<1>11. CASE TransientFailure(p)
  BY <1>11, RefreshUnavailableQuiet DEF TransientFailure
<1>12. CASE Rejected(p)
  BY <1>12 DEF Rejected, Goto, Away
<1>13. CASE Discard(p)
  BY <1>13, RefreshUnavailableQuiet DEF Discard
<1>14. CASE KeepToken(p)
  BY <1>14 DEF Written, KeepToken, Goto, Away
<1>15. CASE KeepRefresh(p)
  BY <1>15, ExitQuiet DEF Written, KeepRefresh, Away
<1>16. CASE Redeem(p)
  BY <1>16, ExitQuiet DEF Redeem, LoginFailed, Obtain, Away
<1>17. CASE CheckQuota(p)
  BY <1>17 DEF CheckQuota, Away
<1>18. CASE Answered(p)
  BY <1>18, ExitQuiet, ServeQuiet DEF Answered, Goto, Away
<1>19. CASE Exchange(p)
  BY <1>19, ExitQuiet, FallBackQuiet DEF Exchange, Goto, Away
<1>20. CASE SaveCredentials(p)
  BY <1>20 DEF Written, SaveCredentials, Goto, Away
<1>21. CASE SaveMonitoringToken(p)
  BY <1>21, ExitQuiet, ServeQuiet DEF Written, SaveMonitoringToken, Goto, Away
<1>22. CASE SaveRefreshToken(p)
  BY <1>22, ServeQuiet DEF Written, SaveRefreshToken
<1>23. CASE DesktopReread(p)
  BY <1>23, ExitQuiet DEF DesktopReread
<1>24. CASE ClearCredentials(p)
  BY <1>24 DEF ClearCredentials, Goto, Away
<1>25. CASE ClearRefreshToken(p)
  BY <1>25, ExitQuiet DEF ClearRefreshToken
<1>26. QED
  BY <1>1, <1>2, <1>3, <1>4, <1>5, <1>6, <1>7, <1>8, <1>9, <1>10, <1>11, <1>12, <1>13, <1>14, <1>15, <1>16, <1>17, <1>18, <1>19, <1>20, <1>21, <1>22, <1>23, <1>24, <1>25 DEF Step, PortActions

LEMMA PortKept ==
    ASSUME TypeOK, PortHeld, NEW p \in Procs, port' = port, pc[p] \notin Sits, Away(p)
    PROVE  PortHeld'
BY DEF TypeOK, PortHeld, Away, At, Sits

LEMMA PortStep ==
    ASSUME TypeOK, PortHeld, NEW p \in Procs, Step(p)
    PROVE  PortHeld'
<1> USE ProcsAssumption DEF TypeOK, PortHeld, At, Labels
<1>1. CASE TryAcquire(p)
  BY <1>1 DEF TryAcquire, Goto
<1>2. CASE ReleaseLock(p)
  BY <1>2 DEF ReleaseLock, Goto
<1>3. CASE Probe(p)
  BY <1>3 DEF Probe, Goto
<1>4. CASE ProbeDone(p)
  BY <1>4 DEF ProbeDone, Goto
<1>5. CASE Listen(p)
  BY <1>5 DEF Listen, LoginFailed, Goto, Exit
<1>6. CASE Callback(p)
  BY <1>6 DEF Callback, LoginFailed, Goto, Exit
<1>7. CASE ~PortActions(p)
  BY <1>7, QuietSteps, PortKept
<1>8. QED
  BY <1>1, <1>2, <1>3, <1>4, <1>5, <1>6, <1>7 DEF PortActions

(* No invocation forgets the callback port or uses another's, for any      *)
(* number of invocations and even when they are killed.                    *)
THEOREM PortExclusive == Spec => []PortHeld
<1>1. Init => PortHeld
  BY ProcsAssumption DEF Init, PortHeld
<1>2. TypeOK /\ PortHeld /\ [Next]_vars => PortHeld'
  <2> SUFFICES ASSUME TypeOK, PortHeld, [Next]_vars PROVE PortHeld'
    OBVIOUS
  <2>1. CASE UNCHANGED vars
    BY <2>1 DEF vars, PortHeld
  <2>2. ASSUME NEW p \in Procs, Start(p) PROVE PortHeld'
    <3>1. \A c \in Commands : Entry(c)[2] \in Labels \ Sits
      BY CommandsAssumption DEF Entry, Labels, Sits, AllCommands
    <3>2. Away(p) /\ port' = port /\ pc[p] \notin Sits
      BY <2>2, <3>1 DEF Start, Away, Sits
    <3>3. QED
      BY <3>2, PortKept
  <2>3. ASSUME NEW p \in Procs, Crash(p) PROVE PortHeld'
    BY <2>3, ProcsAssumption DEF Crash, Exit, At, PortHeld, TypeOK, Labels
  <2>4. CASE Environment
    BY <2>3, <2>4 DEF Environment, PortHeld, CredentialsExpire, TokenAges, IntervalPasses,
                      UsageChanges, Revoke
  <2>5. QED
    BY <2>1, <2>2, <2>4, PortStep DEF Next
<1>3. QED
  BY <1>1, <1>2, TypeCorrect, PTL DEF Spec

-----------------------------------------------------------------------------
(* CredProcess implements CredentialGate, and what follows from the        *)
(* control flow alone: which paths may mint, clear and log in.             *)

FlowTypes ==
    /\ pc \in [Procs -> Labels]
    /\ cmd \in [Procs -> AllCommands \cup {"none"}]
    /\ fn \in [Procs -> Functions]
    /\ src \in [Procs -> Sources]
    /\ verdict \in [Procs -> Verdicts]

(* Only p moves.                                                           *)
Frame(p) ==
    /\ pc' = [pc EXCEPT ![p] = pc'[p]]
    /\ cmd' = [cmd EXCEPT ![p] = cmd'[p]]
    /\ fn' = [fn EXCEPT ![p] = fn'[p]]
    /\ src' = [src EXCEPT ![p] = src'[p]]
    /\ verdict' = [verdict EXCEPT ![p] = verdict'[p]]

LEMMA FlowKept ==
    ASSUME FlowTypes, ControlFlow, NEW p \in Procs, Frame(p), Flow(p)'
    PROVE  ControlFlow'
BY DEF FlowTypes, ControlFlow, Flow, Callers, Places, Judged, Frame

LEMMA GotoFrame ==
    ASSUME FlowTypes, NEW p \in Procs, NEW l, Goto(p, l) PROVE Frame(p)
BY DEF FlowTypes, Goto, At, Frame

LEMMA CallFrame ==
    ASSUME FlowTypes, NEW p \in Procs, NEW f, NEW l, Call(p, f, l) PROVE Frame(p)
BY DEF FlowTypes, Call, At, Frame

LEMMA ExitFrame ==
    ASSUME FlowTypes, NEW p \in Procs, NEW r, Exit(p, r) PROVE Frame(p)
BY DEF FlowTypes, Exit, At, Frame

LEMMA ExitFlow ==
    ASSUME FlowTypes, NEW p \in Procs, NEW r, Exit(p, r) PROVE Frame(p) /\ Flow(p)'
BY ExitFrame DEF FlowTypes, Exit, At, Flow, Callers, Places, Judged, Minting, Login, Clearing

LEMMA ServeFlow ==
    ASSUME FlowTypes, NEW p \in Procs, Flow(p), verdict[p] # "block",
           fn[p] \in {"run", "recheck", "desktop"}, Serve(p)
    PROVE  Frame(p) /\ Flow(p)'
<1>1. CASE cmd[p] = "desktop" /\ fn[p] # "desktop"
  BY <1>1, GotoFrame DEF FlowTypes, Serve, Goto, At, Flow, Callers, Places, Judged, Minting, Clearing
<1>2. CASE ~(cmd[p] = "desktop" /\ fn[p] # "desktop")
  BY <1>2, ExitFlow DEF Serve
<1>3. QED
  BY <1>1, <1>2

LEMMA FallBackFlow ==
    ASSUME FlowTypes, NEW p \in Procs, Flow(p), verdict[p] # "block", fn[p] = "desktop", FallBack(p)
    PROVE  Frame(p) /\ Flow(p)'
<1>1. CASE cmd[p] = "desktop"
  BY <1>1, CallFrame DEF FlowTypes, FallBack, Call, At, Flow, Callers, Places, Judged, Minting, Clearing
<1>2. CASE cmd[p] # "desktop"
  BY <1>2, ExitFlow DEF FallBack
<1>3. QED
  BY <1>1, <1>2

LEMMA RefreshUnavailableFlow ==
    ASSUME FlowTypes, NEW p \in Procs, Flow(p), verdict[p] # "block", RefreshUnavailable(p)
    PROVE  Frame(p) /\ Flow(p)'
<1>1. CASE fn[p] \in {"run", "monitor"} /\ Goto(p, "listen")
  BY <1>1, GotoFrame DEF FlowTypes, Goto, At, Flow, Callers, Places, Judged, Login, Minting, Clearing
<1>2. QED
  BY <1>1, ServeFlow, ExitFlow, FallBackFlow DEF RefreshUnavailable

LEMMA StepFlow ==
    ASSUME FlowTypes, NEW p \in Procs, Flow(p), Step(p)
    PROVE  Frame(p) /\ Flow(p)'
<1> USE DEF Flow, Callers, Places, Judged, Refreshing, Login, Minting, Clearing
<1>a. fn[p] \in Functions
  BY DEF FlowTypes
<1>b. pc[p] \in {"hit", "guard", "woken", "saveRefresh"} => fn[p] = "run"
  BY <1>a DEF Functions
<1>c. pc[p] = "saveToken" /\ src[p] # "browser" => fn[p] \in {"run", "desktop"}
  BY <1>a DEF Functions
<1>d. pc[p] \notin {"answered"} \cup Clearing => verdict[p] # "block"
  OBVIOUS
<1>1. CASE NeedRefresh(p)
  BY <1>1, ExitFlow, GotoFrame DEF NeedRefresh, Goto, At, FlowTypes
<1>2. CASE ReadCache(p)
  BY <1>2, ExitFlow, GotoFrame DEF ReadCache, Goto, At, FlowTypes
<1>3. CASE CacheHit(p)
  BY <1>b, <1>d, <1>3, ServeFlow, CallFrame DEF CacheHit, Call, At, FlowTypes, ShouldRecheckQuota
<1>4. CASE TryAcquire(p)
  BY <1>4, GotoFrame DEF TryAcquire, Goto, At, FlowTypes
<1>5. CASE ReleaseLock(p)
  BY <1>5, GotoFrame DEF ReleaseLock, Goto, At, FlowTypes
<1>6. CASE RaceGuard(p)
  BY <1>b, <1>d, <1>6, ServeFlow, GotoFrame DEF RaceGuard, Goto, At, FlowTypes
<1>7. CASE Probe(p)
  BY <1>7, GotoFrame DEF Probe, Goto, At, FlowTypes
<1>8. CASE ProbeDone(p)
  BY <1>8, GotoFrame DEF ProbeDone, Goto, At, FlowTypes
<1>9. CASE WaitTimeout(p)
  BY <1>9, ExitFlow DEF WaitTimeout
<1>10. CASE Woken(p)
  BY <1>b, <1>d, <1>10, ExitFlow, ServeFlow DEF Woken
<1>11. CASE ReadToken(p)
  BY <1>11, ExitFlow, GotoFrame DEF ReadToken, Goto, Obtain, At, FlowTypes, Frame
<1>12. CASE LoadRefresh(p)
  BY <1>12, RefreshUnavailableFlow DEF LoadRefresh, At, FlowTypes, Frame
<1>13. CASE Exchanged(p)
  BY <1>13 DEF Exchanged, Obtain, At, FlowTypes, Frame
<1>14. CASE ExchangedInVain(p)
  BY <1>14, RefreshUnavailableFlow DEF ExchangedInVain
<1>15. CASE TransientFailure(p)
  BY <1>15, RefreshUnavailableFlow DEF TransientFailure
<1>16. CASE Rejected(p)
  BY <1>16, GotoFrame DEF Rejected, Goto, At, FlowTypes
<1>17. CASE Discard(p)
  BY <1>17, RefreshUnavailableFlow DEF Discard
<1>18. CASE KeepToken(p)
  BY <1>18, GotoFrame DEF Written, KeepToken, Goto, At, FlowTypes
<1>19. CASE KeepRefresh(p)
  BY <1>19, ExitFlow DEF Written, KeepRefresh, At, FlowTypes, Frame
<1>20. CASE Listen(p)
  BY <1>20, ExitFlow, GotoFrame DEF Listen, LoginFailed, Goto, At, FlowTypes
<1>21. CASE Callback(p)
  BY <1>21, ExitFlow, GotoFrame DEF Callback, LoginFailed, Goto, At, FlowTypes
<1>22. CASE Redeem(p)
  BY <1>22, ExitFlow DEF Redeem, LoginFailed, Obtain, At, FlowTypes, Frame
<1>23. CASE CheckQuota(p)
  BY <1>23 DEF CheckQuota, At, FlowTypes, Frame, CheckResults, Answer, FailAnswer
<1>24. CASE Answered(p)
  BY <1>24, ExitFlow, ServeFlow, GotoFrame DEF Answered, Goto, At, FlowTypes
<1>25. CASE Exchange(p)
  BY <1>25, ExitFlow, FallBackFlow, GotoFrame DEF Exchange, Goto, At, FlowTypes
<1>26. CASE SaveCredentials(p)
  BY <1>26, GotoFrame DEF Written, SaveCredentials, Goto, At, FlowTypes
<1>27. CASE SaveMonitoringToken(p)
  BY <1>c, <1>d, <1>27, ExitFlow, ServeFlow, GotoFrame DEF Written, SaveMonitoringToken, Goto, At, FlowTypes
<1>28. CASE SaveRefreshToken(p)
  BY <1>b, <1>d, <1>28, ServeFlow DEF Written, SaveRefreshToken
<1>29. CASE DesktopReread(p)
  BY <1>29, ExitFlow DEF DesktopReread
<1>30. CASE ClearCredentials(p)
  BY <1>30, GotoFrame DEF ClearCredentials, Goto, At, FlowTypes
<1>31. CASE ClearRefreshToken(p)
  BY <1>31, ExitFlow DEF ClearRefreshToken
<1>32. QED
  BY <1>1, <1>2, <1>3, <1>4, <1>5, <1>6, <1>7, <1>8, <1>9, <1>10, <1>11, <1>12, <1>13, <1>14, <1>15, <1>16, <1>17, <1>18, <1>19, <1>20, <1>21, <1>22, <1>23, <1>24, <1>25, <1>26, <1>27, <1>28, <1>29, <1>30, <1>31 DEF Step

LEMMA StartFlow ==
    ASSUME FlowTypes, NEW p \in Procs, Flow(p), Start(p)
    PROVE  Frame(p) /\ Flow(p)'
<1>1. PICK c \in Commands :
        /\ cmd' = [cmd EXCEPT ![p] = c]
        /\ fn' = [fn EXCEPT ![p] = Entry(c)[1]]
        /\ At(p, Entry(c)[2])
  BY DEF Start
<1>2. /\ c \in {"run", "refreshIfNeeded"} => Entry(c)[1] = "run" /\ Entry(c)[2] \in {"readCache", "needRefresh"}
      /\ c \in {"desktop", "desktopSilent"} => Entry(c) = <<"desktop", "readCache">>
      /\ c \in {"monitor", "mcp", "show"} => Entry(c) = <<c, "readToken">>
      /\ c = "clear" => Entry(c) = <<"clear", "clearCreds">>
  BY DEF Entry
<1>3. c \in AllCommands
  BY CommandsAssumption
<1>4. QED
  BY <1>1, <1>2, <1>3 DEF Start, At, FlowTypes, Frame, AllCommands, Flow, Callers, Places, Judged,
     Refreshing, Login, Minting, Clearing

THEOREM FlowInvariant == Spec => []ControlFlow
<1>1. Init => ControlFlow
  BY DEF Init, ControlFlow, Flow, Callers, Places, Judged, Minting, Clearing
<1>2. TypeOK /\ ControlFlow /\ [Next]_vars => ControlFlow'
  <2> SUFFICES ASSUME TypeOK, ControlFlow, [Next]_vars PROVE ControlFlow'
    OBVIOUS
  <2>1. FlowTypes
    BY DEF TypeOK, FlowTypes
  <2>2. CASE UNCHANGED vars
    BY <2>2 DEF vars, ControlFlow, Flow, Callers, Places, Judged
  <2>3. ASSUME NEW p \in Procs, Start(p) \/ Step(p) PROVE ControlFlow'
    <3>1. Flow(p)
      BY DEF ControlFlow
    <3>2. QED
      BY <2>1, <2>3, <3>1, StartFlow, StepFlow, FlowKept
  <2>4. ASSUME NEW p \in Procs, Crash(p) PROVE ControlFlow'
    BY <2>1, <2>4, ExitFlow, FlowKept DEF Crash
  <2>5. CASE Environment
    BY <2>4, <2>5 DEF Environment, CredentialsExpire, TokenAges, IntervalPasses,
                UsageChanges, Revoke, ControlFlow, Flow, Callers, Places, Judged
  <2>6. QED
    BY <2>2, <2>3, <2>5 DEF Next
<1>3. QED
  BY <1>1, <1>2, TypeCorrect, PTL DEF Spec


-----------------------------------------------------------------------------
(* The refinement.  Permitted says in terms of Session which moves of p    *)
(* the gate allows.                                                        *)

Sessions == [p \in Procs |-> Session(p)]

Ends(p, r) == Session(p)' = "out" /\ outcome' = [outcome EXCEPT ![p] = r] /\ creds' = creds

Becomes(p, s, t) ==
    Session(p) = s /\ Session(p)' = t /\ outcome' = outcome /\ creds' = creds

Permitted(p) ==
    \/ Session(p)' = Session(p) /\ outcome' = outcome /\ creds' \in {creds, FALSE}
    \/ Becomes(p, "allowed", "in") \/ Becomes(p, "holding", "in")
    \/ Becomes(p, "in", "allowed")
    \/ Becomes(p, "in", "refused") \/ Becomes(p, "holding", "refused")
    \/ Becomes(p, "in", "holding") /\ creds
    \/ /\ Session(p) = "allowed" /\ Session(p)' = "holding"
       /\ outcome' = outcome /\ creds' \in {creds, TRUE}
    \/ Ends(p, "fail") /\ Session(p) # "out"
    \/ Ends(p, "ok") /\ Session(p) = "in"
    \/ Ends(p, "creds") /\ (Session(p) = "holding" \/ (Session(p) = "in" /\ creds))
    \/ /\ Session(p) = "out" /\ Session(p)' = "in" /\ creds' = creds
       /\ outcome' = [outcome EXCEPT ![p] = "none"]

LEMMA SessionMoves ==
    ASSUME FlowTypes, NEW p \in Procs, Frame(p)
    PROVE  Sessions' = [Sessions EXCEPT ![p] = Session(p)']
<1>1. \A q \in Procs \ {p} : Session(q)' = Session(q)
  BY DEF FlowTypes, Frame, Session, Holding
<1>2. QED
  BY <1>1 DEF Sessions

LEMMA GateAllows ==
    ASSUME FlowTypes, NEW p \in Procs, Frame(p), Permitted(p)
    PROVE  [Gate!Next]_(Gate!vars)
<1>1. Sessions' = [Sessions EXCEPT ![p] = Session(p)'] /\ Sessions[p] = Session(p)
  BY SessionMoves DEF Sessions
<1>2. Sessions \in [Procs -> {"out", "in", "allowed", "refused", "holding"}]
  BY DEF Sessions, Session
<1> USE <1>1, <1>2 DEF Gate!Next, Gate!vars, Gate!Become, Gate!End, Sessions
<1>3. CASE Session(p)' = Session(p) /\ outcome' = outcome /\ creds' \in {creds, FALSE}
  <2>1. Sessions' = Sessions
    BY <1>3
  <2>2. QED
    BY <1>3, <2>1 DEF Gate!Empty
<1>4. CASE Becomes(p, "allowed", "in") \/ Becomes(p, "holding", "in")
  BY <1>4 DEF Becomes, Gate!Drop
<1>5. CASE Becomes(p, "in", "allowed") \/ Becomes(p, "in", "refused") \/ Becomes(p, "holding", "refused")
  BY <1>5 DEF Becomes, Gate!Ask
<1>6. CASE Becomes(p, "in", "holding") /\ creds
  BY <1>6 DEF Becomes, Gate!Take
<1>7. CASE /\ Session(p) = "allowed" /\ Session(p)' = "holding"
           /\ outcome' = outcome /\ creds' \in {creds, TRUE}
  BY <1>7 DEF Gate!Mint
<1>8. CASE (Ends(p, "fail") /\ Session(p) # "out") \/ (Ends(p, "ok") /\ Session(p) = "in")
  BY <1>8 DEF Ends, Gate!Leave
<1>9. CASE Ends(p, "creds") /\ (Session(p) = "holding" \/ (Session(p) = "in" /\ creds))
  BY <1>9 DEF Ends, Gate!HandOut, Gate!Take
<1>10. CASE /\ Session(p) = "out" /\ Session(p)' = "in" /\ creds' = creds
            /\ outcome' = [outcome EXCEPT ![p] = "none"]
  BY <1>10 DEF Gate!Enter
<1>11. QED
  BY <1>3, <1>4, <1>5, <1>6, <1>7, <1>8, <1>9, <1>10 DEF Permitted

(* How the shared continuations look from the gate.                        *)
LEMMA ExitPermitted ==
    ASSUME FlowTypes, NEW p \in Procs, NEW r, Exit(p, r), creds' = creds
    PROVE  Ends(p, r)
BY DEF FlowTypes, Exit, At, Ends, Session

LEMMA ServePermitted ==
    ASSUME FlowTypes, NEW p \in Procs, Serve(p), creds' = creds, Flow(p), pc[p] # "idle",
           pc[p] # "reread", verdict[p] # "block",
           Session(p) = "holding" \/ (Session(p) = "in" /\ creds)
    PROVE  Permitted(p)
<1>1. CASE cmd[p] = "desktop" /\ fn[p] # "desktop"
  <2>1. Session(p)' = "in" /\ outcome' = outcome
    BY <1>1 DEF FlowTypes, Serve, Goto, At, Session, Holding
  <2>2. QED
    BY <2>1 DEF Permitted, Becomes
<1>2. CASE ~(cmd[p] = "desktop" /\ fn[p] # "desktop")
  BY <1>2, ExitPermitted DEF Serve, Permitted
<1>3. QED
  BY <1>1, <1>2

LEMMA FallBackPermitted ==
    ASSUME FlowTypes, NEW p \in Procs, FallBack(p), creds' = creds,
           pc[p] # "idle", verdict[p] # "block", Session(p) \in {"in", "allowed"}
    PROVE  Permitted(p)
<1>1. CASE cmd[p] = "desktop"
  <2>1. Session(p)' = "in" /\ outcome' = outcome
    BY <1>1 DEF FlowTypes, FallBack, Call, At, Session, Holding
  <2>2. QED
    BY <2>1 DEF Permitted, Becomes
<1>2. CASE cmd[p] # "desktop"
  BY <1>2, ExitPermitted DEF FallBack, Permitted
<1>3. QED
  BY <1>1, <1>2

LEMMA RefreshUnavailablePermitted ==
    ASSUME FlowTypes, NEW p \in Procs, RefreshUnavailable(p), creds' = creds, Flow(p),
           pc[p] \in {"loadRefresh", "exchange", "discard"}, verdict[p] # "block"
    PROVE  Permitted(p)
<1>1. fn[p] = "recheck" => Session(p) = "holding"
  BY DEF Session, Holding
<1>2. fn[p] # "recheck" => Session(p) = "in"
  BY DEF Session, Holding
<1>3. CASE fn[p] \in {"run", "monitor"} /\ Goto(p, "listen")
  BY <1>2, <1>3 DEF FlowTypes, Goto, At, Session, Holding, Permitted
<1>4. CASE fn[p] = "recheck" /\ Serve(p)
  BY <1>1, <1>4, ServePermitted
<1>5. CASE fn[p] = "mcp" /\ Exit(p, "fail")
  BY <1>2, <1>5, ExitPermitted DEF Permitted
<1>6. CASE fn[p] = "desktop" /\ FallBack(p)
  BY <1>2, <1>6, FallBackPermitted
<1>7. QED
  BY <1>3, <1>4, <1>5, <1>6 DEF RefreshUnavailable

LEMMA StepPermitted ==
    ASSUME FlowTypes, NEW p \in Procs, Flow(p), Step(p)
    PROVE  Permitted(p)
<1>a. fn[p] \in Functions /\ verdict[p] \in Verdicts
  BY DEF FlowTypes
<1>b. verdict[p] = "block" => pc[p] \in {"answered"} \cup Clearing
  BY DEF Flow, Judged
<1>c. pc[p] \in Login \cup Minting \cup {"needRefresh", "readCache", "saveToken", "saveRefresh"}
        => fn[p] # "recheck"
  BY DEF Flow, Places, Refreshing, Clearing, Login, Minting
<1>d. pc[p] \in Minting => fn[p] \in {"run", "desktop"} /\ verdict[p] = "allow"
  BY <1>a DEF Flow, Callers, Places, Judged, Refreshing, Clearing, Login, Minting, Functions
<1>e. pc[p] = "saveToken" /\ src[p] # "browser" => fn[p] \in {"run", "desktop"}
  BY <1>a DEF Flow, Callers, Places, Judged, Refreshing, Clearing, Functions
<1>f. pc[p] \in {"saveRefresh", "needRefresh", "hit", "guard", "woken", "reread"} => fn[p] \in {"run", "recheck"}
  BY <1>a DEF Flow, Callers, Places, Judged, Refreshing, Clearing, Login, Minting, Functions
<1> USE <1>b DEF Clearing
<1>1. CASE NeedRefresh(p)
  BY <1>1, <1>c, ExitPermitted DEF NeedRefresh, Permitted, Session, Holding, Goto, At, FlowTypes
<1>2. CASE ReadCache(p)
  <2>1. Session(p) = "in"
    BY <1>2, <1>c DEF ReadCache, Session, Holding
  <2>2. creds' = creds /\ pc[p] = "readCache"
    BY <1>2 DEF ReadCache
  <2>3. CASE creds /\ fn[p] = "run" /\ Goto(p, "hit")
    <3>1. Session(p)' = "holding" /\ outcome' = outcome
      BY <2>2, <2>3 DEF Goto, At, FlowTypes, Session, Holding
    <3>2. QED
      BY <2>1, <2>2, <2>3, <3>1 DEF Permitted, Becomes
  <2>4. CASE creds /\ fn[p] = "desktop" /\ Exit(p, "creds")
    BY <2>1, <2>2, <2>4, ExitPermitted DEF Permitted
  <2>5. CASE ~creds /\ fn[p] \in {"run", "desktop"} /\ Goto(p, pc'[p]) /\ pc'[p] \in {"acquire", "loadRefresh"}
    <3>1. Session(p)' = "in" /\ outcome' = outcome
      BY <2>2, <2>5 DEF Goto, At, FlowTypes, Session, Holding
    <3>2. QED
      BY <2>1, <2>2, <3>1 DEF Permitted
  <2>6. QED
    BY <1>2, <2>3, <2>4, <2>5 DEF ReadCache, Goto, At, FlowTypes
<1>3. CASE CacheHit(p)
  BY <1>3, ServePermitted DEF CacheHit, Permitted, Session, Holding, Call, At, FlowTypes
<1>4. CASE TryAcquire(p)
  BY <1>4 DEF TryAcquire, Permitted, Session, Holding, Goto, At, FlowTypes
<1>5. CASE ReleaseLock(p)
  BY <1>5 DEF ReleaseLock, Permitted, Session, Holding, Goto, At, FlowTypes
<1>6. CASE RaceGuard(p)
  BY <1>6, ServePermitted DEF RaceGuard, Permitted, Session, Holding, Goto, At, FlowTypes
<1>7. CASE Probe(p)
  BY <1>7 DEF Probe, Permitted, Session, Holding, Goto, At, FlowTypes
<1>8. CASE ProbeDone(p)
  BY <1>8 DEF ProbeDone, Permitted, Session, Holding, Goto, At, FlowTypes
<1>9. CASE WaitTimeout(p)
  BY <1>9, ExitPermitted DEF WaitTimeout, Permitted, Session, Holding
<1>10. CASE Woken(p)
  BY <1>10, ExitPermitted, ServePermitted DEF Woken, Permitted, Session, Holding
<1>11. CASE ReadToken(p)
  BY <1>11, ExitPermitted DEF ReadToken, Permitted, Session, Holding, Goto, Obtain, At, FlowTypes
<1>12. CASE LoadRefresh(p)
  BY <1>12, RefreshUnavailablePermitted DEF LoadRefresh, Permitted, Session, Holding, At, FlowTypes
<1>13. CASE Exchanged(p)
  BY <1>13 DEF Exchanged, Permitted, Session, Holding, Obtain, At, FlowTypes
<1>14. CASE ExchangedInVain(p)
  BY <1>14, RefreshUnavailablePermitted DEF ExchangedInVain, Permitted, Session, Holding
<1>15. CASE TransientFailure(p)
  BY <1>15, RefreshUnavailablePermitted DEF TransientFailure, Permitted, Session, Holding
<1>16. CASE Rejected(p)
  BY <1>16 DEF Rejected, Permitted, Session, Holding, Goto, At, FlowTypes
<1>17. CASE Discard(p)
  BY <1>17, RefreshUnavailablePermitted DEF Discard, Permitted, Session, Holding
<1>18. CASE KeepToken(p)
  BY <1>18 DEF Written, KeepToken, Permitted, Session, Holding, Goto, At, FlowTypes
<1>19. CASE KeepRefresh(p)
  BY <1>19, ExitPermitted DEF Written, KeepRefresh, Permitted, Session, Holding, At, FlowTypes
<1>20. CASE Listen(p)
  BY <1>20, ExitPermitted DEF Listen, LoginFailed, Permitted, Session, Holding, Goto, At, FlowTypes
<1>21. CASE Callback(p)
  BY <1>21, ExitPermitted DEF Callback, LoginFailed, Permitted, Session, Holding, Goto, At, FlowTypes
<1>22. CASE Redeem(p)
  <2>1. Session(p) = "in" /\ creds' = creds /\ pc[p] = "redeem"
    BY <1>22, <1>c DEF Redeem, Session, Holding, Login
  <2>2. CASE Obtain(p, "browser", IF fn[p] = "run" THEN "check" ELSE "saveToken")
    <3>1. fn[p] \notin {"desktop", "recheck"}
      BY <2>1 DEF Flow, Places, Refreshing, Minting
    <3>2. Session(p)' = "in" /\ outcome' = outcome
      BY <2>1, <2>2, <3>1 DEF Obtain, At, FlowTypes, Session, Holding
    <3>3. QED
      BY <2>1, <3>2 DEF Permitted
  <2>3. CASE LoginFailed(p)
    BY <2>1, <2>3, ExitPermitted DEF LoginFailed, Permitted
  <2>4. QED
    BY <1>22, <2>2, <2>3 DEF Redeem
<1>23. CASE CheckQuota(p)
  <2>1. creds' = creds /\ outcome' = outcome /\ fn' = fn /\ pc[p] = "check"
    BY <1>23 DEF CheckQuota
  <2>2. CASE ~QuotaConfigured
    <3>1. fn[p] # "recheck"
      BY <2>2 DEF Flow, Judged
    <3>2. Session(p) = "in" /\ Session(p)' = "allowed"
      BY <1>23, <2>1, <2>2, <3>1 DEF CheckQuota, At, FlowTypes, Session, Holding
    <3>3. QED
      BY <2>1, <3>2 DEF Permitted, Becomes
  <2>3. CASE QuotaConfigured
    <3>1. pc'[p] = "answered" /\ verdict'[p] \in {"allow", "block"}
      BY <1>23, <2>3 DEF CheckQuota, At, FlowTypes, CheckResults, Answer, FailAnswer
    <3>2. Session(p) \in {"in", "holding"} /\ (Session(p) = "holding" <=> fn[p] = "recheck")
      BY <2>1 DEF Session, Holding
    <3>3. Session(p)' = IF verdict'[p] = "block" THEN "refused"
                        ELSE IF fn[p] = "recheck" THEN "holding" ELSE "allowed"
      BY <2>1, <3>1 DEF Session, Holding
    <3>4. QED
      BY <2>1, <3>1, <3>2, <3>3 DEF Permitted, Becomes
  <2>4. QED
    BY <2>2, <2>3
<1>24. CASE Answered(p)
  BY <1>24, ExitPermitted, ServePermitted DEF Answered, Permitted, Session, Holding, Goto, At, FlowTypes
<1>25. CASE Exchange(p)
  <2>1. Session(p) = "allowed" /\ creds' = creds /\ pc[p] = "sts" /\ verdict[p] = "allow"
    BY <1>25, <1>c, <1>d DEF Exchange, Session, Holding, Minting
  <2>2. CASE Goto(p, pc'[p]) /\ pc'[p] \in {"saveCreds", "loadRefresh", "listen", "clearCreds"}
    <3>1. Session(p)' = (IF pc'[p] = "saveCreds" THEN "allowed" ELSE "in") /\ outcome' = outcome
      BY <2>1, <2>2, <1>c DEF Goto, At, FlowTypes, Session, Holding, Minting
    <3>2. QED
      BY <2>1, <3>1 DEF Permitted, Becomes
  <2>3. CASE FallBack(p)
    BY <2>1, <2>3, FallBackPermitted
  <2>4. CASE Exit(p, "fail")
    BY <2>1, <2>4, ExitPermitted DEF Permitted
  <2>5. QED
    BY <1>25, <2>2, <2>3, <2>4 DEF Exchange, Goto, At, FlowTypes
<1>26. CASE SaveCredentials(p)
  <2>1. /\ pc[p] = "saveCreds" /\ pc'[p] = "saveToken" /\ verdict' = verdict /\ fn' = fn
        /\ outcome' = outcome /\ creds' \in {creds, TRUE}
    BY <1>26 DEF Written, SaveCredentials, Goto, At, FlowTypes
  <2>2. Session(p) = "allowed" /\ Session(p)' = "holding"
    BY <2>1, <1>c, <1>d DEF Session, Holding, Minting
  <2>3. QED
    BY <2>1, <2>2 DEF Permitted
<1>27. CASE SaveMonitoringToken(p)
  <2>1. pc[p] = "saveToken" /\ creds' = creds
    BY <1>27 DEF Written, SaveMonitoringToken
  <2>2. CASE src[p] = "browser" /\ fn[p] = "run" /\ Goto(p, "saveRefresh")
    BY <2>1, <2>2 DEF Goto, At, FlowTypes, Session, Holding, Permitted
  <2>3. CASE src[p] # "browser" /\ Serve(p)
    <3>1. fn[p] \in {"run", "desktop"} /\ Session(p) = "holding"
      BY <2>1, <2>3, <1>e DEF Session, Holding
    <3>2. QED
      BY <2>1, <2>3, <3>1, ServePermitted
  <2>4. CASE fn[p] \in {"monitor", "show"} /\ Exit(p, "ok")
    <3>1. Session(p) = "in"
      BY <2>1, <2>4 DEF Session, Holding
    <3>2. QED
      BY <2>1, <2>4, <3>1, ExitPermitted DEF Permitted
  <2>5. QED
    BY <1>27, <2>2, <2>3, <2>4 DEF Written, SaveMonitoringToken
<1>28. CASE SaveRefreshToken(p)
  <2>1. Session(p) = "holding"
    BY <1>28, <1>c, <1>f DEF Written, SaveRefreshToken, Session, Holding
  <2>2. QED
    BY <1>28, <2>1, ServePermitted DEF Written, SaveRefreshToken
<1>29. CASE DesktopReread(p)
  BY <1>29, ExitPermitted DEF DesktopReread, Permitted, Session, Holding
<1>30. CASE ClearCredentials(p)
  BY <1>30 DEF ClearCredentials, Permitted, Session, Holding, Goto, At, FlowTypes
<1>31. CASE ClearRefreshToken(p)
  <2>1. pc[p] = "clearRefresh" /\ creds' = creds /\ Session(p) # "out"
    BY <1>31 DEF ClearRefreshToken, Session
  <2>2. CASE cmd[p] = "clear"
    <3>1. fn[p] = "clear" /\ verdict[p] = "none"
      BY <1>a, <2>2 DEF Flow, Callers, Judged, Functions
    <3>2. Session(p) = "in"
      BY <2>1, <3>1 DEF Session, Holding
    <3>3. QED
      BY <1>31, <2>1, <2>2, <3>2, ExitPermitted DEF ClearRefreshToken, Permitted
  <2>3. CASE cmd[p] # "clear"
    BY <1>31, <2>1, <2>3, ExitPermitted DEF ClearRefreshToken, Permitted
  <2>4. QED
    BY <2>2, <2>3
<1>32. QED
  BY <1>1, <1>2, <1>3, <1>4, <1>5, <1>6, <1>7, <1>8, <1>9, <1>10, <1>11, <1>12, <1>13, <1>14, <1>15, <1>16, <1>17, <1>18, <1>19, <1>20, <1>21, <1>22, <1>23, <1>24, <1>25, <1>26, <1>27, <1>28, <1>29, <1>30, <1>31 DEF Step

LEMMA StartPermitted ==
    ASSUME FlowTypes, NEW p \in Procs, Flow(p), Start(p)
    PROVE  Permitted(p)
<1>1. Session(p) = "out" /\ creds' = creds /\ outcome' = [outcome EXCEPT ![p] = "none"]
  BY DEF Start, Session
<1>2. /\ Frame(p) /\ Flow(p)' /\ verdict' = verdict
  BY StartFlow DEF Start
<1>3. /\ fn[p]' \in {"run", "desktop", "monitor", "mcp", "show", "clear"}
      /\ pc[p]' \in {"readCache", "needRefresh", "readToken", "clearCreds"}
  BY CommandsAssumption DEF Start, At, Entry, FlowTypes, AllCommands
<1>4. verdict[p]' = "none"
  BY <1>2 DEF Start, Flow, Callers, Places, Judged
<1>5. Session(p)' = "in"
  BY <1>3, <1>4 DEF Session, Holding
<1>6. QED
  BY <1>1, <1>5 DEF Permitted

(* Every step of the program, and of its environment, is a step of the     *)
(* gate or changes nothing the gate sees.                                  *)
THEOREM GateRefined == Spec => ImplementsGate
<1>1. Init => Gate!Init
  BY DEF Init, Gate!Init, Session
<1>2. TypeOK /\ ControlFlow /\ [Next]_vars => [Gate!Next]_(Gate!vars)
  <2> SUFFICES ASSUME TypeOK, ControlFlow, [Next]_vars PROVE [Gate!Next]_(Gate!vars)
    OBVIOUS
  <2>1. FlowTypes
    BY DEF TypeOK, FlowTypes
  <2>2. CASE UNCHANGED vars
    BY <2>2 DEF vars, Gate!vars, Session, Holding
  <2>3. ASSUME NEW p \in Procs, Start(p) \/ Step(p) PROVE [Gate!Next]_(Gate!vars)
    <3>1. Flow(p)
      BY DEF ControlFlow
    <3>2. Frame(p) /\ Permitted(p)
      BY <2>1, <2>3, <3>1, StartFlow, StepFlow, StartPermitted, StepPermitted
    <3>3. QED
      BY <2>1, <3>2, GateAllows
  <2>4. ASSUME NEW p \in Procs, Crash(p) PROVE [Gate!Next]_(Gate!vars)
    <3>1. Frame(p) /\ Ends(p, "fail") /\ Session(p) # "out"
      BY <2>1, <2>4, ExitFrame, ExitPermitted DEF Crash, Session
    <3>2. QED
      BY <2>1, <3>1, GateAllows DEF Permitted
  <2>5. CASE Environment
    <3>1. CASE \E p \in Procs : Crash(p)
      BY <2>4, <3>1
    <3>2. CASE ~\E p \in Procs : Crash(p)
      <4>1. UNCHANGED control /\ creds' \in {creds, FALSE}
        BY <2>5, <3>2 DEF Environment, CredentialsExpire, TokenAges, IntervalPasses,
                          UsageChanges, Revoke
      <4>2. Sessions' = Sessions
        BY <4>1 DEF Sessions, Session, Holding
      <4>3. QED
        BY <4>1, <4>2 DEF Gate!Next, Gate!vars, Gate!Empty, Sessions
    <3>3. QED
      BY <3>1, <3>2
  <2>6. QED
    BY <2>2, <2>3, <2>5 DEF Next
<1>3. QED
  BY <1>1, <1>2, TypeCorrect, FlowInvariant, PTL DEF Spec, ImplementsGate, Gate!Spec

-----------------------------------------------------------------------------
(* What follows from the control flow for the other properties.            *)

(* No fallback of a silent entry point reaches the browser login.          *)
THEOREM SilentNeverLogsIn == Spec => []SilentStaysSilent
<1>1. TypeOK /\ ControlFlow => SilentStaysSilent
  <2> SUFFICES ASSUME TypeOK, ControlFlow, NEW p \in Procs, pc[p] \in Login
               PROVE  /\ cmd[p] \notin {"mcp", "desktopSilent", "clear"}
                      /\ fn[p] \in {"run", "monitor", "show"}
    BY DEF SilentStaysSilent, Login
  <2>1. Flow(p) /\ fn[p] \in Functions
    BY DEF ControlFlow, TypeOK
  <2>2. fn[p] \in {"run", "monitor", "show"}
    BY <2>1 DEF Flow, Callers, Places, Functions, Login, Refreshing, Clearing, Minting
  <2>3. QED
    BY <2>1, <2>2 DEF Flow, Callers
<1>2. QED
  BY <1>1, TypeCorrect, FlowInvariant, PTL

(* Only SaveCredentials makes the cached credentials usable.               *)
LEMMA OthersNeverFillCache ==
    ASSUME NEW p \in Procs, Step(p), ~SaveCredentials(p)
    PROVE  creds' \in {creds, FALSE}
BY DEF Step, NeedRefresh, ReadCache, CacheHit, TryAcquire, ReleaseLock,
     RaceGuard, Probe, ProbeDone, WaitTimeout, Woken, ReadToken,
     LoadRefresh, Exchanged, ExchangedInVain, TransientFailure,
     Rejected, Discard, KeepToken, KeepRefresh, Listen, Callback,
     Redeem, CheckQuota, Answered, Exchange, SaveCredentials,
     SaveMonitoringToken, SaveRefreshToken, DesktopReread,
     ClearCredentials, ClearRefreshToken

(* AWS credentials are cached only after the quota check of the id_token   *)
(* they were minted from, by an entry point that may mint.                 *)
THEOREM QuotaAlwaysFirst == Spec => QuotaBeforeCredentials
<1>1. TypeOK /\ ControlFlow /\ [Next]_vars =>
        [~creds /\ creds' =>
            \E p \in Procs :
                /\ pc[p] = "saveCreds" /\ verdict[p] = "allow"
                /\ cmd[p] \in {"run", "refreshIfNeeded", "desktop", "desktopSilent"}]_vars
  <2> SUFFICES ASSUME TypeOK, ControlFlow, Next, ~creds, creds'
               PROVE  \E p \in Procs :
                        /\ pc[p] = "saveCreds" /\ verdict[p] = "allow"
                        /\ cmd[p] \in {"run", "refreshIfNeeded", "desktop", "desktopSilent"}
    OBVIOUS
  <2>1. PICK p \in Procs : SaveCredentials(p)
    <3>1. ~Environment
      BY DEF Environment, CredentialsExpire, TokenAges, IntervalPasses, UsageChanges, Revoke, Crash
    <3>2. \A p \in Procs : ~Start(p)
      BY DEF Start
    <3>3. QED
      BY <3>1, <3>2, OthersNeverFillCache DEF Next, TypeOK
  <2>2. pc[p] = "saveCreds" /\ Flow(p) /\ fn[p] \in Functions
    BY <2>1 DEF Written, SaveCredentials, ControlFlow, TypeOK
  <2>3. fn[p] \in {"run", "desktop"}
    BY <2>2 DEF Flow, Callers, Places, Functions, Login, Refreshing, Clearing, Minting
  <2>4. QED
    BY <2>2, <2>3 DEF Flow, Callers, Judged, Minting
<1>2. QED
  BY <1>1, TypeCorrect, FlowInvariant, PTL DEF Spec, QuotaBeforeCredentials

(* An invocation that was told "block" is recording or clearing.           *)
LEMMA BlockedSteps ==
    ASSUME NEW p \in Procs, Step(p), pc[p] \in {"answered"} \cup Clearing
    PROVE  Answered(p) \/ ClearCredentials(p) \/ ClearRefreshToken(p)
BY DEF Clearing, Step, NeedRefresh, ReadCache, CacheHit, TryAcquire, ReleaseLock,
     RaceGuard, Probe, ProbeDone, WaitTimeout, Woken, ReadToken,
     LoadRefresh, Exchanged, ExchangedInVain, TransientFailure,
     Rejected, Discard, KeepToken, KeepRefresh, Listen, Callback,
     Redeem, CheckQuota, Answered, Exchange, SaveCredentials,
     SaveMonitoringToken, SaveRefreshToken, DesktopReread,
     ClearCredentials, ClearRefreshToken

LEMMA BlockedStep ==
    ASSUME TypeOK, NEW p \in Procs, Flow(p), Step(p), verdict[p] = "block"
    PROVE  /\ pc'[p] \in {"idle", "answered", "clearCreds", "clearRefresh"}
           /\ pc'[p] = "idle" => outcome'[p] = "fail"
<1>1. Answered(p) \/ ClearCredentials(p) \/ ClearRefreshToken(p)
  BY BlockedSteps DEF Flow, Judged
<1>2. cmd[p] # "clear"
  BY DEF TypeOK, Functions, Flow, Callers, Judged
<1>3. QED
  BY <1>1, <1>2 DEF Answered, ClearCredentials, ClearRefreshToken, Goto, Exit, At, TypeOK

(* A quota block is final for the invocation it was returned to.           *)
THEOREM BlocksAreFinal == Spec => BlockIsFinal
<1>1. TypeOK /\ ControlFlow /\ [Next]_vars =>
        [\A p \in Procs : verdict[p] = "block" =>
            /\ pc'[p] \in {"idle", "answered", "clearCreds", "clearRefresh"}
            /\ pc'[p] = "idle" => outcome'[p] = "fail"]_vars
  <2> SUFFICES ASSUME TypeOK, ControlFlow, Next, NEW p \in Procs, verdict[p] = "block"
               PROVE  /\ pc'[p] \in {"idle", "answered", "clearCreds", "clearRefresh"}
                      /\ pc'[p] = "idle" => outcome'[p] = "fail"
    OBVIOUS
  <2>1. FlowTypes /\ Flow(p) /\ pc[p] \in {"answered"} \cup Clearing
    BY DEF ControlFlow, Flow, Judged, TypeOK, FlowTypes
  <2>2. ASSUME NEW q \in Procs, Start(q) \/ Step(q) \/ Crash(q), q # p
        PROVE  pc'[p] = pc[p]
    <3>1. Flow(q)
      BY DEF ControlFlow
    <3>2. Frame(q)
      BY <2>1, <2>2, <3>1, StartFlow, StepFlow, ExitFrame DEF Crash
    <3>3. QED
      BY <2>1, <2>2, <3>2 DEF Frame, FlowTypes
  <2>3. CASE Step(p)
    BY <2>1, <2>3, BlockedStep
  <2>4. CASE Crash(p)
    BY <2>4 DEF Crash, Exit, At, TypeOK
  <2>5. ~Start(p)
    BY <2>1 DEF Start, Clearing
  <2>6. CASE pc'[p] = pc[p]
    BY <2>1, <2>6 DEF Clearing
  <2>7. QED
    BY <2>2, <2>3, <2>4, <2>5, <2>6
       DEF Next, Environment, CredentialsExpire, TokenAges, IntervalPasses, UsageChanges, Revoke
<1>2. QED
  BY <1>1, TypeCorrect, FlowInvariant, PTL DEF Spec, BlockIsFinal

-----------------------------------------------------------------------------
(* No interleaving of invocations leaves a spent refresh_token on disk:    *)
(* StoredTokenLive is invariant as long as nothing outside the program     *)
(* takes tokens away (an invocation killed between a rotation and its      *)
(* save, a revocation, a rotation whose response is not used, a rotated    *)
(* token that cannot be written).                                          *)

NoTokenFaults == Faults \cap {"crash", "revoke", "noIdToken", "lostReply", "writeFails"} = {}

Keeping == {"keepToken", "keepRefresh"}

(* p keeps the tokens it has, or ends and forgets them.                    *)
Forgets(p) ==
    /\ pc' = [pc EXCEPT ![p] = pc'[p]]
    /\ \/ pc[p] # "reread" /\ held' = held /\ fresh' = fresh
       \/ held' = [held EXCEPT ![p] = NoToken] /\ fresh' = [fresh EXCEPT ![p] = NoToken]

TokenTypes ==
    /\ pc \in [Procs -> Labels]
    /\ held \in [Procs -> RefreshTokens \cup {NoToken}]
    /\ fresh \in [Procs -> RefreshTokens \cup {NoToken}]
    /\ refresh \in RefreshTokens \cup {NoToken}
    /\ grants \subseteq RefreshTokens

LEMMA GotoForgets ==
    ASSUME TokenTypes, NEW p \in Procs, NEW l, pc[p] # "reread", Goto(p, l) PROVE Forgets(p)
BY DEF TokenTypes, Goto, At, Forgets

LEMMA CallForgets ==
    ASSUME TokenTypes, NEW p \in Procs, NEW f, NEW l, pc[p] # "reread", Call(p, f, l)
    PROVE  Forgets(p)
BY DEF TokenTypes, Call, At, Forgets

LEMMA ExitForgets ==
    ASSUME TokenTypes, NEW p \in Procs, NEW r, Exit(p, r) PROVE Forgets(p)
BY DEF TokenTypes, Exit, At, Forgets

LEMMA ServeForgets ==
    ASSUME TokenTypes, NEW p \in Procs, pc[p] # "reread", Serve(p) PROVE Forgets(p)
BY GotoForgets, ExitForgets DEF Serve

LEMMA FallBackForgets ==
    ASSUME TokenTypes, NEW p \in Procs, pc[p] # "reread", FallBack(p) PROVE Forgets(p)
BY CallForgets, ExitForgets DEF FallBack

LEMMA RefreshUnavailableForgets ==
    ASSUME TokenTypes, NEW p \in Procs, pc[p] # "reread", RefreshUnavailable(p)
    PROVE  Forgets(p)
BY GotoForgets, ServeForgets, ExitForgets, FallBackForgets DEF RefreshUnavailable

(* Steps that leave the stored token and the grants alone.                 *)
LEMMA QuietKeepsTokens ==
    ASSUME TokenTypes, TokensInFlight, NEW p \in Procs, Forgets(p),
           refresh' = refresh, grants' = grants, pc[p] \notin Keeping
    PROVE  TokensInFlight'
BY TokensAssumption
   DEF TokenTypes, TokensInFlight, StoredTokenLive, Unsaved, Forgets, Keeping

TokenActions(p) ==
    \/ LoadRefresh(p) \/ Exchanged(p) \/ Discard(p) \/ KeepToken(p) \/ KeepRefresh(p)
    \/ Redeem(p) \/ SaveRefreshToken(p) \/ ClearRefreshToken(p)

LEMMA QuietTokenSteps ==
    ASSUME TokenTypes, NoTokenFaults, NEW p \in Procs, Step(p), ~TokenActions(p)
    PROVE  Forgets(p) /\ refresh' = refresh /\ grants' = grants /\ pc[p] \notin Keeping
<1> USE DEF Keeping
<1>1. CASE NeedRefresh(p)
  BY <1>1, GotoForgets, ExitForgets DEF NeedRefresh
<1>2. CASE ReadCache(p)
  BY <1>2, GotoForgets, ExitForgets DEF ReadCache
<1>3. CASE CacheHit(p)
  BY <1>3, CallForgets, ServeForgets DEF CacheHit
<1>4. CASE TryAcquire(p)
  BY <1>4, GotoForgets DEF TryAcquire
<1>5. CASE ReleaseLock(p)
  BY <1>5, GotoForgets DEF ReleaseLock
<1>6. CASE RaceGuard(p)
  BY <1>6, GotoForgets, ServeForgets DEF RaceGuard
<1>7. CASE Probe(p)
  BY <1>7, GotoForgets DEF Probe
<1>8. CASE ProbeDone(p)
  BY <1>8, GotoForgets DEF ProbeDone
<1>9. CASE WaitTimeout(p)
  BY <1>9, ExitForgets DEF WaitTimeout
<1>10. CASE Woken(p)
  BY <1>10, ExitForgets, ServeForgets DEF Woken
<1>11. CASE ReadToken(p)
  BY <1>11, GotoForgets, ExitForgets DEF ReadToken, Obtain, At, Forgets, TokenTypes
<1>12. CASE ExchangedInVain(p)
  BY <1>12, RefreshUnavailableForgets DEF ExchangedInVain, NoTokenFaults
<1>13. CASE TransientFailure(p)
  BY <1>13, RefreshUnavailableForgets DEF TransientFailure
<1>14. CASE Rejected(p)
  BY <1>14, GotoForgets DEF Rejected
<1>15. CASE Listen(p)
  BY <1>15, GotoForgets, ExitForgets DEF Listen, LoginFailed
<1>16. CASE Callback(p)
  BY <1>16, GotoForgets, ExitForgets DEF Callback, LoginFailed
<1>17. CASE CheckQuota(p)
  BY <1>17 DEF CheckQuota, At, Forgets, TokenTypes
<1>18. CASE Answered(p)
  BY <1>18, GotoForgets, ExitForgets, ServeForgets DEF Answered
<1>19. CASE Exchange(p)
  BY <1>19, GotoForgets, ExitForgets, FallBackForgets DEF Exchange
<1>20. CASE SaveCredentials(p)
  BY <1>20, GotoForgets DEF Written, SaveCredentials
<1>21. CASE SaveMonitoringToken(p)
  BY <1>21, GotoForgets, ExitForgets, ServeForgets DEF Written, SaveMonitoringToken
<1>22. CASE DesktopReread(p)
  BY <1>22, ExitForgets DEF DesktopReread
<1>23. CASE ClearCredentials(p)
  BY <1>23, GotoForgets DEF ClearCredentials
<1>24. QED
  BY <1>1, <1>2, <1>3, <1>4, <1>5, <1>6, <1>7, <1>8, <1>9, <1>10, <1>11, <1>12, <1>13, <1>14, <1>15, <1>16, <1>17, <1>18, <1>19, <1>20, <1>21, <1>22, <1>23 DEF Step, TokenActions


LEMMA LoadRefreshTokens ==
    ASSUME TokenTypes, TokensInFlight, NEW p \in Procs, LoadRefresh(p)
    PROVE  TokensInFlight'
<1>1. CASE refresh = NoToken
  <2>1. Forgets(p) /\ pc[p] \notin Keeping
    BY <1>1, RefreshUnavailableForgets DEF LoadRefresh, Keeping
  <2>2. QED
    BY <1>1, <2>1, QuietKeepsTokens DEF LoadRefresh
<1>2. CASE refresh # NoToken
  BY <1>2 DEF LoadRefresh, At, TokenTypes, TokensInFlight, StoredTokenLive, Unsaved
<1>3. QED
  BY <1>1, <1>2

(* The exchange of the token on disk makes p the invocation about to       *)
(* replace it; that of another token spends one nobody else knows of.      *)
LEMMA ExchangedTokens ==
    ASSUME TokenTypes, TokensInFlight, NEW p \in Procs, Exchanged(p)
    PROVE  TokensInFlight'
<1>1. PICK r \in Rotation(p) : fresh' = [fresh EXCEPT ![p] = r[1]] /\ grants' = r[2]
  BY DEF Exchanged
<1>2. /\ pc' = [pc EXCEPT ![p] = "keepToken"] /\ pc[p] = "exchange"
      /\ held' = held /\ refresh' = refresh /\ held[p] \in grants
  BY DEF Exchanged, Obtain, At
<1>3. CASE r = <<NoToken, grants>>
  BY <1>1, <1>2, <1>3 DEF TokenTypes, TokensInFlight, StoredTokenLive, Unsaved
<1>4. CASE \E t \in Spare : r = <<t, (grants \ {held[p]}) \cup {t}>>
  <2>1. PICK t \in Spare : r = <<t, (grants \ {held[p]}) \cup {t}>>
    BY <1>4
  <2>2. /\ t # refresh /\ t # NoToken /\ \A q \in Procs : held[q] # t /\ fresh[q] # t
        /\ fresh' = [fresh EXCEPT ![p] = t]
        /\ grants' = (grants \ {held[p]}) \cup {t}
    BY <1>1, <2>1, TokensAssumption DEF Spare
  <2>3. StoredTokenLive'
    BY <1>2, <2>2 DEF TokenTypes, TokensInFlight, StoredTokenLive
  <2>4. ASSUME NEW q \in Procs, Unsaved(q)'
        PROVE  /\ fresh'[q] \in grants' \ {refresh'}
               /\ \A s \in Procs : held'[s] # fresh'[q]
               /\ \A s \in Procs \ {q} : fresh'[s] # fresh'[q]
    BY <1>2, <2>2, <2>4 DEF TokenTypes, TokensInFlight, Unsaved
  <2>5. QED
    BY <2>3, <2>4 DEF TokensInFlight
<1>5. QED
  BY <1>3, <1>4 DEF Rotation

LEMMA SavedTokens ==
    ASSUME TokenTypes, NoTokenFaults, TokensInFlight, NEW p \in Procs,
           KeepRefresh(p) \/ SaveRefreshToken(p)
    PROVE  TokensInFlight'
<1>1. /\ refresh' = (IF fresh[p] = NoToken THEN refresh ELSE fresh[p])
      /\ grants' = grants /\ pc[p] # "reread"
  BY DEF Written, NoTokenFaults, KeepRefresh, SaveRefreshToken
<1>2. pc' = [pc EXCEPT ![p] = pc'[p]] /\ pc'[p] \notin Keeping
  BY DEF Written, KeepRefresh, SaveRefreshToken, Serve, Exit, Goto, At, TokenTypes, Keeping
<1>3. \/ held' = held /\ fresh' = fresh /\ pc'[p] = "reread"
      \/ held' = [held EXCEPT ![p] = NoToken] /\ fresh' = [fresh EXCEPT ![p] = NoToken]
  BY DEF Written, KeepRefresh, SaveRefreshToken, Serve, Exit, Goto, At, TokenTypes
<1>4. StoredTokenLive'
  BY <1>1, <1>2, <1>3 DEF TokenTypes, TokensInFlight, StoredTokenLive, Unsaved, Keeping
<1>5. ASSUME NEW q \in Procs, Unsaved(q)'
      PROVE  /\ fresh'[q] \in grants' \ {refresh'}
             /\ \A s \in Procs : held'[s] # fresh'[q]
             /\ \A s \in Procs \ {q} : fresh'[s] # fresh'[q]
  <2>1. q # p /\ Unsaved(q) /\ fresh'[q] = fresh[q]
    BY <1>2, <1>3, <1>5 DEF TokenTypes, Unsaved
  <2>2. /\ fresh[q] \in grants \ {refresh} /\ fresh[p] # fresh[q] /\ fresh[q] # NoToken
        /\ \A s \in Procs : held[s] # fresh[q]
        /\ \A s \in Procs \ {q} : fresh[s] # fresh[q]
    BY <2>1 DEF TokensInFlight, Unsaved
  <2>3. QED
    BY <1>1, <1>3, <2>1, <2>2 DEF TokenTypes
<1>6. QED
  BY <1>4, <1>5 DEF TokensInFlight

LEMMA RedeemTokens ==
    ASSUME TokenTypes, TokensInFlight, NEW p \in Procs, Redeem(p)
    PROVE  TokensInFlight'
<1>1. CASE LoginFailed(p) /\ UNCHANGED grants
  BY <1>1, ExitForgets, QuietKeepsTokens DEF Redeem, LoginFailed, Keeping
<1>2. CASE \E t \in Spare \cup {NoToken} :
              /\ grants' = grants \cup ({t} \ {NoToken})
              /\ fresh' = [fresh EXCEPT ![p] = IF fn[p] = "run" THEN t ELSE NoToken]
              /\ At(p, pc'[p]) /\ pc'[p] # "reread" /\ held' = held
  <2>1. pc[p] = "redeem" /\ refresh' = refresh
    BY DEF Redeem
  <2>2. PICK t \in Spare \cup {NoToken} :
              /\ grants' = grants \cup ({t} \ {NoToken})
              /\ fresh' = [fresh EXCEPT ![p] = IF fn[p] = "run" THEN t ELSE NoToken]
              /\ At(p, pc'[p]) /\ pc'[p] # "reread" /\ held' = held
    BY <1>2
  <2>3. t # NoToken => t # refresh /\ \A q \in Procs : held[q] # t /\ fresh[q] # t
    BY <2>2 DEF Spare
  <2>4. QED
    BY <2>1, <2>2, <2>3 DEF At, TokenTypes, TokensInFlight, StoredTokenLive, Unsaved
<1>3. QED
  BY <1>1, <1>2 DEF Redeem, Obtain, At, TokenTypes

LEMMA ClearedTokens ==
    ASSUME TokenTypes, TokensInFlight, NEW p \in Procs, Discard(p) \/ ClearRefreshToken(p)
    PROVE  TokensInFlight'
<1>1. refresh' = NoToken /\ grants' = grants /\ pc[p] \notin Keeping
  BY DEF Discard, ClearRefreshToken, Keeping
<1>2. Forgets(p)
  BY RefreshUnavailableForgets, ExitForgets DEF Discard, ClearRefreshToken
<1>3. QED
  BY <1>1, <1>2 DEF TokenTypes, TokensInFlight, StoredTokenLive, Unsaved, Forgets

LEMMA TokenStep ==
    ASSUME TokenTypes, NoTokenFaults, TokensInFlight, NEW p \in Procs, Step(p)
    PROVE  TokensInFlight'
<1>1. CASE KeepToken(p)
  BY <1>1 DEF Written, KeepToken, Goto, At, TokenTypes, TokensInFlight, StoredTokenLive, Unsaved
<1>2. CASE ~TokenActions(p)
  BY <1>2, QuietTokenSteps, QuietKeepsTokens
<1>3. QED
  BY <1>1, <1>2, LoadRefreshTokens, ExchangedTokens, SavedTokens, RedeemTokens, ClearedTokens
     DEF TokenActions

(* A refresh_token that an invocation received and has not saved is live   *)
(* and known to nobody else, whatever the other invocations do meanwhile.  *)
LEMMA TokensStayInFlight ==
    ASSUME NoTokenFaults
    PROVE  Spec => []TokensInFlight
<1>1. Init => TokensInFlight
  BY DEF Init, TokensInFlight, StoredTokenLive, Unsaved
<1>2. TypeOK /\ TokensInFlight /\ [Next]_vars => TokensInFlight'
  <2> SUFFICES ASSUME TypeOK, TokensInFlight, [Next]_vars PROVE TokensInFlight'
    OBVIOUS
  <2>1. TokenTypes
    BY DEF TypeOK, TokenTypes
  <2>2. CASE UNCHANGED vars
    BY <2>2 DEF vars, TokensInFlight, StoredTokenLive, Unsaved
  <2>3. ASSUME NEW p \in Procs, Start(p) PROVE TokensInFlight'
    <3>1. Forgets(p) /\ pc[p] \notin Keeping
      BY <2>1, <2>3 DEF Start, At, Forgets, Keeping, TokenTypes
    <3>2. QED
      BY <2>1, <2>3, <3>1, QuietKeepsTokens DEF Start
  <2>4. CASE Environment
    BY <2>4 DEF Environment, NoTokenFaults, Revoke, Crash, CredentialsExpire, TokenAges,
                IntervalPasses, UsageChanges, TokensInFlight, StoredTokenLive, Unsaved
  <2>5. QED
    BY <2>1, <2>2, <2>3, <2>4, TokenStep DEF Next
<1>3. QED
  BY <1>1, <1>2, TypeCorrect, PTL DEF Spec

(* However the refreshes, logins and clears of any number of invocations   *)
(* interleave, the refresh_token on disk is one the provider accepts, or   *)
(* the invocation that spent it is about to replace it.                    *)
THEOREM StoredTokenStaysLive ==
    ASSUME NoTokenFaults
    PROVE  Spec => []StoredTokenLive
<1>1. TokensInFlight => StoredTokenLive
  BY DEF TokensInFlight
<1>2. QED
  BY <1>1, TokensStayInFlight, PTL

=============================================================================
