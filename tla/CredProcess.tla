---------------------------- MODULE CredProcess ----------------------------
(***************************************************************************)
(* The OIDC side of the Go credential-process (source/go/cmd/              *)
(* credential-process/main.go, desktop_helper.go and the packages under    *)
(* source/go/internal it calls).  Every invocation is a separate           *)
(* short-lived OS process; the invocations of one profile share the files  *)
(* of that profile, the OAuth callback port, the identity provider and the *)
(* quota service.  One action is one access to one of these shared things, *)
(* with the control flow up to the next access; nothing shared is held     *)
(* while an invocation sits between two actions, except the port.          *)
(***************************************************************************)
EXTENDS Naturals, FiniteSets

CONSTANTS
    Procs,           \* processes, each of which runs one invocation at a time
    NoProc,          \* the value of port when nobody listens on it
    RefreshTokens,   \* names of refresh_tokens; a name nobody refers to is reissued
    NoToken,         \* "no refresh_token": no file, or none in a response
    Commands,        \* the command lines the environment uses
    QuotaConfigured, \* cfg.QuotaAPIEndpoint # ""
    FailClosed,      \* cfg.QuotaFailMode = "closed"
    Faults           \* what may go wrong outside the program

AllCommands == {"run", "refreshIfNeeded", "desktop", "desktopSilent",
                "monitor", "mcp", "show", "clear"}

(***************************************************************************)
(* "crash": an invocation is killed between two accesses.                  *)
(* "revoke": the identity provider withdraws or expires a grant.           *)
(* "noIdToken": a refresh response rotates the token but has no id_token.  *)
(* "lostReply": a refresh takes effect but its response never arrives.     *)
(* "quotaDown": a call to the quota service fails.                         *)
(* "writeFails": a write of the credentials or of a token fails, which the *)
(* program at most logs.                                                   *)
(***************************************************************************)
AllFaults == {"crash", "revoke", "noIdToken", "lostReply", "quotaDown", "writeFails"}

ASSUME ProcsAssumption == NoProc \notin Procs
ASSUME TokensAssumption == NoToken \notin RefreshTokens
ASSUME CommandsAssumption == Commands \subseteq AllCommands
ASSUME ConfigAssumption == QuotaConfigured \in BOOLEAN /\ FailClosed \in BOOLEAN
ASSUME FaultsAssumption == Faults \subseteq AllFaults

VARIABLES
    \* The profile's files, as the program judges them when it reads them.
    creds,    \* getCachedCredentials would accept the cached AWS credentials
    token,    \* GetMonitoringToken would accept the cached id_token
    refresh,  \* the refresh_token in <profile>-refresh.json
    stamp,    \* the last quota check is less than an interval old
    \* The world.
    port,     \* who listens on the OAuth callback port
    grants,   \* the refresh_tokens the identity provider accepts
    over,     \* the quota service would refuse the user
    \* The invocations.
    pc,       \* the shared access the invocation makes next
    cmd,      \* its command line
    fn,       \* the function that called the shared helpers
    src,      \* where the id_token in hand came from
    verdict,  \* what the quota check said of the id_token in hand
    held,     \* the refresh_token tryRefreshToken presents
    fresh,    \* a refresh_token received and not saved yet
    outcome   \* how the last invocation of the process ended

disk == <<creds, token, refresh, stamp>>
world == <<port, grants, over>>
locals == <<cmd, fn, src, verdict, held, fresh, outcome>>
control == <<pc, locals>>
vars == <<disk, world, control>>

Labels == {"idle", "needRefresh", "readCache", "hit", "acquire", "locked", "guard",
           "waiting", "probed", "woken", "readToken", "loadRefresh", "exchange",
           "discard", "keepToken", "keepRefresh", "check", "answered", "sts",
           "saveCreds", "saveToken", "saveRefresh", "listen", "callback", "redeem",
           "reread", "clearCreds", "clearRefresh"}
Functions == {"none", "run", "recheck", "desktop", "monitor", "mcp", "show", "clear"}
Sources == {"none", "cached", "refreshed", "browser"}
Verdicts == {"none", "allow", "block"}
Outcomes == {"none", "creds", "ok", "fail"}

TypeOK ==
    /\ creds \in BOOLEAN /\ token \in BOOLEAN /\ stamp \in BOOLEAN
    /\ refresh \in RefreshTokens \cup {NoToken}
    /\ port \in Procs \cup {NoProc}
    /\ grants \subseteq RefreshTokens
    /\ over \in BOOLEAN
    /\ pc \in [Procs -> Labels]
    /\ cmd \in [Procs -> AllCommands \cup {"none"}]
    /\ fn \in [Procs -> Functions]
    /\ src \in [Procs -> Sources]
    /\ verdict \in [Procs -> Verdicts]
    /\ held \in [Procs -> RefreshTokens \cup {NoToken}]
    /\ fresh \in [Procs -> RefreshTokens \cup {NoToken}]
    /\ outcome \in [Procs -> Outcomes]

(* A profile nobody has signed in to yet.                                  *)
Init ==
    /\ creds = FALSE /\ token = FALSE /\ refresh = NoToken /\ stamp = FALSE
    /\ port = NoProc /\ grants = {} /\ over \in BOOLEAN
    /\ pc = [p \in Procs |-> "idle"]
    /\ cmd = [p \in Procs |-> "none"]
    /\ fn = [p \in Procs |-> "none"]
    /\ src = [p \in Procs |-> "none"]
    /\ verdict = [p \in Procs |-> "none"]
    /\ held = [p \in Procs |-> NoToken]
    /\ fresh = [p \in Procs |-> NoToken]
    /\ outcome = [p \in Procs |-> "none"]

-----------------------------------------------------------------------------
(* Where control goes next.  Each of these fixes all of "control".         *)

At(p, l) == pc' = [pc EXCEPT ![p] = l]

Goto(p, l) == At(p, l) /\ UNCHANGED locals

Call(p, f, l) ==
    /\ At(p, l)
    /\ fn' = [fn EXCEPT ![p] = f]
    /\ UNCHANGED <<cmd, src, verdict, held, fresh, outcome>>

Exit(p, r) ==
    /\ At(p, "idle")
    /\ outcome' = [outcome EXCEPT ![p] = r]
    /\ cmd' = [cmd EXCEPT ![p] = "none"]
    /\ fn' = [fn EXCEPT ![p] = "none"]
    /\ src' = [src EXCEPT ![p] = "none"]
    /\ verdict' = [verdict EXCEPT ![p] = "none"]
    /\ held' = [held EXCEPT ![p] = NoToken]
    /\ fresh' = [fresh EXCEPT ![p] = NoToken]

(* The invocation has an id_token that no quota check has seen yet.        *)
Obtain(p, s, l) ==
    /\ At(p, l)
    /\ src' = [src EXCEPT ![p] = s]
    /\ verdict' = [verdict EXCEPT ![p] = "none"]
    /\ UNCHANGED <<cmd, fn, outcome>>

(* run() returned 0: its caller is main or the desktop helper, which then  *)
(* reads the credentials back from the cache.                              *)
Serve(p) ==
    IF cmd[p] = "desktop" /\ fn[p] # "desktop"
    THEN Goto(p, "reread")
    ELSE Exit(p, "creds")

(* Mutant: the interactive flow runs in every helper context.              *)
FallBackAlways(p) == Call(p, "run", "readCache")

(* The desktop helper's silent refresh produced nothing: run the           *)
(* interactive flow when the helper context allows it.                     *)
FallBack(p) ==
    IF cmd[p] = "desktop" THEN Call(p, "run", "readCache") ELSE Exit(p, "fail")

(* tryRefreshToken returned nil.                                           *)
RefreshUnavailable(p) ==
    \/ fn[p] \in {"run", "monitor"} /\ Goto(p, "listen")
    \/ fn[p] = "recheck" /\ Serve(p)
    \/ fn[p] = "mcp" /\ Exit(p, "fail")
    \/ fn[p] = "desktop" /\ FallBack(p)

(* authenticate() failed; the monitoring entry point can still write the   *)
(* attribution headers from the caller's AWS identity.                     *)
LoginFailed(p) ==
    \/ Exit(p, "fail")
    \/ fn[p] = "monitor" /\ Exit(p, "ok")

(* Mutant: an empty refresh_token in a response counts as a new one.       *)
SpareOrEmpty == {NoToken} \cup (RefreshTokens \ {refresh})

(* A refresh_token name that no file and no invocation refers to.          *)
Spare == RefreshTokens \ ({refresh} \cup {held[q] : q \in Procs} \cup {fresh[q] : q \in Procs})

Entry(c) ==
    CASE c = "run" -> <<"run", "readCache">>
      [] c = "refreshIfNeeded" -> <<"run", "needRefresh">>
      [] c \in {"desktop", "desktopSilent"} -> <<"desktop", "readCache">>
      [] c = "monitor" -> <<"monitor", "readToken">>
      [] c = "mcp" -> <<"mcp", "readToken">>
      [] c = "show" -> <<"show", "readToken">>
      [] OTHER -> <<"clear", "clearCreds">>

(* What a file may hold after the program replaced old by new in it.       *)
Written(old, new) == {new} \cup (IF "writeFails" \in Faults THEN {old} ELSE {})

-----------------------------------------------------------------------------
(* The cache-hit fast path, the port lock and its waiters.                 *)

Start(p) ==
    /\ pc[p] = "idle"
    /\ \E c \in Commands :
        /\ cmd' = [cmd EXCEPT ![p] = c]
        /\ fn' = [fn EXCEPT ![p] = Entry(c)[1]]
        /\ At(p, Entry(c)[2])
    /\ outcome' = [outcome EXCEPT ![p] = "none"]
    /\ UNCHANGED <<disk, world, src, verdict, held, fresh>>

(* --refresh-if-needed: nothing to do while the cached credentials last.   *)
NeedRefresh(p) ==
    /\ pc[p] = "needRefresh"
    /\ IF creds THEN Exit(p, "ok") ELSE Goto(p, "readCache")
    /\ UNCHANGED <<disk, world>>

ReadCache(p) ==
    /\ pc[p] = "readCache"
    /\ \/ creds /\ fn[p] = "run" /\ Goto(p, "hit")
       \/ creds /\ fn[p] = "desktop" /\ Exit(p, "creds")
       \/ ~creds /\ fn[p] = "run" /\ Goto(p, "acquire")
       \/ ~creds /\ fn[p] = "desktop" /\ Goto(p, "loadRefresh")
    /\ UNCHANGED <<disk, world>>

ShouldRecheckQuota == QuotaConfigured /\ ~stamp

CacheHit(p) ==
    /\ pc[p] = "hit"
    /\ IF ShouldRecheckQuota THEN Call(p, "recheck", "readToken") ELSE Serve(p)
    /\ UNCHANGED <<disk, world>>

TryAcquire(p) ==
    /\ pc[p] = "acquire"
    /\ IF port = NoProc
       THEN port' = p /\ Goto(p, "locked")
       ELSE port' = port /\ Goto(p, "waiting")
    /\ UNCHANGED <<disk, grants, over>>

(* Mutant: the early return of the race guard leaks the listener.          *)
ReleaseForgotten(p) ==
    /\ pc[p] = "locked"
    /\ Goto(p, "guard")
    /\ UNCHANGED <<disk, world>>

(* "Release the port lock so the callback server can use it."              *)
ReleaseLock(p) ==
    /\ pc[p] = "locked"
    /\ port' = NoProc
    /\ Goto(p, "guard")
    /\ UNCHANGED <<disk, grants, over>>

RaceGuard(p) ==
    /\ pc[p] = "guard"
    /\ IF creds THEN Serve(p) ELSE Goto(p, "readToken")
    /\ UNCHANGED <<disk, world>>

(* WaitForRelease probes by listening on the port itself, then closes it.  *)
Probe(p) ==
    /\ pc[p] = "waiting" /\ port = NoProc
    /\ port' = p
    /\ Goto(p, "probed")
    /\ UNCHANGED <<disk, grants, over>>

ProbeDone(p) ==
    /\ pc[p] = "probed"
    /\ port' = NoProc
    /\ Goto(p, "woken")
    /\ UNCHANGED <<disk, grants, over>>

(* Mutant: no deadline.                                                    *)
WaitForEver(p) == FALSE

(* Sixty seconds went by with the port busy at every poll.                 *)
WaitTimeout(p) ==
    /\ pc[p] = "waiting"
    /\ Exit(p, "fail")
    /\ UNCHANGED <<disk, world>>

(* Mutant: once the port is free the credentials are assumed to be there.  *)
WokenServes(p) ==
    /\ pc[p] = "woken"
    /\ Serve(p)
    /\ UNCHANGED <<disk, world>>

Woken(p) ==
    /\ pc[p] = "woken"
    /\ IF creds THEN Serve(p) ELSE Exit(p, "fail")
    /\ UNCHANGED <<disk, world>>

-----------------------------------------------------------------------------
(* Obtaining an id_token: the cached one, a refresh, or the browser.       *)

ReadToken(p) ==
    /\ pc[p] = "readToken"
    /\ IF token
       THEN IF fn[p] \in {"run", "recheck"}
            THEN Obtain(p, "cached", "check") /\ UNCHANGED <<held, fresh>>
            ELSE Exit(p, "ok")
       ELSE Goto(p, IF fn[p] = "show" THEN "listen" ELSE "loadRefresh")
    /\ UNCHANGED <<disk, world>>

LoadRefresh(p) ==
    /\ pc[p] = "loadRefresh"
    /\ IF refresh = NoToken
       THEN RefreshUnavailable(p)
       ELSE /\ At(p, "exchange")
            /\ held' = [held EXCEPT ![p] = refresh]
            /\ UNCHANGED <<cmd, fn, src, verdict, fresh, outcome>>
    /\ UNCHANGED <<disk, world>>

(* The token endpoint accepts the refresh_token.  It may rotate it, in     *)
(* which case the one presented is spent.                                  *)
Rotation(p) ==
    {<<NoToken, grants>>}
    \cup {<<t, (grants \ {held[p]}) \cup {t}>> : t \in Spare}

Exchanged(p) ==
    /\ pc[p] = "exchange" /\ held[p] \in grants
    /\ \E r \in Rotation(p) :
        /\ fresh' = [fresh EXCEPT ![p] = r[1]]
        /\ grants' = r[2]
    /\ Obtain(p, "refreshed", "keepToken")
    /\ UNCHANGED <<disk, port, over, held>>

(* The exchange took effect, but the response has no id_token or was lost: *)
(* tryRefreshToken returns nil before it looks at the rotated token.       *)
ExchangedInVain(p) ==
    /\ Faults \cap {"noIdToken", "lostReply"} # {}
    /\ pc[p] = "exchange" /\ held[p] \in grants
    /\ \E r \in Rotation(p) : grants' = r[2]
    /\ RefreshUnavailable(p)
    /\ UNCHANGED <<disk, port, over>>

(* A network error, a 5xx, a misconfiguration: the token is retained.      *)
TransientFailure(p) ==
    /\ pc[p] = "exchange"
    /\ RefreshUnavailable(p)
    /\ UNCHANGED <<disk, world>>

(* invalid_grant or invalid_token.                                         *)
Rejected(p) ==
    /\ pc[p] = "exchange" /\ held[p] \notin grants
    /\ Goto(p, "discard")
    /\ UNCHANGED <<disk, world>>

(* ClearRefreshToken removes the file, whatever is in it by now.           *)
Discard(p) ==
    /\ pc[p] = "discard"
    /\ refresh' = NoToken
    /\ RefreshUnavailable(p)
    /\ UNCHANGED <<creds, token, stamp, world>>

KeepToken(p) ==
    /\ pc[p] = "keepToken"
    /\ token' \in Written(token, TRUE)
    /\ Goto(p, "keepRefresh")
    /\ UNCHANGED <<creds, refresh, stamp, world>>

(* Mutant: when there is no rotated token, the one presented is saved.     *)
KeepRefreshPresented(p) ==
    /\ pc[p] = "keepRefresh"
    /\ refresh' = IF fresh[p] = NoToken THEN held[p] ELSE fresh[p]
    /\ IF fn[p] \in {"monitor", "mcp"}
       THEN Exit(p, "ok")
       ELSE /\ At(p, "check")
            /\ held' = [held EXCEPT ![p] = NoToken]
            /\ fresh' = [fresh EXCEPT ![p] = NoToken]
            /\ UNCHANGED <<cmd, fn, src, verdict, outcome>>
    /\ UNCHANGED <<creds, token, stamp, world>>

KeepRefresh(p) ==
    /\ pc[p] = "keepRefresh"
    /\ refresh' \in Written(refresh, IF fresh[p] = NoToken THEN refresh ELSE fresh[p])
    /\ IF fn[p] \in {"monitor", "mcp"}
       THEN Exit(p, "ok")
       ELSE /\ At(p, "check")
            /\ held' = [held EXCEPT ![p] = NoToken]
            /\ fresh' = [fresh EXCEPT ![p] = NoToken]
            /\ UNCHANGED <<cmd, fn, src, verdict, outcome>>
    /\ UNCHANGED <<creds, token, stamp, world>>

(* StartCallbackServer listens on the port that was only just released.    *)
Listen(p) ==
    /\ pc[p] = "listen"
    /\ IF port = NoProc
       THEN port' = p /\ Goto(p, "callback")
       ELSE port' = port /\ LoginFailed(p)
    /\ UNCHANGED <<disk, grants, over>>

(* Mutant: the server is not shut down when the wait fails.                *)
CallbackLeaks(p) ==
    /\ pc[p] = "callback"
    /\ \/ port' = NoProc /\ Goto(p, "redeem")
       \/ port' = port /\ LoginFailed(p)
    /\ UNCHANGED <<disk, grants, over>>

(* The browser called back, or it reported an error or 300 s went by; the  *)
(* server is shut down, and with it the port is released, in either case.  *)
Callback(p) ==
    /\ pc[p] = "callback"
    /\ port' = NoProc
    /\ Goto(p, "redeem") \/ LoginFailed(p)
    /\ UNCHANGED <<disk, grants, over>>

(* ExchangeCode.  Only run() keeps the refresh_token of the response.      *)
Redeem(p) ==
    /\ pc[p] = "redeem"
    /\ \/ /\ \E t \in Spare \cup {NoToken} :
              /\ grants' = grants \cup ({t} \ {NoToken})
              /\ fresh' = [fresh EXCEPT ![p] = IF fn[p] = "run" THEN t ELSE NoToken]
          /\ Obtain(p, "browser", IF fn[p] = "run" THEN "check" ELSE "saveToken")
          /\ UNCHANGED held
       \/ LoginFailed(p) /\ UNCHANGED grants
    /\ UNCHANGED <<disk, port, over>>

-----------------------------------------------------------------------------
(* The quota check, and what it guards.                                    *)

Answer == IF over THEN "block" ELSE "allow"
FailAnswer == IF FailClosed THEN "block" ELSE "allow"

(* What quota.Check can return; failResult stands for every error.         *)
CheckResults == {Answer} \cup (IF "quotaDown" \in Faults THEN {FailAnswer} ELSE {})

(* Mutant (#761): a refreshed id_token is exchanged without a check.       *)
CheckQuotaUnlessRefreshed(p) ==
    /\ pc[p] = "check"
    /\ IF src[p] = "refreshed"
       THEN At(p, "sts") /\ UNCHANGED verdict
       ELSE /\ At(p, IF QuotaConfigured THEN "answered" ELSE "sts")
            /\ \E v \in CheckResults : verdict' = [verdict EXCEPT ![p] = v]
    /\ UNCHANGED <<disk, world, cmd, fn, src, held, fresh, outcome>>

(* enforceQuota (fn "run" or "desktop") and the call in performQuotaRecheck. *)
CheckQuota(p) ==
    /\ pc[p] = "check"
    /\ \E v \in IF QuotaConfigured THEN CheckResults ELSE {"allow"} :
        verdict' = [verdict EXCEPT ![p] = v]
    /\ At(p, IF QuotaConfigured THEN "answered" ELSE "sts")
    /\ UNCHANGED <<disk, world, cmd, fn, src, held, fresh, outcome>>

(* Mutant: a block reads like "no credentials" and falls through to login. *)
AnsweredFallsThrough(p) ==
    /\ pc[p] = "answered"
    /\ stamp' = IF verdict[p] = "allow" \/ fn[p] = "recheck" THEN TRUE ELSE stamp
    /\ \/ verdict[p] = "allow" /\ fn[p] # "recheck" /\ Goto(p, "sts")
       \/ verdict[p] = "allow" /\ fn[p] = "recheck" /\ Serve(p)
       \/ verdict[p] = "block" /\ fn[p] # "recheck" /\ Goto(p, "listen")
       \/ verdict[p] = "block" /\ fn[p] = "recheck" /\ Goto(p, "clearCreds")
    /\ UNCHANGED <<creds, token, refresh, world>>

(* enforceQuota records the check only if it allows, the re-check always;  *)
(* a re-check that blocks goes on to clear the caches.                     *)
Answered(p) ==
    /\ pc[p] = "answered"
    /\ stamp' = IF verdict[p] = "allow" \/ fn[p] = "recheck" THEN TRUE ELSE stamp
    /\ \/ verdict[p] = "allow" /\ fn[p] # "recheck" /\ Goto(p, "sts")
       \/ verdict[p] = "allow" /\ fn[p] = "recheck" /\ Serve(p)
       \/ verdict[p] = "block" /\ fn[p] # "recheck" /\ Exit(p, "fail")
       \/ verdict[p] = "block" /\ fn[p] = "recheck" /\ Goto(p, "clearCreds")
    /\ UNCHANGED <<creds, token, refresh, world>>

(* getAWSCredentials: the STS or Cognito exchange.                         *)
Exchange(p) ==
    /\ pc[p] = "sts"
    /\ \/ Goto(p, "saveCreds")
       \/ src[p] = "cached" /\ Goto(p, "loadRefresh")
       \/ src[p] = "refreshed" /\ fn[p] = "run" /\ Goto(p, "listen")
       \/ src[p] = "refreshed" /\ fn[p] = "desktop" /\ FallBack(p)
       \/ src[p] = "browser" /\ (Exit(p, "fail") \/ Goto(p, "clearCreds"))
    /\ UNCHANGED <<disk, world>>

SaveCredentials(p) ==
    /\ pc[p] = "saveCreds"
    /\ creds' \in Written(creds, TRUE)
    /\ Goto(p, "saveToken")
    /\ UNCHANGED <<token, refresh, stamp, world>>

(* The id_token in hand is written back.  One read from the cache may be   *)
(* near its end by now, or older than the one it replaces.                 *)
SaveMonitoringToken(p) ==
    /\ pc[p] = "saveToken"
    /\ token' \in IF src[p] = "cached" THEN BOOLEAN ELSE Written(token, TRUE)
    /\ \/ src[p] = "browser" /\ fn[p] = "run" /\ Goto(p, "saveRefresh")
       \/ src[p] # "browser" /\ Serve(p)
       \/ fn[p] \in {"monitor", "show"} /\ Exit(p, "ok")
    /\ UNCHANGED <<creds, refresh, stamp, world>>

SaveRefreshToken(p) ==
    /\ pc[p] = "saveRefresh"
    /\ refresh' \in Written(refresh, IF fresh[p] = NoToken THEN refresh ELSE fresh[p])
    /\ Serve(p)
    /\ UNCHANGED <<creds, token, stamp, world>>

(* The desktop helper reads back what run() cached.                        *)
DesktopReread(p) ==
    /\ pc[p] = "reread"
    /\ Exit(p, IF creds THEN "creds" ELSE "fail")
    /\ UNCHANGED <<disk, world>>

(* clearCache: the credentials first, then the refresh_token.              *)
ClearCredentials(p) ==
    /\ pc[p] = "clearCreds"
    /\ creds' = FALSE
    /\ Goto(p, "clearRefresh")
    /\ UNCHANGED <<token, refresh, stamp, world>>

ClearRefreshToken(p) ==
    /\ pc[p] = "clearRefresh"
    /\ refresh' = NoToken
    /\ Exit(p, IF cmd[p] = "clear" THEN "ok" ELSE "fail")
    /\ UNCHANGED <<creds, token, stamp, world>>

-----------------------------------------------------------------------------
(* Time, usage, the identity provider and the user's Ctrl-C.               *)

CredentialsExpire == creds /\ creds' = FALSE /\ UNCHANGED <<token, refresh, stamp, world, control>>
TokenAges == token /\ token' = FALSE /\ UNCHANGED <<creds, refresh, stamp, world, control>>
IntervalPasses == stamp /\ stamp' = FALSE /\ UNCHANGED <<creds, token, refresh, world, control>>
UsageChanges == QuotaConfigured /\ over' = ~over /\ UNCHANGED <<disk, port, grants, control>>

Revoke ==
    /\ "revoke" \in Faults
    /\ \E t \in grants : grants' = grants \ {t}
    /\ UNCHANGED <<disk, port, over, control>>

Crash(p) ==
    /\ "crash" \in Faults /\ pc[p] # "idle"
    /\ Exit(p, "fail")
    /\ port' = IF port = p THEN NoProc ELSE port
    /\ UNCHANGED <<disk, grants, over>>

Environment ==
    \/ CredentialsExpire \/ TokenAges \/ IntervalPasses \/ UsageChanges \/ Revoke
    \/ \E p \in Procs : Crash(p)

(* What an invocation does once it has started.                            *)
Step(p) ==
    \/ NeedRefresh(p) \/ ReadCache(p) \/ CacheHit(p) \/ TryAcquire(p) \/ ReleaseLock(p)
    \/ RaceGuard(p) \/ Probe(p) \/ ProbeDone(p) \/ WaitTimeout(p) \/ Woken(p)
    \/ ReadToken(p) \/ LoadRefresh(p) \/ Exchanged(p) \/ ExchangedInVain(p)
    \/ TransientFailure(p) \/ Rejected(p) \/ Discard(p) \/ KeepToken(p) \/ KeepRefresh(p)
    \/ Listen(p) \/ Callback(p) \/ Redeem(p)
    \/ CheckQuota(p) \/ Answered(p) \/ Exchange(p) \/ SaveCredentials(p)
    \/ SaveMonitoringToken(p) \/ SaveRefreshToken(p) \/ DesktopReread(p)
    \/ ClearCredentials(p) \/ ClearRefreshToken(p)

Next == Environment \/ \E p \in Procs : Start(p) \/ Step(p)

Spec == Init /\ [][Next]_vars

(* No step of an invocation waits for ever: the port wait ends after 60 s, *)
(* the callback after 300 s, and every network call has a timeout.         *)
FairSpec == Spec /\ \A p \in Procs : WF_vars(Step(p))

-----------------------------------------------------------------------------
(* Properties.                                                             *)

(* Only the holder of the port sits between a successful listen on it and  *)
(* the close: no invocation forgets to release it (the early returns of    *)
(* run(), the two ends of WaitForCallback), and none believes it has it    *)
(* when another does.                                                      *)
PortHeld ==
    \A p \in Procs : port = p <=> pc[p] \in {"locked", "probed", "callback"}

(* A quota block ends the invocation it was returned to, whatever path the *)
(* check was on (silent refresh, desktop refresh, browser login, re-check  *)
(* of cached credentials): from the block on it only records the check and *)
(* clears the caches, and it never reports success.                        *)
BlockIsFinal ==
    [][\A p \in Procs : verdict[p] = "block" =>
        /\ pc'[p] \in {"idle", "answered", "clearCreds", "clearRefresh"}
        /\ pc'[p] = "idle" => outcome'[p] = "fail"]_vars

(* #761: AWS credentials enter the cache only from an invocation whose     *)
(* quota check allowed the very id_token it exchanged; a check made on a   *)
(* token that was then replaced (failed exchange, refresh, login) does not *)
(* count, and the monitoring, MCP and diagnostic entry points never mint.  *)
QuotaBeforeCredentials ==
    [][~creds /\ creds' =>
        \E p \in Procs :
            /\ pc[p] = "saveCreds" /\ verdict[p] = "allow"
            /\ cmd[p] \in {"run", "refreshIfNeeded", "desktop", "desktopSilent"}]_vars

(* Entry points that must never open a browser (the MCP headers helper,    *)
(* the desktop helper outside its interactive context, and the re-check on *)
(* the cache-hit path, which runs on every AWS call) never reach the login *)
(* through any of the fallbacks they share with those that may.            *)
SilentStaysSilent ==
    \A p \in Procs : pc[p] \in {"listen", "callback", "redeem"} =>
        /\ cmd[p] \notin {"mcp", "desktopSilent", "clear"}
        /\ fn[p] \in {"run", "monitor", "show"}

(* With a rotating identity provider, concurrent refreshes, logins and     *)
(* clears never leave a spent refresh_token on disk: a stored token the    *)
(* provider no longer accepts is about to be replaced by the invocation    *)
(* that rotated it.  (For Faults = {}: no interleaving alone breaks it.)   *)
StoredTokenLive ==
    \/ refresh \in grants \cup {NoToken}
    \/ \E p \in Procs :
        pc[p] \in {"keepToken", "keepRefresh"} /\ held[p] = refresh /\ fresh[p] # NoToken

(* Every invocation ends: waiting for the port, for the browser or for     *)
(* another invocation's login is always bounded.                           *)
EveryInvocationEnds == \A p \in Procs : pc[p] # "idle" ~> pc[p] = "idle"
=============================================================================
