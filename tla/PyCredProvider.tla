--------------------------- MODULE PyCredProvider ---------------------------
(***************************************************************************)
(* The Python credential provider (source/credential_provider/             *)
(* __main__.py).  As in CredProcess every invocation is an OS process, and *)
(* one action is one access to what the processes share: the cached        *)
(* credentials, the cached id_token, the time of the last quota check, the *)
(* redirect port and the port of the quota page.  Unlike the Go provider   *)
(* it keeps the redirect port through the silent refresh and the login,    *)
(* has no refresh_token, and shows the user a page about the quota.        *)
(***************************************************************************)
EXTENDS FiniteSets

CONSTANTS
    Procs,
    NoProc,          \* nobody listens
    Commands,        \* the command lines the environment uses
    Reuse,           \* the lock socket has SO_REUSEADDR and the system is Linux
    QuotaConfigured, \* quota_api_endpoint is set
    FailClosed,      \* quota_fail_mode = "closed"
    Faults           \* what may go wrong outside the program

AllCommands == {"run", "refreshIfNeeded", "monitor", "clear"}

(* "crash": an invocation is killed.  "quotaDown", "writeFails": the call  *)
(* to the quota service, the saving of credentials fails.  "rejects": STS  *)
(* or Cognito refuses the id_token.                                        *)
AllFaults == {"crash", "quotaDown", "writeFails", "rejects"}

ASSUME PyProcsAssumption == NoProc \notin Procs
ASSUME PyCommandsAssumption == Commands \subseteq AllCommands
ASSUME PyConfigAssumption == {Reuse, QuotaConfigured, FailClosed} \subseteq BOOLEAN
ASSUME PyFaultsAssumption == Faults \subseteq AllFaults

VARIABLES
    creds,     \* get_cached_credentials would return credentials
    token,     \* get_monitoring_token would return an id_token
    stamp,     \* the last quota check is less than an interval old
    over,      \* the quota service would refuse the user
    bound,     \* the processes with a socket bound to the redirect port
    listening, \* the one of them that listens
    page,      \* the process that serves the quota page
    pc,        \* the shared access an invocation makes next
    path,      \* the part of the program it is in
    verdict,   \* what the quota check said of the id_token in hand
    outcome    \* how the last invocation of the process ended

files == <<creds, token, stamp>>
ports == <<bound, listening, page>>
control == <<pc, path, verdict, outcome>>
vars == <<files, over, ports, control>>

Labels == {"idle", "needRefresh", "readCache", "hit", "check", "stamp", "openPage", "page",
           "clearSts", "bind", "waiting", "probed", "woken", "cacheAgain", "silentToken",
           "exchange", "clearCreds", "clearToken", "save", "saveToken", "listen", "browser",
           "redeem", "release", "readToken"}
Paths == {"none", "run", "recheck", "silent", "login", "monitor", "clear"}
Verdicts == {"none", "allow", "warn", "block"}

TypeOK ==
    /\ {creds, token, stamp, over} \subseteq BOOLEAN
    /\ bound \subseteq Procs /\ {listening, page} \subseteq Procs \cup {NoProc}
    /\ pc \in [Procs -> Labels] /\ path \in [Procs -> Paths]
    /\ verdict \in [Procs -> Verdicts]
    /\ outcome \in [Procs -> {"none", "creds", "ok", "fail"}]

Init ==
    /\ creds = FALSE /\ token = FALSE /\ stamp = FALSE /\ over \in BOOLEAN
    /\ bound = {} /\ listening = NoProc /\ page = NoProc
    /\ pc = [p \in Procs |-> "idle"]
    /\ path = [p \in Procs |-> "none"]
    /\ verdict = [p \in Procs |-> "none"]
    /\ outcome = [p \in Procs |-> "none"]

-----------------------------------------------------------------------------
(* Where control goes next.  Each of these fixes all of "control".         *)

At(p, l) == pc' = [pc EXCEPT ![p] = l]
Goto(p, l) == At(p, l) /\ UNCHANGED <<path, verdict, outcome>>
Enter(p, f, l) == At(p, l) /\ path' = [path EXCEPT ![p] = f] /\ UNCHANGED <<verdict, outcome>>

Forget(p) ==
    /\ At(p, "idle")
    /\ path' = [path EXCEPT ![p] = "none"]
    /\ verdict' = [verdict EXCEPT ![p] = "none"]

(* A return.  The credentials are printed, but inside the "try" whose      *)
(* "finally" closes the lock socket the process goes on to that.           *)
Return(p, r) ==
    /\ outcome' = [outcome EXCEPT ![p] = r]
    /\ IF p \in bound THEN At(p, "release") /\ UNCHANGED <<path, verdict>> ELSE Forget(p)

(* An id_token that no quota check has seen yet.                           *)
Obtain(p, f, l) ==
    /\ At(p, l)
    /\ path' = [path EXCEPT ![p] = f]
    /\ verdict' = [verdict EXCEPT ![p] = "none"]
    /\ UNCHANGED outcome

(* The quota check and the page about it are over.                         *)
Continue(p) ==
    \/ verdict[p] = "block" /\ Goto(p, "clearSts")
    \/ verdict[p] # "block" /\ path[p] = "recheck" /\ Return(p, "creds")
    \/ verdict[p] # "block" /\ path[p] \in {"silent", "login"} /\ Goto(p, "exchange")

(* get_aws_credentials or save_credentials raised: the silent refresh      *)
(* gives way to the browser, after the browser there is nothing left.      *)
NoCredentials(p) ==
    \/ path[p] = "silent" /\ Goto(p, "listen")
    \/ path[p] = "login" /\ Return(p, "fail")

-----------------------------------------------------------------------------
(* main, the cache, and the periodic re-check.                             *)

Entry(c) ==
    CASE c = "run" -> <<"run", "readCache">>
      [] c = "refreshIfNeeded" -> <<"run", "needRefresh">>
      [] c = "monitor" -> <<"monitor", "readToken">>
      [] OTHER -> <<"clear", "clearCreds">>

Start(p) ==
    /\ pc[p] = "idle"
    /\ \E c \in Commands :
        At(p, Entry(c)[2]) /\ path' = [path EXCEPT ![p] = Entry(c)[1]]
    /\ outcome' = [outcome EXCEPT ![p] = "none"]
    /\ UNCHANGED <<files, over, ports, verdict>>

NeedRefresh(p) ==
    /\ pc[p] = "needRefresh"
    /\ IF creds THEN Return(p, "ok") ELSE Goto(p, "readCache")
    /\ UNCHANGED <<files, over, ports>>

ReadCache(p) ==
    /\ pc[p] = "readCache"
    /\ Goto(p, IF creds THEN "hit" ELSE "bind")
    /\ UNCHANGED <<files, over, ports>>

(* With the id_token if there is one, otherwise in the name of the AWS     *)
(* identity at hand.                                                       *)
CacheHit(p) ==
    /\ pc[p] = "hit"
    /\ IF QuotaConfigured /\ ~stamp THEN Enter(p, "recheck", "check") ELSE Return(p, "creds")
    /\ UNCHANGED <<files, over, ports>>

ReadToken(p) ==
    /\ pc[p] = "readToken"
    /\ IF token THEN Return(p, "ok") ELSE Goto(p, "bind")
    /\ UNCHANGED <<files, over, ports>>

-----------------------------------------------------------------------------
(* The quota check.                                                        *)

(* Mutant: the word of the answer is kept, which knows no warning and a    *)
(* refusal by another name.                                                *)
CheckQuotaRaw(p) ==
    /\ pc[p] = "check"
    /\ verdict' = [verdict EXCEPT ![p] = IF over THEN "exceeded" ELSE "allow"]
    /\ At(p, IF QuotaConfigured THEN "stamp" ELSE "exchange")
    /\ UNCHANGED <<files, over, ports, path, outcome>>

CheckQuota(p) ==
    /\ pc[p] = "check"
    /\ \E v \in {"allow", "warn", "block"} :
        /\ \/ ~QuotaConfigured /\ v = "allow"
           \/ QuotaConfigured /\ (v = "block") = over
           \/ QuotaConfigured /\ "quotaDown" \in Faults /\ v = IF FailClosed THEN "block" ELSE "allow"
        /\ verdict' = [verdict EXCEPT ![p] = v]
    /\ At(p, IF QuotaConfigured THEN "stamp" ELSE "exchange")
    /\ UNCHANGED <<files, over, ports, path, outcome>>

(* The time of the check is saved before its result is looked at.          *)
SaveQuotaCheckTimestamp(p) ==
    /\ pc[p] = "stamp"
    /\ stamp' = TRUE
    /\ IF verdict[p] = "allow" THEN Continue(p) ELSE Goto(p, "openPage")
    /\ UNCHANGED <<creds, token, over, ports>>

(* A page for a user who is blocked or near the limit, on the port after   *)
(* the redirect port; if that is taken, there is no page.                  *)
ShowPage(p) ==
    /\ pc[p] = "openPage"
    /\ IF page = NoProc
       THEN page' = p /\ Goto(p, "page")
       ELSE page' = page /\ Continue(p)
    /\ UNCHANGED <<files, over, bound, listening>>

(* "while not page_served": it waits until the browser has fetched it.     *)
PageServed(p) ==
    /\ pc[p] = "page"
    /\ page' = NoProc
    /\ Continue(p)
    /\ UNCHANGED <<files, over, bound, listening>>

ClearStsCredentials(p) ==
    /\ pc[p] = "clearSts"
    /\ creds' = FALSE
    /\ Goto(p, "release")
    /\ UNCHANGED <<token, stamp, over, ports>>

-----------------------------------------------------------------------------
(* The port lock.                                                          *)

(* A lock socket can be bound next to another one that does not listen yet *)
(* where SO_REUSEADDR allows that, but not next to the socket of a waiter. *)
CanBind ==
    IF Reuse
    THEN listening = NoProc /\ \A q \in bound : pc[q] # "probed"
    ELSE bound = {}

Bind(p) ==
    /\ pc[p] = "bind"
    /\ IF CanBind
       THEN bound' = bound \cup {p} /\ Goto(p, IF path[p] = "run" THEN "cacheAgain" ELSE "listen")
       ELSE bound' = bound /\ Goto(p, "waiting")
    /\ UNCHANGED <<files, over, listening, page>>

(* The wait ends when the waiter can bind the port itself.                 *)
Probe(p) ==
    /\ pc[p] = "waiting" /\ bound = {}
    /\ bound' = {p}
    /\ Goto(p, "probed")
    /\ UNCHANGED <<files, over, listening, page>>

ProbeDone(p) ==
    /\ pc[p] = "probed"
    /\ bound' = bound \ {p}
    /\ Goto(p, "woken")
    /\ UNCHANGED <<files, over, listening, page>>

(* Mutant: no deadline.                                                    *)
WaitForEver(p) == FALSE

(* Sixty seconds.                                                          *)
WaitTimeout(p) ==
    /\ pc[p] = "waiting"
    /\ IF path[p] = "run" THEN Return(p, "fail") ELSE Goto(p, "woken")
    /\ UNCHANGED <<files, over, ports>>

(* Mutant: the waiter goes on to print what it waited for.                 *)
WokenServes(p) ==
    /\ pc[p] = "woken"
    /\ Return(p, IF path[p] = "run" THEN "creds" ELSE "ok")
    /\ UNCHANGED <<files, over, ports>>

Woken(p) ==
    /\ pc[p] = "woken"
    /\ Return(p, IF path[p] = "run"
                 THEN IF creds THEN "creds" ELSE "fail"
                 ELSE IF token THEN "ok" ELSE "fail")
    /\ UNCHANGED <<files, over, ports>>

CacheAgain(p) ==
    /\ pc[p] = "cacheAgain"
    /\ IF creds THEN Return(p, "creds") ELSE Goto(p, "silentToken")
    /\ UNCHANGED <<files, over, ports>>

(* Mutant: the lock is not closed after a return.                          *)
ReleaseAfterLogin(p) ==
    /\ pc[p] = "release"
    /\ IF outcome[p] # "none" \/ verdict[p] = "block"
       THEN UNCHANGED <<bound, listening>>
       ELSE bound' = bound \ {p} /\ listening' = IF listening = p THEN NoProc ELSE listening
    /\ \/ outcome[p] # "none" /\ Forget(p) /\ UNCHANGED outcome
       \/ outcome[p] = "none" /\ verdict[p] = "block"
          /\ Forget(p) /\ outcome' = [outcome EXCEPT ![p] = "fail"]
       \/ outcome[p] = "none" /\ verdict[p] # "block"
          /\ Goto(p, IF path[p] = "monitor" THEN "saveToken" ELSE "check")
    /\ UNCHANGED <<files, over, page>>

(* The "finally".  After a login it is followed by the quota check, or by  *)
(* saving the monitoring token.                                            *)
Release(p) ==
    /\ pc[p] = "release"
    /\ bound' = bound \ {p}
    /\ listening' = IF listening = p THEN NoProc ELSE listening
    /\ \/ outcome[p] # "none" /\ Forget(p) /\ UNCHANGED outcome
       \/ outcome[p] = "none" /\ verdict[p] = "block"
          /\ Forget(p) /\ outcome' = [outcome EXCEPT ![p] = "fail"]
       \/ outcome[p] = "none" /\ verdict[p] # "block"
          /\ Goto(p, IF path[p] = "monitor" THEN "saveToken" ELSE "check")
    /\ UNCHANGED <<files, over, page>>

-----------------------------------------------------------------------------
(* The id_token: the cached one, or one from the browser.                  *)

SilentToken(p) ==
    /\ pc[p] = "silentToken"
    /\ IF token THEN Obtain(p, "silent", "check") ELSE Goto(p, "listen")
    /\ UNCHANGED <<files, over, ports>>

(* listen fails if another process that had bound the port listens first.  *)
Listen(p) ==
    /\ pc[p] = "listen"
    /\ IF listening = NoProc
       THEN listening' = p /\ Goto(p, "browser")
       ELSE listening' = listening /\ Return(p, "fail")
    /\ UNCHANGED <<files, over, bound, page>>

Callback(p) ==
    /\ pc[p] = "browser"
    /\ Goto(p, "redeem")
    /\ UNCHANGED <<files, over, ports>>

(* Five minutes went by, or the one request that is served is not the      *)
(* expected one, or the token endpoint refuses.                            *)
LoginFails(p) ==
    /\ pc[p] \in {"browser", "redeem"}
    /\ Return(p, "fail")
    /\ UNCHANGED <<files, over, ports>>

Redeem(p) ==
    /\ pc[p] = "redeem"
    /\ Obtain(p, IF path[p] = "monitor" THEN "monitor" ELSE "login", "release")
    /\ UNCHANGED <<files, over, ports>>

-----------------------------------------------------------------------------
(* Credentials.                                                            *)

Exchange(p) ==
    /\ pc[p] = "exchange"
    /\ \/ Goto(p, "save")
       \/ NoCredentials(p)
       \/ "rejects" \in Faults /\ Goto(p, "clearCreds")
    /\ UNCHANGED <<files, over, ports>>

(* clear_cached_credentials, for --clear-cache or a refused id_token.      *)
ClearCredentials(p) ==
    /\ pc[p] = "clearCreds"
    /\ creds' = FALSE
    /\ Goto(p, "clearToken")
    /\ UNCHANGED <<token, stamp, over, ports>>

ClearToken(p) ==
    /\ pc[p] = "clearToken"
    /\ token' = FALSE
    /\ IF path[p] = "clear" THEN Return(p, "ok") ELSE NoCredentials(p)
    /\ UNCHANGED <<creds, stamp, over, ports>>

SaveCredentials(p) ==
    /\ pc[p] = "save"
    /\ \/ creds' = TRUE /\ Goto(p, "saveToken")
       \/ "writeFails" \in Faults /\ creds' = creds /\ NoCredentials(p)
    /\ UNCHANGED <<token, stamp, over, ports>>

SaveMonitoringToken(p) ==
    /\ pc[p] = "saveToken"
    /\ token' = TRUE
    /\ Return(p, IF path[p] = "monitor" THEN "ok" ELSE "creds")
    /\ UNCHANGED <<creds, stamp, over, ports>>

-----------------------------------------------------------------------------
(* Outside the program.                                                    *)

CredentialsExpire == creds /\ creds' = FALSE /\ UNCHANGED <<token, stamp, over, ports, control>>
TokenExpires == token /\ token' = FALSE /\ UNCHANGED <<creds, stamp, over, ports, control>>
IntervalPasses == stamp /\ stamp' = FALSE /\ UNCHANGED <<creds, token, over, ports, control>>
UsageChanges == over' = ~over /\ UNCHANGED <<files, ports, control>>

Crash(p) ==
    /\ "crash" \in Faults /\ pc[p] # "idle"
    /\ bound' = bound \ {p}
    /\ listening' = IF listening = p THEN NoProc ELSE listening
    /\ page' = IF page = p THEN NoProc ELSE page
    /\ Forget(p)
    /\ outcome' = [outcome EXCEPT ![p] = IF @ = "none" THEN "fail" ELSE @]
    /\ UNCHANGED <<files, over>>

(* What an invocation does without waiting for a browser.                  *)
Step(p) ==
    \/ NeedRefresh(p) \/ ReadCache(p) \/ CacheHit(p) \/ ReadToken(p) \/ CheckQuota(p)
    \/ SaveQuotaCheckTimestamp(p) \/ ShowPage(p) \/ ClearStsCredentials(p)
    \/ Bind(p) \/ Probe(p) \/ ProbeDone(p) \/ WaitTimeout(p) \/ Woken(p) \/ CacheAgain(p)
    \/ Release(p) \/ SilentToken(p) \/ Listen(p) \/ LoginFails(p) \/ Redeem(p)
    \/ Exchange(p) \/ ClearCredentials(p) \/ ClearToken(p)
    \/ SaveCredentials(p) \/ SaveMonitoringToken(p)

Browser(p) == Callback(p) \/ PageServed(p)

Next ==
    \/ \E p \in Procs : Start(p) \/ Step(p) \/ Browser(p) \/ Crash(p)
    \/ CredentialsExpire \/ TokenExpires \/ IntervalPasses \/ UsageChanges

Spec == Init /\ [][Next]_vars
FairSpec == Spec /\ \A p \in Procs : WF_vars(Step(p))

-----------------------------------------------------------------------------
(* Properties.                                                             *)

(* Whatever path a return takes and wherever an invocation is killed: the  *)
(* redirect port is bound by those inside the lock or at a probe, and by   *)
(* nobody else; one that has it to listen on listens until it closes it.   *)
Locked(p) ==
    \/ pc[p] \in {"probed", "cacheAgain", "silentToken", "listen", "browser", "redeem"}
    \/ path[p] = "silent" /\ pc[p] # "idle"
PortsHeld ==
    /\ \A p \in Procs : Locked(p) => p \in bound
    /\ \A p \in bound : Locked(p) \/ pc[p] = "release"
    /\ listening # NoProc => pc[listening] \in {"browser", "redeem", "release"}
    /\ \A p \in Procs : pc[p] \in {"browser", "redeem"} => listening = p
    /\ \A p \in Procs : pc[p] = "page" <=> page = p

(* No invocation waits for ever for another one, for its port, for the     *)
(* user's login: only for the quota page.                                  *)
OnlyThePageLasts == \A p \in Procs : pc[p] # "idle" ~> pc[p] \in {"idle", "page"}

-----------------------------------------------------------------------------
(* The refinement.                                                         *)

Holding(p) ==
    \/ pc[p] = "hit" \/ path[p] = "recheck"
    \/ pc[p] = "saveToken" /\ path[p] \in {"silent", "login"}

Session(p) ==
    IF pc[p] = "idle" \/ outcome[p] # "none" THEN "out"
    ELSE IF verdict[p] = "block" THEN "refused"
    ELSE IF Holding(p) THEN "holding"
    ELSE IF verdict[p] # "none" /\ pc[p] \in {"stamp", "openPage", "page", "exchange", "save"}
         THEN "allowed" ELSE "in"

Gate == INSTANCE CredentialGate WITH cache <- creds, session <- [p \in Procs |-> Session(p)]

(* The other provider makes the same promise: no path through the cache,   *)
(* the lock and its waiters, the silent refresh, the login or the pages    *)
(* hands out or caches credentials that did not pass the gate.             *)
ImplementsGate == Gate!Spec
=============================================================================
