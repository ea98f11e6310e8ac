--------------------------- MODULE CredProcessInv ---------------------------
(***************************************************************************)
(* The inductive invariants behind the safety properties of CredProcess.   *)
(***************************************************************************)
EXTENDS CredProcessGate

Refreshing == {"loadRefresh", "exchange", "discard", "keepToken", "keepRefresh"}
Login == {"listen", "callback", "redeem"}
Clearing == {"clearCreds", "clearRefresh"}
Minting == {"sts", "saveCreds"}

(* Which entry point calls which function, and where a function can be.    *)
Callers(p) ==
    /\ fn[p] = "none" => cmd[p] = "none" /\ pc[p] = "idle"
    /\ fn[p] \in {"run", "recheck"} => cmd[p] \in {"run", "refreshIfNeeded", "desktop"}
    /\ fn[p] = "desktop" => cmd[p] \in {"desktop", "desktopSilent"}
    /\ fn[p] \in {"monitor", "mcp", "show", "clear"} => cmd[p] = fn[p]

Places(p) ==
    /\ pc[p] = "idle" => fn[p] = "none"
    /\ fn[p] = "recheck" =>
        pc[p] \in Refreshing \cup Clearing \cup {"readToken", "check", "answered", "reread"}
    /\ fn[p] = "desktop" =>
        pc[p] \in Refreshing \cup Minting \cup {"readCache", "check", "answered", "saveToken"}
    /\ fn[p] = "monitor" => pc[p] \in Refreshing \cup Login \cup {"readToken", "saveToken"}
    /\ fn[p] = "mcp" => pc[p] \in Refreshing \cup {"readToken"}
    /\ fn[p] = "show" => pc[p] \in Login \cup {"readToken", "saveToken"}
    /\ fn[p] = "clear" => pc[p] \in Clearing

(* What the program counter, the call and the verdict say of each other.   *)
Judged(p) ==
    /\ fn[p] = "recheck" => QuotaConfigured
    /\ fn[p] = "desktop" => src[p] \in {"none", "refreshed"}
    /\ fn[p] \in {"monitor", "show"} /\ pc[p] = "saveToken" => src[p] = "browser"
    /\ fn[p] \in {"none", "clear"} => verdict[p] = "none" /\ src[p] = "none"
    /\ pc[p] \in Minting => verdict[p] = "allow"
    /\ pc[p] = "answered" => verdict[p] # "none"
    /\ verdict[p] = "block" => pc[p] \in {"answered"} \cup Clearing
    /\ fn[p] = "recheck" /\ pc[p] \in Clearing => verdict[p] = "block"

Flow(p) == Callers(p) /\ Places(p) /\ Judged(p)

ControlFlow == \A p \in Procs : Flow(p)

(* A refresh_token p received and has not saved yet.  No other invocation  *)
(* can present it: it is neither on disk nor in another one's hands.       *)
Unsaved(p) == fresh[p] # NoToken /\ pc[p] # "reread"

(* The argument for StoredTokenLive: refresh_tokens in flight are live and *)
(* known to one invocation only, so none is spent before it is saved, and  *)
(* the token on disk is spent only by an invocation about to replace it.   *)
TokensInFlight ==
    /\ StoredTokenLive
    /\ \A p \in Procs : Unsaved(p) =>
        /\ fresh[p] \in grants \ {refresh}
        /\ \A q \in Procs : held[q] # fresh[p]
        /\ \A q \in Procs \ {p} : fresh[q] # fresh[p]
=============================================================================
