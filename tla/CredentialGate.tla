--------------------------- MODULE CredentialGate ---------------------------
(***************************************************************************)
(* What the credential process promises about AWS credentials, whatever    *)
(* its caches, locks, refreshes and logins do: an invocation hands out     *)
(* credentials only if it found them in the cache or minted them after the *)
(* quota service allowed the user, only such a minting fills the cache,    *)
(* and an invocation that was refused can do nothing but empty the cache   *)
(* and fail.  (quotaCheckOutcome and enforceQuota in source/go/cmd/        *)
(* credential-process/main.go state the intent.)                           *)
(***************************************************************************)
CONSTANT Procs

VARIABLES
    cache,    \* usable credentials are cached
    session,  \* where each invocation stands
    outcome   \* how the last invocation of the process ended

vars == <<cache, session, outcome>>

Sessions == {"out", "in", "allowed", "refused", "holding"}

Init ==
    /\ cache = FALSE
    /\ session = [p \in Procs |-> "out"]
    /\ outcome = [p \in Procs |-> "none"]

Become(p, s) == session' = [session EXCEPT ![p] = s]
End(p, r) == Become(p, "out") /\ outcome' = [outcome EXCEPT ![p] = r]

Enter(p) ==
    /\ session[p] = "out"
    /\ Become(p, "in")
    /\ outcome' = [outcome EXCEPT ![p] = "none"]
    /\ UNCHANGED cache

(* Credentials found in the cache are in hand, or handed out at once.      *)
Take(p) ==
    /\ session[p] = "in" /\ cache
    /\ \/ Become(p, "holding") /\ UNCHANGED outcome
       \/ End(p, "creds")
    /\ UNCHANGED cache

(* The quota service is asked before minting, or for credentials in hand.  *)
Ask(p) ==
    /\ \/ session[p] = "in" /\ Become(p, "allowed")
       \/ session[p] \in {"in", "holding"} /\ Become(p, "refused")
    /\ UNCHANGED <<cache, outcome>>

Mint(p) ==
    /\ session[p] = "allowed"
    /\ Become(p, "holding")
    /\ cache' \in {cache, TRUE}
    /\ UNCHANGED outcome

(* The permission, or the credentials in hand, are given up.               *)
Drop(p) ==
    /\ session[p] \in {"allowed", "holding"}
    /\ Become(p, "in")
    /\ UNCHANGED <<cache, outcome>>

HandOut(p) ==
    /\ session[p] = "holding"
    /\ End(p, "creds")
    /\ UNCHANGED cache

Leave(p) ==
    /\ session[p] # "out"
    /\ \/ End(p, "fail")
       \/ session[p] = "in" /\ End(p, "ok")
    /\ UNCHANGED cache

(* The credentials expire or are cleared.                                  *)
Empty == cache' = FALSE /\ UNCHANGED <<session, outcome>>

Next ==
    \/ Empty
    \/ \E p \in Procs :
        Enter(p) \/ Take(p) \/ Ask(p) \/ Mint(p) \/ Drop(p) \/ HandOut(p) \/ Leave(p)

Spec == Init /\ [][Next]_vars
=============================================================================
