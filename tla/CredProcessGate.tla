-------------------------- MODULE CredProcessGate --------------------------
(***************************************************************************)
(* CredProcess implements CredentialGate.                                  *)
(***************************************************************************)
EXTENDS CredProcess

(* Where an invocation stands: it holds credentials between finding or     *)
(* minting them and handing them out (the re-check runs with the cached    *)
(* ones in hand), and it has permission only from the answer that allowed  *)
(* its id_token to the minting, or to the failure of the exchange.         *)
Holding(p) ==
    \/ pc[p] = "hit"
    \/ fn[p] = "recheck" /\ pc[p] # "reread"
    \/ fn[p] \in {"run", "desktop"} /\ pc[p] \in {"saveToken", "saveRefresh"}

Session(p) ==
    IF pc[p] = "idle" THEN "out"
    ELSE IF verdict[p] = "block" THEN "refused"
    ELSE IF Holding(p) THEN "holding"
    ELSE IF verdict[p] = "allow" /\ pc[p] \in {"answered", "sts", "saveCreds"} THEN "allowed"
    ELSE "in"

Gate == INSTANCE CredentialGate WITH cache <- creds, session <- [p \in Procs |-> Session(p)]

(* No path through the cache, the port lock, the refreshes, the login, the *)
(* desktop helper's fallback or the re-check hands out or caches           *)
(* credentials that did not pass the gate.                                 *)
ImplementsGate == Gate!Spec
=============================================================================
