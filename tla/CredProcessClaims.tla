------------------------- MODULE CredProcessClaims -------------------------
(***************************************************************************)
(* What a comment says of the credential process and the code does not do, *)
(* stated over CredProcess: its run ends in a counterexample.              *)
(***************************************************************************)
EXTENDS CredProcess

(* tryRefreshToken: "Only discard the refresh_token when the IdP           *)
(* definitively rejected it".  So the token it discards is the one it      *)
(* presented.                                                              *)
OnlyRejectedDiscarded ==
    [][\A p \in Procs :
        pc[p] = "discard" /\ pc'[p] # "discard" => refresh \in {held[p], NoToken}]_vars

=============================================================================
