----------------------- MODULE MCBootstrapDeviceCode -----------------------
(* BootstrapDeviceCode on small sets of interchangeable names.             *)
EXTENDS BootstrapDeviceCode, TLC

Interchangeable ==
    Permutations(Codes) \cup Permutations(UserCodes)
        \cup Permutations(SignIns) \cup Permutations(Polls)
=============================================================================
