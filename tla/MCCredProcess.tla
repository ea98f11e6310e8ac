--------------------------- MODULE MCCredProcess ---------------------------
(* Symmetry for the model-checking runs of CredProcess.                    *)
EXTENDS CredProcessInv, TLC

Interchangeable == Permutations(Procs) \cup Permutations(RefreshTokens)
=============================================================================
