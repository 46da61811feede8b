----------------------------- MODULE MCKeyFile -----------------------------
(* Instances of KeyFile for TLC. *)
EXTENDS KeyFile, TLC

CONSTANTS p, q, r
Restarts == Permutations(Process)
=============================================================================
