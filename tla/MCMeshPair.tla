---------------------------- MODULE MCMeshPair -----------------------------
(* Instances of MeshPair for TLC. *)
EXTENDS MeshPair

CONSTANTS x, y, a, p1, p2
=============================================================================
