---------------------------- MODULE MCMeshRoutes ---------------------------
(* Instances of MeshRoutes for TLC. *)
EXTENDS MeshRoutes, TLC

CONSTANTS x, y, a, b

\* At most one frame waits for a mesh connection to be written.
OneQueued == Cardinality({l \in Link : queue[l] # <<>>}) <= 1

Symmetric == Permutations(Link) \cup Permutations(Node)
=============================================================================
