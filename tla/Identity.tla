------------------------------ MODULE Identity -----------------------------
(***************************************************************************)
(* What load_or_create (src/src/crypto.rs) promises the servers that start *)
(* on one key file: they serve under one identity, which does not change   *)
(* while any of them runs, nor ever once a power loss has shown it to be   *)
(* on disk.  That it survives the first power loss is not promised: the    *)
(* directory of the file is not synced.                                    *)
(***************************************************************************)

CONSTANTS
    Process,        \* processes started on the same --private-key
    KeyId,          \* identities
    NoKey           \* none

VARIABLES
    identity,       \* the identity a start would get
    kept,           \* whether it is on disk for good
    serving         \* the processes that serve under it

identityVars == <<identity, kept, serving>>

IdentityInit == identity = NoKey /\ kept = FALSE /\ serving = {}

Choose(k) ==
    /\ identity = NoKey
    /\ identity' = k
    /\ UNCHANGED <<kept, serving>>

Serve(p) ==
    /\ identity # NoKey
    /\ serving' = serving \cup {p}
    /\ UNCHANGED <<identity, kept>>

Quit(p) ==
    /\ serving' = serving \ {p}
    /\ UNCHANGED <<identity, kept>>

\* Everything stops, and an identity that was not on disk is lost or turns out to be.
Loss ==
    /\ serving' = {}
    /\ identity' = identity \/ (~kept /\ identity' = NoKey)
    /\ kept' = (identity' # NoKey)

IdentityNext ==
    \/ \E k \in KeyId : Choose(k)
    \/ \E p \in Process : Serve(p) \/ Quit(p)
    \/ Loss

IdentitySpec == IdentityInit /\ [][IdentityNext]_identityVars
=============================================================================
