----------------------------- MODULE Directory -----------------------------
(***************************************************************************)
(* What the registry of Relay (src/src/relay.rs) promises route: for every *)
(* node the one connection that its packets go to, as connections join,    *)
(* are used and leave, one at a time.                                      *)
(***************************************************************************)
EXTENDS Naturals

CONSTANTS
    Key,            \* node keys
    Sid,            \* connections, numbered as they join
    None            \* none

VARIABLES
    live,           \* the connections of a node
    chosen          \* the one that receives

directoryVars == <<live, chosen>>

Newest(ids) ==
    IF ids = {} THEN None ELSE CHOOSE s \in ids : \A t \in ids : t <= s

DirectoryInit ==
    /\ live = [k \in Key |-> {}]
    /\ chosen = [k \in Key |-> None]

Join(k, s) ==
    /\ \A j \in Key : s \notin live[j]
    /\ live' = [live EXCEPT ![k] = @ \cup {s}]
    /\ chosen' = [chosen EXCEPT ![k] = s]

Use(k, s) ==
    /\ s \in live[k]
    /\ chosen' = [chosen EXCEPT ![k] = s]
    /\ UNCHANGED live

\* Whichever leaves, the newest of the others receives, be another of them the last active.
Leave(k, s) ==
    /\ s \in live[k]
    /\ live' = [live EXCEPT ![k] = @ \ {s}]
    /\ chosen' = [chosen EXCEPT ![k] = Newest(live'[k])]

DirectoryNext == \E k \in Key, s \in Sid : Join(k, s) \/ Use(k, s) \/ Leave(k, s)

DirectorySpec == DirectoryInit /\ [][DirectoryNext]_directoryVars
=============================================================================
