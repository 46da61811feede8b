-------------------------------- MODULE Stun -------------------------------
(***************************************************************************)
(* The STUN responder (src/src/stun.rs): the serve loop, and the walk of   *)
(* respond over the attributes of a datagram, with the lengths they        *)
(* declare.                                                                *)
(*                                                                         *)
(* Values are reduced to what respond compares them with: an attribute is  *)
(* right if it is SOFTWARE "tailnode", or a FINGERPRINT equal to the       *)
(* checksum of what precedes it.                                           *)
(***************************************************************************)
EXTENDS Integers, Sequences

CONSTANTS
    Datagrams,      \* the datagrams that arrive
    MaxDatagrams    \* bound: datagrams received

ASSUME StunAssumption == MaxDatagrams \in Nat

\* A datagram: whether its first bytes are those of a Binding Request, its size, the length
\* it declares for its attributes, and the attributes it was made of.
Attribute == [type : {"SOFTWARE", "FINGERPRINT", "other"}, len : Nat, right : BOOLEAN]

VARIABLES
    listening,              \* serve has not seen the shutdown
    datagram, walk,         \* what was received; "idle", "walking", "answer" or "none"
    index, pos,             \* the attribute at pos
    software, fingerprint,  \* locals of respond; fingerprint is the index of the attribute or 0
    received, requests      \* datagrams received; metrics.stun_requests

local == <<index, pos, software, fingerprint>>
stunVars == <<listening, datagram, walk, local, received, requests>>

StunInit ==
    /\ listening = TRUE
    /\ datagram = <<>> /\ walk = "idle"
    /\ index = 1 /\ pos = 0 /\ software = FALSE /\ fingerprint = 0
    /\ received = <<>> /\ requests = 0

-----------------------------------------------------------------------------

Header == 20
\* Attributes start at multiples of four.
Padded(len) == ((len + 3) \div 4) * 4
Skip(len) == 4 + Padded(len)

\* serve receives a datagram; respond looks at its header.
Framed(d) == d.binding /\ d.size >= Header + d.declared

Receives(d) ==
    /\ listening /\ walk = "idle"
    /\ Len(received) < MaxDatagrams
    /\ datagram' = d
    /\ received' = Append(received, d)
    /\ walk' = IF Framed(d) THEN "walking" ELSE "none"
    /\ index' = 1 /\ pos' = 0 /\ software' = FALSE /\ fingerprint' = 0
    /\ UNCHANGED <<listening, requests>>

\* while pos + 4 <= attrs.len()
MoreBytes == pos < datagram.declared                                    \* mutant
More == pos + 4 <= datagram.declared
Here == datagram.attributes[index]
Overruns == pos + 4 + Here.len > datagram.declared

Malformed ==
    /\ walk = "walking" /\ More /\ Overruns
    /\ walk' = "none"
    /\ UNCHANGED <<listening, datagram, local, received, requests>>

IsAnywhere == TRUE                                                      \* mutant
IsFinal == pos + 8 = datagram.declared

NextAttribute ==
    /\ walk = "walking" /\ More /\ ~Overruns
    /\ software' = (software \/ (Here.type = "SOFTWARE" /\ Here.right))
    /\ fingerprint' = IF Here.type = "FINGERPRINT" /\ Here.len = 4 /\ IsFinal
                      THEN index ELSE fingerprint
    /\ index' = index + 1
    /\ pos' = pos + Skip(Here.len)
    /\ UNCHANGED <<listening, datagram, walk, received, requests>>

WalkDone ==
    /\ walk = "walking" /\ ~More
    /\ walk' = IF fingerprint # 0 /\ software /\ datagram.attributes[fingerprint].right
               THEN "answer" ELSE "none"
    /\ UNCHANGED <<listening, datagram, local, received, requests>>

\* serve sends the response, if there is one, and loops.
Reply ==
    /\ walk \in {"answer", "none"}
    /\ requests' = IF walk = "answer" THEN requests + 1 ELSE requests
    /\ walk' = "idle"
    /\ UNCHANGED <<listening, datagram, local, received>>

StopListening ==
    /\ listening /\ walk = "idle"
    /\ listening' = FALSE
    /\ UNCHANGED <<datagram, walk, local, received, requests>>

StunNext ==
    \/ \E d \in Datagrams : Receives(d)
    \/ Malformed \/ NextAttribute \/ WalkDone \/ Reply \/ StopListening

StunSpec == StunInit /\ [][StunNext]_stunVars

-----------------------------------------------------------------------------

\* The bytes before the i-th attribute.
Offset(d, i) ==
    LET before[j \in 1..i] == IF j = 1 THEN 0 ELSE before[j - 1] + Skip(d.attributes[j - 1].len)
    IN  before[i]

\* What should be answered: attributes that fill the declared length exactly, one of them
\* SOFTWARE "tailnode", the last of them a right FINGERPRINT.
Answerable(d) ==
    LET n == Len(d.attributes)
        Ends(i) == Offset(d, i) + 4 + d.attributes[i].len
    IN  /\ d.binding /\ d.size >= Header + d.declared
        /\ \E last \in 1..n :
              /\ Ends(last) = d.declared
              /\ d.attributes[last] = [type |-> "FINGERPRINT", len |-> 4, right |-> TRUE]
              /\ \E i \in 1..last : d.attributes[i].type = "SOFTWARE" /\ d.attributes[i].right

\* Exactly the datagrams of a Tailscale client are answered and counted, whatever lengths
\* the others declare.
AnswersExactly ==
    walk = "idle" => requests = Len(SelectSeq(received, Answerable))

\* The walk looks at no byte beyond the datagram, where a slice would panic.
WithinDatagram ==
    walk = "walking" /\ More =>
        /\ Header + pos + 4 <= datagram.size
        /\ index \in DOMAIN datagram.attributes /\ pos = Offset(datagram, index)
        /\ ~Overruns => Header + pos + 4 + Here.len <= datagram.size
=============================================================================
