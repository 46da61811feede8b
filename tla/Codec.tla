-------------------------------- MODULE Codec ------------------------------
(***************************************************************************)
(* DERP frames on the wire: Frame::encode_into and Frame::decode           *)
(* (src/src/protocol.rs).                                                  *)
(*                                                                         *)
(* A field of fixed length (a key, the magic, an address, a port, a u32)   *)
(* is one unit, and so is a byte of a field of any length; lengths are     *)
(* counted in units.  A frame has its kind, its keys and the rest of its   *)
(* fields as one sequence.  An address is kept in its IPv6 form, the only  *)
(* one that is sent.                                                       *)
(***************************************************************************)
EXTENDS Naturals, Sequences

CONSTANTS
    PacketLimit,    \* MAX_PACKET_SIZE
    PingLimit       \* the longest payload of a Ping or a Pong (1000 in the code)

ASSUME CodecAssumption == PacketLimit \in Nat /\ PingLimit \in Nat \ {0}

Type == [ServerKey |-> 1, ClientInfo |-> 2, ServerInfo |-> 3, SendPacket |-> 4,
         RecvPacket |-> 5, KeepAlive |-> 6, NotePreferred |-> 7, PeerGone |-> 8,
         PeerPresent |-> 9, ForwardPacket |-> 10, WatchConns |-> 16, ClosePeer |-> 17,
         Ping |-> 18, Pong |-> 19, Health |-> 20, Restarting |-> 21]
Known == {Type[t] : t \in DOMAIN Type}

Frame(kind, keys, data) == [kind |-> kind, keys |-> keys, data |-> data]
Bad == [kind |-> 0]                 \* ProtocolError

Magic == 3
Nonce == 1          \* NONCE_LEN
Endpoint == 2       \* an address and a port
Disconnected == 0

-----------------------------------------------------------------------------

Packets == {Type.SendPacket, Type.RecvPacket, Type.ForwardPacket}
Keyless == {Type.ServerInfo, Type.KeepAlive, Type.NotePreferred, Type.WatchConns, Type.Ping,
            Type.Pong, Type.Health, Type.Restarting}

Prefix(kind) == IF kind = Type.ServerKey THEN <<Magic>> ELSE <<>>
Keys(kind) == IF kind \in Keyless THEN 0 ELSE IF kind = Type.ForwardPacket THEN 2 ELSE 1

\* require_len and require_exact: the fewest and the most units after the keys.
AtLeast(kind) ==
    CASE kind \in {Type.ClientInfo, Type.ServerInfo} -> Nonce
      [] kind \in {Type.NotePreferred, Type.Ping, Type.Pong} -> 1
      [] kind = Type.Restarting -> 2
      [] OTHER -> 0
Longer(kind, n) ==
    CASE kind \in {Type.KeepAlive, Type.WatchConns, Type.ClosePeer} -> n > 0
      [] kind = Type.NotePreferred -> n > 1
      [] kind \in {Type.Ping, Type.Pong} -> n > PingLimit
      [] kind \in Packets -> n > PacketLimit
      [] OTHER -> FALSE

\* What decode makes of the units after the keys.
Fields(kind, data) ==
    CASE kind = Type.NotePreferred -> <<IF data[1] # 0 THEN 1 ELSE 0>>
      [] kind = Type.PeerGone -> <<IF data = <<>> THEN Disconnected ELSE data[1]>>
      [] kind = Type.PeerPresent -> IF Len(data) >= Endpoint THEN data ELSE <<>>
      [] kind \in {Type.Ping, Type.Pong} -> <<data[1]>>
      [] kind = Type.Restarting -> SubSeq(data, 1, 2)
      [] kind = Type.ServerKey -> <<>>
      [] OTHER -> data

\* The batch with the frame appended, or as it was if the frame cannot be encoded.
EncodeInto(out, f) ==
    LET payload == Prefix(f.kind) \o f.keys \o f.data
    IN  IF f.kind \in Packets /\ Len(f.data) > PacketLimit
        THEN out
        ELSE out \o <<f.kind, Len(payload)>> \o payload

Decode(kind, payload) ==
    LET m == Len(Prefix(kind))
        k == m + Keys(kind)
        keys == SubSeq(payload, m + 1, k)
        data == SubSeq(payload, k + 1, Len(payload))
    IN  CASE kind \notin Known -> Frame(kind, <<>>, payload)
          [] kind \in Known /\ Len(payload) < k + AtLeast(kind) -> Bad
          [] OTHER -> IF \/ SubSeq(payload, 1, m) # Prefix(kind)
                         \/ Longer(kind, Len(data))
                         \/ \E i \in DOMAIN keys : keys[i] = 0
                      THEN Bad
                      ELSE Frame(kind, keys, Fields(kind, data))
=============================================================================
