--------------------------- MODULE MCPacketWriter ---------------------------
(* Small instances of PacketWriter: c1 and c2 compete for one address, c3 has
   another address of the same IP. *)
EXTENDS PacketWriter

CONSTANTS c1, c2, c3, a1, a2, ip, w1, u1

MCAddrOf == [c \in Conns |-> IF c = c3 THEN a2 ELSE a1]
MCIpOf == [a \in Addrs |-> ip]
=============================================================================
