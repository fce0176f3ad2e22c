------------------------------ MODULE MCTcpLink ------------------------------
(* A small instance of TcpLink: w1 has a payload of two bytes, w2 one of one,
   and w3 one of two that the length prefix cannot express. *)
EXTENDS TcpLink

CONSTANTS w1, w2, w3

MCPayloadLen == [w \in Writers |-> IF w = w2 THEN 1 ELSE 2]
=============================================================================
