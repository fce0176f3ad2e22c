---------------------------- MODULE MCDelayCache ----------------------------
(* DelayCache with one contended key, under which two values with a ttl and
   one without are inserted, removed and refreshed in any order. *)
EXTENDS DelayCache

CONSTANTS k1, v1, v2, u1, r1

MCKeyOf == [v \in Values |-> k1]
=============================================================================
