------------------------- MODULE MCManagedPacketIo --------------------------
(* ManagedPacketIo with two connect_tcp calls to one peer, a connection the
   listener accepts, the owner of a handle and callers of close_and_wait. *)
EXTENDS ManagedPacketIo, TLC

CONSTANTS a1, a2, i1, u1, e1, peer, other

MCAddrOf == [c \in Conns |-> IF c \in Active THEN peer ELSE other]

ActiveSymmetry == Permutations(Active)
=============================================================================
