--------------------------- MODULE MCTimingWheel ----------------------------
(* TimingWheel with wheels of two slots each, so that a tick counter of a few
   ticks goes through every cascade and around every wheel: a ttl of 2 ticks
   goes to the second wheel, one of 9 to the third and once around it.  Two keys
   compete for two slots. *)
EXTENDS TimingWheel, TLC

CONSTANTS k1, k2

KeySymmetry == Permutations(Keys)
=============================================================================
