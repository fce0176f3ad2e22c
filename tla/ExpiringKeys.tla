---------------------------- MODULE ExpiringKeys ----------------------------
(***************************************************************************)
(* What the timing-wheel cache of base/src/cache/c100k.rs promises: a key  *)
(* put with a time to live, counted in ticks, is announced as expired in   *)
(* the tick of its deadline or in the next one, unless it is put again,    *)
(* refreshed or deleted before.                                            *)
(***************************************************************************)
EXTENDS Integers

CONSTANTS Keys, Ttls, None

VARIABLES deadline,  \* per key: the tick it expires at, or None
          ttl,       \* per key: its time to live, for a refresh
          tick

vars == <<deadline, ttl, tick>>

Init ==
    /\ deadline = [k \in Keys |-> None]
    /\ ttl = [k \in Keys |-> None]
    /\ tick = 0

Put(k, t) ==
    /\ deadline' = [deadline EXCEPT ![k] = tick + t]
    /\ ttl' = [ttl EXCEPT ![k] = t]
    /\ UNCHANGED tick

Refresh(k) ==
    /\ deadline[k] # None
    /\ deadline' = [deadline EXCEPT ![k] = tick + ttl[k]]
    /\ UNCHANGED <<ttl, tick>>

Forget(k) ==
    /\ deadline' = [deadline EXCEPT ![k] = None]
    /\ ttl' = [ttl EXCEPT ![k] = None]
    /\ UNCHANGED tick

Delete(k) == deadline[k] # None /\ Forget(k)

\* Not before the deadline ...
Expire(k) == deadline[k] # None /\ deadline[k] <= tick /\ Forget(k)

\* ... and not later than in the tick after it.
Tick ==
    /\ \A k \in Keys : deadline[k] # None => deadline[k] >= tick
    /\ tick' = tick + 1
    /\ UNCHANGED <<deadline, ttl>>

Next ==
    \/ \E k \in Keys, t \in Ttls : Put(k, t)
    \/ \E k \in Keys : Refresh(k) \/ Delete(k) \/ Expire(k)
    \/ Tick

Spec == Init /\ [][Next]_vars
=============================================================================
