-------------------------- MODULE DelayCacheProofs --------------------------
(***************************************************************************)
(* Machine-checked proofs about DelayCache, for any keys, values, callers, *)
(* capacities and numbers of permits.                                      *)
(***************************************************************************)
EXTENDS DelayCache, FiniteSetTheorems, SequenceTheorems, TLAPS

----------------------------------------------------------------------------
(* Types.                                                                  *)

\* The commands the callers send: an insertion carries its value under the
\* value's key, a refresh the ttl of a value that has one.
Sendable ==
    {c \in Commands : /\ c.op = "insert" => c.val \in Values /\ c.key = KeyOf[c.val]
                      /\ c.op = "refresh" => c.val \in Mortal}

\* A call of remove has its key when it turns to the map.
TypeInv ==
    /\ TypeOK
    /\ cmds \in Seq(Sendable)
    /\ \A r \in Removers : rpc[r] = "sent" => rkey[r] \in Keys

\* Every variable keeps its type under every step of the code.
LEMMA TypeStep == TypeInv /\ [Next]_vars => TypeInv'
<1> SUFFICES ASSUME TypeInv, [Next]_vars PROVE TypeInv'
  OBVIOUS
<1> USE CacheAssumption DEF TypeInv, TypeOK, workerVars, callerVars
<1>a. ASSUME NEW s \in Seq(Sendable) PROVE s \in Seq(Commands)
  BY DEF Sendable
<1>0. ASSUME NEW c \in Sendable, Send(c) PROVE cmds' \in Seq(Sendable)
  BY <1>0, AppendProperties DEF Send
<1>1. ASSUME NEW v \in Values, InsertMap(v) PROVE TypeInv'
  BY <1>1 DEF InsertMap
<1>2. ASSUME NEW v \in Values, InsertSend(v) PROVE TypeInv'
  <2>1. Command("insert", KeyOf[v], v) \in Sendable
    BY DEF Command, Sendable, Commands
  <2>2. cmds' \in Seq(Sendable)
    BY <1>0, <1>2, <2>1 DEF InsertSend
  <2> QED
    BY <1>2, <1>a, <2>2 DEF InsertSend
<1>3. ASSUME NEW r \in Removers, NEW k \in Keys, RemoveSend(r, k) PROVE TypeInv'
  <2>1. Command("remove", k, None) \in Sendable
    BY DEF Command, Sendable, Commands
  <2>2. cmds' \in Seq(Sendable)
    BY <1>0, <1>3, <2>1 DEF RemoveSend
  <2> QED
    BY <1>3, <1>a, <2>2 DEF RemoveSend
<1>4. ASSUME NEW r \in Removers, RemoveMap(r) PROVE TypeInv'
  <2>1. map' \in [Keys -> Values \cup {None}]
    BY <1>4 DEF RemoveMap
  <2> QED
    BY <1>4, <2>1 DEF RemoveMap
<1>5. ASSUME NEW k \in Keys, Refresh(k) PROVE TypeInv'
  <2>1. Command("refresh", k, map[k]) \in Sendable
    BY <1>5 DEF Command, Refresh, Sendable, Commands
  <2>2. cmds' \in Seq(Sendable)
    BY <1>0, <1>5, <2>1 DEF Refresh
  <2> QED
    BY <1>5, <1>a, <2>2 DEF Refresh
<1>6. CASE HandleCommand
  <2>1. Head(cmds) \in Sendable /\ Tail(cmds) \in Seq(Sendable)
    BY <1>6, HeadTailProperties DEF HandleCommand
  <2>2. Timer(Head(cmds)) \in Mortal \cup {None}
    BY <2>1 DEF Timer, Sendable, Commands
  <2>3. timer' \in [Keys -> Mortal \cup {None}]
    BY <1>6, <2>2 DEF HandleCommand
  <2> QED
    BY <1>6, <1>a, <2>1, <2>3 DEF HandleCommand
<1>7. CASE PurgeStops
  BY <1>7 DEF PurgeStops
<1>8. ASSUME NEW k \in Keys, Expire(k) PROVE TypeInv'
  <2>1. map' \in [Keys -> Values \cup {None}] /\ timer' \in [Keys -> Mortal \cup {None}]
    BY <1>8 DEF Expire
  <2>2. calls' \in Seq(Values) /\ Len(calls') <= CallCap /\ lost' \subseteq Values
    <3>1. CASE map[k] # None /\ Len(calls) < CallCap /\ calls' = Append(calls, map[k]) /\ lost' = lost
      <4>1. map[k] \in Values
        BY <3>1
      <4> QED
        BY <3>1, <4>1, AppendProperties
    <3> QED
      BY <1>8, <3>1 DEF Expire
  <2> QED
    BY <1>8, <2>1, <2>2 DEF Expire
<1>9. CASE WorkerReceives
  BY <1>9, HeadTailProperties DEF WorkerReceives
<1>10. CASE WorkerSpawns \/ WorkerStops \/ Cancel
  BY <1>10 DEF WorkerSpawns, WorkerStops, Cancel
<1>11. ASSUME NEW v \in Values, CallbackEnds(v) PROVE TypeInv'
  BY <1>11 DEF CallbackEnds
<1>12. CASE UNCHANGED vars
  BY <1>12 DEF vars
<1> QED
  BY <1>1, <1>2, <1>3, <1>4, <1>5, <1>6, <1>7, <1>8, <1>9, <1>10, <1>11, <1>12
    DEF Next, Callers, PurgeTask, Worker

\* Every variable starts with its type.
LEMMA TypeInit == Init => TypeInv
<1> SUFFICES ASSUME Init PROVE TypeInv
  OBVIOUS
<1> USE CacheAssumption DEF Init
<1>1. cmds \in Seq(Commands) /\ cmds \in Seq(Sendable) /\ calls \in Seq(Values)
  OBVIOUS
<1>2. Len(calls) <= CallCap /\ refreshes \in 0..MaxRefreshes
  OBVIOUS
<1>3. /\ map \in [Keys -> Values \cup {None}] /\ timer \in [Keys -> Mortal \cup {None}]
      /\ rkey \in [Removers -> Keys \cup {None}]
      /\ ipc \in [Values -> {"idle", "mapped", "done"}]
      /\ rpc \in [Removers -> {"idle", "sent", "done"}]
  OBVIOUS
<1> QED
  BY <1>1, <1>2, <1>3 DEF TypeInv, TypeOK

----------------------------------------------------------------------------
(* A value is in one place at a time.                                      *)

\* The callback channel holds no value twice.
NoRepeats == \A m, n \in 1..Len(calls) : calls[m] = calls[n] => m = n

\* What is sent to the callback worker joins the values on their way to it,
LEMMA SentIsQueued ==
    ASSUME calls \in Seq(Values), NoRepeats,
           NEW v \in Values, v \notin Queued, calls' = Append(calls, v)
    PROVE  Queued' = Queued \cup {v} /\ NoRepeats'
<1>1. /\ Len(calls') = Len(calls) + 1
      /\ \A n \in 1..Len(calls) : calls'[n] = calls[n]
      /\ calls'[Len(calls) + 1] = v
      /\ Len(calls) \in Nat
  BY AppendProperties
<1>2. \A n \in 1..Len(calls') : n \in 1..Len(calls) \/ n = Len(calls) + 1
  BY <1>1
<1>3. Queued' = Queued \cup {v}
  BY <1>1, <1>2 DEF Queued
<1> QED
  BY <1>1, <1>2, <1>3 DEF Queued, NoRepeats

\* and what the worker receives leaves them.
LEMMA ReceivedIsNotQueued ==
    ASSUME calls \in Seq(Values), NoRepeats, calls # <<>>, calls' = Tail(calls)
    PROVE  Queued' = Queued \ {Head(calls)} /\ Head(calls) \in Queued /\ NoRepeats'
<1>1. /\ Len(calls) \in Nat \ {0} /\ Len(calls') = Len(calls) - 1
      /\ \A n \in 1..Len(calls') : calls'[n] = calls[n + 1] /\ n + 1 \in 1..Len(calls)
      /\ Head(calls) = calls[1]
  BY HeadTailProperties, EmptySeq, LenProperties
<1>2. 1 \in 1..Len(calls)
  BY <1>1
<1>3. Head(calls) \in Queued
  BY <1>1, <1>2 DEF Queued
<1>4. ASSUME NEW x \in Queued' PROVE x \in Queued /\ x # Head(calls)
  <2>1. PICK n \in 1..Len(calls') : x = calls'[n]
    BY <1>4 DEF Queued
  <2>2. n + 1 # 1
    BY <2>1, <1>1
  <2> QED
    BY <2>1, <2>2, <1>1, <1>2 DEF Queued, NoRepeats
<1>5. ASSUME NEW x \in Queued, x # Head(calls) PROVE x \in Queued'
  <2>1. PICK n \in 1..Len(calls) : x = calls[n]
    BY <1>5 DEF Queued
  <2>2. n - 1 \in 1..Len(calls') /\ (n - 1) + 1 = n
    BY <2>1, <1>1, <1>5
  <2>3. calls'[n - 1] = x
    BY <2>1, <2>2, <1>1
  <2> QED
    BY <2>2, <2>3 DEF Queued
<1>6. NoRepeats'
  <2>1. SUFFICES ASSUME NEW m \in 1..Len(calls'), NEW n \in 1..Len(calls'), calls'[m] = calls'[n]
                 PROVE  m = n
    BY DEF NoRepeats
  <2>2. m + 1 = n + 1
    BY <2>1, <1>1 DEF NoRepeats
  <2> QED
    BY <2>1, <2>2, <1>1
<1> QED
  BY <1>3, <1>4, <1>5, <1>6

\* Where a value has gone once it has left the map.
Left(v) == v \in Queued \/ v = worker \/ v \in running \cup ended \cup lost \cup returned

\* A value that is not inserted yet is nowhere; one in the map is there under
\* its own key and has not left it; and the places it leaves it for exclude one
\* another.
PlaceInv ==
    /\ NoRepeats
    /\ \A k \in Keys : map[k] # None => KeyOf[map[k]] = k
    /\ \A v \in Values :
        /\ ipc[v] = "idle" => map[KeyOf[v]] # v /\ ~Left(v)
        /\ map[KeyOf[v]] = v => ~Left(v)
        /\ v \in Queued => v # worker /\ v \notin running \cup ended \cup lost \cup returned
        /\ v = worker => v \notin running \cup ended \cup lost \cup returned
        /\ v \in running => v \notin ended \cup lost \cup returned
        /\ v \in ended => v \notin lost \cup returned
        /\ v \in lost => v \notin returned
    /\ IsFiniteSet(running) /\ Cardinality(running) <= Permits

\* Every step keeps a value in one place.
LEMMA PlaceStep == TypeInv /\ PlaceInv /\ [Next]_vars => PlaceInv'
<1> SUFFICES ASSUME TypeInv, PlaceInv, [Next]_vars PROVE PlaceInv'
  OBVIOUS
<1> USE CacheAssumption DEF TypeInv, TypeOK, workerVars, callerVars
<1>0. calls' = calls => Queued' = Queued /\ (NoRepeats' <=> NoRepeats)
  BY DEF Queued, NoRepeats
<1>1. ASSUME NEW v \in Values, InsertMap(v) PROVE PlaceInv'
  BY <1>0, <1>1 DEF InsertMap, PlaceInv, Left
<1>2. ASSUME NEW v \in Values, InsertSend(v) PROVE PlaceInv'
  BY <1>0, <1>2 DEF InsertSend, PlaceInv, Left
<1>3. ASSUME NEW r \in Removers, NEW k \in Keys, RemoveSend(r, k) PROVE PlaceInv'
  BY <1>0, <1>3 DEF RemoveSend, PlaceInv, Left
<1>4. ASSUME NEW r \in Removers, RemoveMap(r) PROVE PlaceInv'
  BY <1>0, <1>4 DEF RemoveMap, PlaceInv, Left
<1>5. ASSUME NEW k \in Keys, Refresh(k) PROVE PlaceInv'
  BY <1>0, <1>5 DEF Refresh, PlaceInv, Left
<1>6. CASE HandleCommand
  BY <1>0, <1>6 DEF HandleCommand, PlaceInv, Left
<1>7. CASE PurgeStops
  BY <1>0, <1>7 DEF PurgeStops, PlaceInv, Left
<1>8. ASSUME NEW k \in Keys, Expire(k) PROVE PlaceInv'
  <2>1. CASE calls' = calls
    BY <1>0, <1>8, <2>1 DEF Expire, PlaceInv, Left
  <2>2. CASE map[k] # None /\ calls' = Append(calls, map[k]) /\ lost' = lost
    <3>1. map[k] \in Values /\ map[KeyOf[map[k]]] = map[k] /\ KeyOf[map[k]] = k
      BY <2>2 DEF PlaceInv
    <3>2. map[k] \notin Queued
      BY <3>1 DEF PlaceInv, Left
    <3>3. Queued' = Queued \cup {map[k]} /\ NoRepeats'
      BY <2>2, <3>1, <3>2, SentIsQueued DEF PlaceInv
    <3> QED
      BY <1>8, <2>2, <3>1, <3>3 DEF Expire, PlaceInv, Left
  <2> QED
    BY <1>8, <2>1, <2>2 DEF Expire
<1>9. CASE WorkerReceives
  <2>1. Queued' = Queued \ {Head(calls)} /\ Head(calls) \in Queued /\ NoRepeats'
    BY <1>9, ReceivedIsNotQueued DEF WorkerReceives, PlaceInv
  <2> QED
    BY <1>9, <2>1 DEF WorkerReceives, PlaceInv, Left
<1>10. CASE WorkerSpawns
  <2>1. IsFiniteSet(running') /\ Cardinality(running') <= Permits
    <3>1. /\ IsFiniteSet(running \cup {worker})
          /\ Cardinality(running \cup {worker}) \in {Cardinality(running), Cardinality(running) + 1}
      BY FS_AddElement DEF PlaceInv
    <3>2. Cardinality(running) \in Nat
      BY FS_CardinalityType DEF PlaceInv
    <3> QED
      BY <1>10, <3>1, <3>2 DEF WorkerSpawns
  <2> QED
    BY <1>0, <1>10, <2>1 DEF WorkerSpawns, PlaceInv, Left
<1>11. ASSUME NEW v \in Values, CallbackEnds(v) PROVE PlaceInv'
  <2>1. IsFiniteSet(running') /\ Cardinality(running') <= Permits
    <3>1. /\ IsFiniteSet(running \ {v})
          /\ Cardinality(running \ {v}) \in {Cardinality(running), Cardinality(running) - 1}
      BY FS_RemoveElement DEF PlaceInv
    <3>2. Cardinality(running) \in Nat
      BY FS_CardinalityType DEF PlaceInv
    <3> QED
      BY <1>11, <3>1, <3>2 DEF CallbackEnds, PlaceInv
  <2> QED
    BY <1>0, <1>11, <2>1 DEF CallbackEnds, PlaceInv, Left
<1>12. CASE WorkerStops \/ Cancel \/ UNCHANGED vars
  BY <1>0, <1>12 DEF WorkerStops, Cancel, vars, PlaceInv, Left
<1> QED
  BY <1>1, <1>2, <1>3, <1>4, <1>5, <1>6, <1>7, <1>8, <1>9, <1>10, <1>11, <1>12
    DEF Next, Callers, PurgeTask, Worker

\* No value the application removed is called back, none is called back twice,
\* and no more callbacks run at once than there are permits, however callers,
\* purge task and callback worker interleave.
THEOREM CacheCorrect == Spec => []CalledBackOnce
<1>1. Init => PlaceInv
  <2>1. IsFiniteSet({}) /\ Cardinality({}) = 0
    BY FS_EmptySet
  <2> QED
    BY <2>1, CacheAssumption DEF Init, PlaceInv, Left, Queued, NoRepeats
<1>2. TypeInv /\ PlaceInv => CalledBackOnce
  <2> SUFFICES ASSUME TypeInv, PlaceInv PROVE CalledBackOnce
    OBVIOUS
  <2>0. Queued \subseteq Values
    BY DEF Queued, TypeInv, TypeOK
  <2>1. ASSUME NEW m \in 1..7, NEW n \in 1..7, m < n PROVE Places[m] \cap Places[n] = {}
    <3>1. CASE m = 1
      BY <2>1, <3>1, CacheAssumption DEF TypeInv, TypeOK, Places, PlaceInv, Left
    <3>2. CASE m # 1
      BY <2>0, <2>1, <3>2, CacheAssumption DEF TypeInv, TypeOK, Places, PlaceInv
    <3> QED
      BY <3>1, <3>2
  <2>2. ASSUME NEW m \in 1..7, NEW n \in 1..7, m # n PROVE Places[m] \cap Places[n] = {}
    <3>1. m < n \/ n < m
      BY <2>2
    <3> QED
      BY <2>1, <3>1
  <2> QED
    BY <2>2 DEF CalledBackOnce, TypeInv, PlaceInv, NoRepeats
<1> QED
  BY <1>1, <1>2, TypeInit, TypeStep, PlaceStep, PTL DEF Spec

----------------------------------------------------------------------------
(* A value with a ttl has a timer, or is about to get one.                 *)

\* A command that arms the timer of its key, and one that leaves it armed.
Arms(c) == c.op = "insert" /\ c.val \in Mortal
Keeps(c) == (c.op = "refresh") \/ Arms(c)

KeptAfter(k, m) == \A n \in 1..Len(cmds) : n > m /\ cmds[n].key = k => Keeps(cmds[n])

\* Once the purge task has handled the commands sent to it, the timer of k runs.
Armed(k) ==
    \/ timer[k] # None /\ KeptAfter(k, 0)
    \/ \E m \in 1..Len(cmds) : cmds[m].key = k /\ Arms(cmds[m]) /\ KeptAfter(k, m)

\* A mapped value with a ttl that overtook none without is armed, unless a call that has
\* yet to tell the purge task, or to take the value out, is under way.
Covered(k) ==
    \/ \E v \in Values : ipc[v] = "mapped" /\ KeyOf[v] = k
    \/ \E r \in Removers : rpc[r] = "sent" /\ rkey[r] = k
    \/ Armed(k)

CoverInv ==
    /\ purge = "running" => \A k \in Keys : map[k] \in Mortal \ overtook => Covered(k)
    /\ \A k \in Keys : map[k] \in Mortal \ overtook =>
           \A v \in Values : ipc[v] = "mapped" /\ KeyOf[v] = k => v \in Mortal

\* A command sent last arms its key, or leaves every key it does not disarm armed.
LEMMA SendArms ==
    ASSUME TypeInv, purge = "running", NEW c \in Sendable, Send(c), timer' = timer, NEW k \in Keys
    PROVE  /\ c.key = k /\ Arms(c) => Armed(k)'
           /\ (c.key = k => Keeps(c)) /\ Armed(k) => Armed(k)'
<1>1. /\ Len(cmds') = Len(cmds) + 1 /\ Len(cmds) \in Nat
      /\ \A n \in 1..Len(cmds) : cmds'[n] = cmds[n]
      /\ cmds'[Len(cmds) + 1] = c
  BY AppendProperties DEF Send, TypeInv
<1>2. \A n \in 1..Len(cmds') : n \in 1..Len(cmds) \/ n = Len(cmds) + 1
  BY <1>1
<1>3. ASSUME c.key = k, Arms(c) PROVE Armed(k)'
  <2>1. PICK m \in Nat : m = Len(cmds) + 1
    BY <1>1
  <2>2. m \in 1..Len(cmds') /\ KeptAfter(k, m)'
    BY <1>1, <2>1 DEF KeptAfter
  <2>3. (cmds'[m]).key = k /\ Arms(cmds'[m])
    BY <1>1, <1>3, <2>1
  <2> QED
    BY <2>2, <2>3 DEF Armed, Arms
<1>4. ASSUME c.key = k => Keeps(c), Armed(k) PROVE Armed(k)'
  <2>1. ASSUME NEW m \in Nat, m <= Len(cmds), KeptAfter(k, m) PROVE KeptAfter(k, m)'
    BY <2>1, <1>1, <1>2, <1>4 DEF KeptAfter, Keeps, Arms
  <2>2. CASE timer[k] # None /\ KeptAfter(k, 0)
    BY <1>1, <2>1, <2>2 DEF Armed
  <2>3. ASSUME NEW m \in 1..Len(cmds), cmds[m].key = k, Arms(cmds[m]), KeptAfter(k, m)
        PROVE  Armed(k)'
    <3>1. KeptAfter(k, m)' /\ m \in 1..Len(cmds')
      BY <1>1, <2>1, <2>3
    <3>2. (cmds'[m]).key = k /\ Arms(cmds'[m])
      BY <1>1, <2>3
    <3> QED
      BY <3>1, <3>2 DEF Armed, Arms
  <2> QED
    BY <1>4, <2>2, <2>3 DEF Armed
<1> QED
  BY <1>3, <1>4

\* The command the purge task handles next leaves an armed key armed.
LEMMA HandleArms ==
    ASSUME TypeInv, HandleCommand, NEW k \in Keys, Armed(k)
    PROVE  Armed(k)'
<1>1. /\ Len(cmds) \in Nat \ {0} /\ Len(cmds') = Len(cmds) - 1
      /\ \A n \in 1..Len(cmds') : cmds'[n] = cmds[n + 1] /\ n + 1 \in 1..Len(cmds)
      /\ Head(cmds) = cmds[1] /\ cmds[1] \in Sendable
  BY HeadTailProperties, EmptySeq, LenProperties DEF HandleCommand, TypeInv
<1>2. timer' = [timer EXCEPT ![cmds[1].key] = Timer(cmds[1])]
  BY <1>1 DEF HandleCommand
<1>3. ASSUME NEW m \in Nat, KeptAfter(k, m + 1) PROVE KeptAfter(k, m)'
  BY <1>1, <1>3 DEF KeptAfter, Keeps, Arms
<1>4. KeptAfter(k, 0) => KeptAfter(k, 1)
  BY DEF KeptAfter
<1>5. ASSUME timer[k] # None, KeptAfter(k, 0) PROVE Armed(k)'
  <2>1. KeptAfter(k, 0)'
    BY <1>3, <1>4, <1>5
  <2>2. cmds[1].key = k => Keeps(cmds[1])
    BY <1>1, <1>5 DEF KeptAfter
  <2>3. timer'[k] # None
    BY <1>1, <1>2, <1>5, <2>2, CacheAssumption
      DEF Timer, Keeps, Arms, Sendable, Commands, TypeInv, TypeOK
  <2> QED
    BY <2>1, <2>3 DEF Armed
<1>6. ASSUME NEW m \in 1..Len(cmds), cmds[m].key = k, Arms(cmds[m]), KeptAfter(k, m)
      PROVE  Armed(k)'
  <2>1. CASE m = 1
    <3>1. KeptAfter(k, 0)'
      BY <1>3, <1>6, <2>1
    <3>2. timer'[k] # None
      BY <1>1, <1>2, <1>6, <2>1, CacheAssumption DEF Timer, Arms, TypeInv, TypeOK
    <3> QED
      BY <3>1, <3>2 DEF Armed
  <2>2. CASE m # 1
    <3>1. m - 1 \in 1..Len(cmds') /\ m - 1 \in Nat /\ (m - 1) + 1 = m
      BY <1>1, <1>6, <2>2
    <3>2. KeptAfter(k, m - 1)'
      BY <1>3, <1>6, <3>1
    <3>3. cmds'[m - 1] = cmds[m]
      BY <1>1, <3>1
    <3>4. (cmds'[m - 1]).key = k /\ Arms(cmds'[m - 1])
      BY <1>6, <3>3
    <3> QED
      BY <3>1, <3>2, <3>4 DEF Armed, Arms
  <2> QED
    BY <2>1, <2>2
<1> QED
  BY <1>5, <1>6 DEF Armed

\* Every step keeps the values with a ttl covered.
LEMMA CoverStep ==
    ASSUME TypeInv, CoverInv, [Next]_vars PROVE CoverInv'
<1> USE CacheAssumption DEF workerVars, callerVars
<1>0. ASSUME cmds' = cmds, timer' = timer, NEW k \in Keys PROVE Armed(k)' <=> Armed(k)
  BY <1>0 DEF Armed, KeptAfter, Arms, Keeps
<1>1. ASSUME NEW v \in Values, InsertMap(v) PROVE CoverInv'
  <2>1. /\ map' = [map EXCEPT ![KeyOf[v]] = v] /\ ipc' = [ipc EXCEPT ![v] = "mapped"]
        /\ purge' = purge /\ cmds' = cmds /\ timer' = timer /\ rpc' = rpc /\ rkey' = rkey
        /\ overtook \subseteq overtook'
        /\ v \in Mortal \ overtook' =>
              \A u \in Values : ipc[u] = "mapped" /\ KeyOf[u] = KeyOf[v] => u \in Mortal
    BY <1>1 DEF InsertMap
  <2>2. ASSUME NEW k \in Keys, map'[k] \in Mortal \ overtook'
        PROVE  /\ purge = "running" => Covered(k)'
               /\ \A u \in Values : ipc'[u] = "mapped" /\ KeyOf[u] = k => u \in Mortal
    <3>1. CASE KeyOf[v] = k
      BY <2>1, <2>2, <3>1 DEF Covered, TypeInv, TypeOK
    <3>2. CASE KeyOf[v] # k
      <4>1. map[k] \in Mortal \ overtook
        BY <2>1, <2>2, <3>2 DEF TypeInv, TypeOK
      <4>2. purge = "running" => Covered(k)
        BY <4>1 DEF CoverInv
      <4>3. purge = "running" => Covered(k)'
        BY <1>0, <2>1, <4>2 DEF Covered, TypeInv, TypeOK
      <4>4. \A u \in Values : ipc'[u] = "mapped" /\ KeyOf[u] = k => u \in Mortal
        BY <2>1, <3>2, <4>1 DEF CoverInv, TypeInv, TypeOK
      <4> QED
        BY <4>3, <4>4
    <3> QED
      BY <3>1, <3>2
  <2> QED
    BY <2>1, <2>2 DEF CoverInv
<1>2. ASSUME NEW v \in Values, InsertSend(v) PROVE CoverInv'
  <2>1. /\ overtook' = overtook /\ map' = map /\ ipc' = [ipc EXCEPT ![v] = "done"]
        /\ ipc[v] = "mapped"
        /\ purge' = purge /\ timer' = timer /\ rpc' = rpc /\ rkey' = rkey
    BY <1>2 DEF InsertSend
  <2> DEFINE c == Command("insert", KeyOf[v], v)
  <2>2. c \in Sendable /\ Send(c) /\ c.key = KeyOf[v] /\ (Arms(c) <=> v \in Mortal)
    BY <1>2 DEF InsertSend, Command, Sendable, Commands, Arms
  <2>3. ASSUME NEW k \in Keys, map[k] \in Mortal \ overtook, purge = "running" PROVE Covered(k)'
    <3>1. CASE KeyOf[v] = k
      <4>1. v \in Mortal
        BY <2>1, <2>3, <3>1 DEF CoverInv
      <4> HIDE DEF c
      <4>2. Armed(k)'
        BY <2>1, <2>2, <2>3, <3>1, <4>1, SendArms
      <4> QED
        BY <4>2 DEF Covered
    <3>2. CASE KeyOf[v] # k
      <4> HIDE DEF c
      <4>1. Armed(k) => Armed(k)'
        BY <2>1, <2>2, <2>3, <3>2, SendArms
      <4>2. Covered(k)
        BY <2>3 DEF CoverInv
      <4> QED
        BY <2>1, <3>2, <4>1, <4>2 DEF Covered, TypeInv, TypeOK
    <3> QED
      BY <3>1, <3>2
  <2> QED
    BY <2>1, <2>3 DEF CoverInv, TypeInv, TypeOK
<1>3. ASSUME NEW r \in Removers, NEW k \in Keys, RemoveSend(r, k) PROVE CoverInv'
  <2>1. /\ overtook' = overtook /\ map' = map /\ ipc' = ipc /\ purge' = purge /\ timer' = timer
        /\ rpc' = [rpc EXCEPT ![r] = "sent"] /\ rkey' = [rkey EXCEPT ![r] = k]
        /\ rpc[r] = "idle"
    BY <1>3 DEF RemoveSend
  <2> DEFINE c == Command("remove", k, None)
  <2>2. c \in Sendable /\ Send(c) /\ c.key = k
    BY <1>3 DEF RemoveSend, Command, Sendable, Commands
  <2>3. ASSUME NEW j \in Keys, map[j] \in Mortal \ overtook, purge = "running" PROVE Covered(j)'
    <3>1. CASE j = k
      BY <2>1, <3>1 DEF Covered, TypeInv, TypeOK
    <3>2. CASE j # k
      <4> HIDE DEF c
      <4>1. Armed(j) => Armed(j)'
        BY <2>1, <2>2, <2>3, <3>2, SendArms
      <4>2. Covered(j)
        BY <2>3 DEF CoverInv
      <4> QED
        BY <2>1, <3>2, <4>1, <4>2 DEF Covered, TypeInv, TypeOK
    <3> QED
      BY <3>1, <3>2
  <2> QED
    BY <2>1, <2>3 DEF CoverInv
<1>4. ASSUME NEW r \in Removers, RemoveMap(r) PROVE CoverInv'
  <2>1. /\ map' = [map EXCEPT ![rkey[r]] = None] /\ rpc' = [rpc EXCEPT ![r] = "done"]
        /\ purge' = purge /\ cmds' = cmds /\ timer' = timer /\ ipc' = ipc /\ rkey' = rkey
        /\ overtook' = overtook
        /\ rpc[r] = "sent" /\ rkey[r] \in Keys
    BY <1>4 DEF RemoveMap, TypeInv
  <2> QED
    BY <1>0, <2>1 DEF CoverInv, Covered, TypeInv, TypeOK
<1>5. ASSUME NEW k \in Keys, Refresh(k) PROVE CoverInv'
  <2>1. /\ overtook' = overtook /\ map' = map /\ ipc' = ipc /\ purge' = purge /\ timer' = timer
        /\ rpc' = rpc /\ rkey' = rkey
    BY <1>5 DEF Refresh
  <2> DEFINE c == Command("refresh", k, map[k])
  <2>2. c \in Sendable /\ Send(c) /\ Keeps(c)
    BY <1>5 DEF Refresh, Command, Sendable, Commands, Keeps, TypeInv, TypeOK
  <2>3. ASSUME NEW j \in Keys, map[j] \in Mortal \ overtook, purge = "running" PROVE Covered(j)'
    <3> HIDE DEF c
    <3>1. Armed(j) => Armed(j)'
      BY <2>1, <2>2, <2>3, SendArms
    <3>2. Covered(j)
      BY <2>3 DEF CoverInv
    <3> QED
      BY <2>1, <3>1, <3>2 DEF Covered
  <2> QED
    BY <2>1, <2>3 DEF CoverInv
<1>6. CASE HandleCommand
  <2>1. /\ overtook' = overtook /\ map' = map /\ ipc' = ipc
        /\ purge' = purge /\ rpc' = rpc /\ rkey' = rkey
    BY <1>6 DEF HandleCommand
  <2>2. \A k \in Keys : Armed(k) => Armed(k)'
    BY <1>6, HandleArms
  <2> QED
    BY <2>1, <2>2 DEF CoverInv, Covered
<1>7. CASE PurgeStops
  BY <1>7 DEF PurgeStops, CoverInv, TypeInv, TypeOK
<1>8. ASSUME NEW k \in Keys, Expire(k) PROVE CoverInv'
  <2>1. /\ map' = [map EXCEPT ![k] = None] /\ timer' = [timer EXCEPT ![k] = None]
        /\ cmds' = cmds /\ ipc' = ipc /\ purge' = purge /\ rpc' = rpc /\ rkey' = rkey
        /\ overtook' = overtook
    BY <1>8 DEF Expire
  <2>2. ASSUME NEW j \in Keys, j # k, Armed(j) PROVE Armed(j)'
    BY <2>1, <2>2 DEF Armed, KeptAfter, Arms, Keeps, TypeInv, TypeOK
  <2> QED
    BY <2>1, <2>2 DEF CoverInv, Covered, TypeInv, TypeOK
<1>9. CASE Worker \/ Cancel \/ UNCHANGED vars
  <2>1. /\ map' = map /\ cmds' = cmds /\ timer' = timer /\ purge' = purge
        /\ ipc' = ipc /\ rpc' = rpc /\ rkey' = rkey /\ overtook' = overtook
    BY <1>9 DEF Worker, WorkerReceives, WorkerSpawns, WorkerStops, CallbackEnds, Cancel, vars
  <2> QED
    BY <1>0, <2>1 DEF CoverInv, Covered
<1> QED
  BY <1>1, <1>2, <1>3, <1>4, <1>5, <1>6, <1>7, <1>8, <1>9 DEF Next, Callers, PurgeTask

\* No value with a ttl stays in the map without a timer once the calls and
\* commands of its key are through, whatever insertions, removals, refreshes
\* and expirations race, unless it entered the map between the two steps of an
\* insertion of its key without a ttl.
THEOREM TimersCorrect == Spec => []NothingOutlivesItsTimer
<1>1. Init => CoverInv
  BY CacheAssumption DEF Init, CoverInv
<1>2. TypeInv /\ CoverInv /\ [Next]_vars => CoverInv'
  BY CoverStep
<1>3. TypeInv /\ CoverInv => NothingOutlivesItsTimer
  <2> SUFFICES ASSUME TypeInv, CoverInv, purge = "running",
                      NEW k \in Keys, Settled(k), map[k] \in Mortal \ overtook
               PROVE  timer[k] # None
    BY DEF NothingOutlivesItsTimer
  <2>1. Covered(k)
    BY DEF CoverInv
  <2>2. Armed(k)
    BY <2>1 DEF Covered, Settled
  <2> QED
    BY <2>2 DEF Armed, Settled
<1> QED
  BY <1>1, <1>2, <1>3, TypeInit, TypeStep, PTL DEF Spec
=============================================================================
