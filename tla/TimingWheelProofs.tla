------------------------- MODULE TimingWheelProofs --------------------------
(***************************************************************************)
(* Machine-checked proofs about TimingWheel, for any keys, times to live,  *)
(* number of slots and size of the wheels.                                 *)
(***************************************************************************)
EXTENDS TimingWheel, FiniteSetTheorems, FunctionTheorems, SequenceTheorems, TLAPS

----------------------------------------------------------------------------
(* Arithmetic of the wheels.                                               *)

\* Quotient and remainder.
LEMMA DivMod ==
    ASSUME NEW x \in Nat, NEW n \in Nat \ {0}
    PROVE  x \div n \in Nat /\ x % n \in Nat /\ x % n < n
  OBVIOUS

\* The largest multiple of n up to x is less than n away from it.
LEMMA LastMultiple ==
    ASSUME NEW x \in Nat, NEW n \in Nat \ {0}
    PROVE  LET m == (x \div n) * n
           IN  /\ m \in Nat /\ m <= x /\ x < m + n
               /\ m % n = 0 /\ m \div n = x \div n
<1>1. (x \div n) * n <= x
  BY SMTT(30)
<1>2. x < (x \div n) * n + n
  BY SMTT(30)
<1>3. ASSUME NEW q \in Nat PROVE q * n \in Nat /\ (q * n) % n = 0 /\ (q * n) \div n = q
  OBVIOUS
<1> QED
  BY <1>1, <1>2, <1>3, DivMod

\* A product of positive numbers is one.
LEMMA Product ==
    ASSUME NEW m \in Nat \ {0}, NEW n \in Nat \ {0}
    PROVE  m * n \in Nat \ {0}
  OBVIOUS

\* ttl_to_tick rounds up: the ticks cover the milliseconds, and there is one.
LEMMA TtlCovers ==
    ASSUME NEW ms \in Nat
    PROVE  /\ TtlToTick(ms) \in Nat \ {0}
           /\ TtlToTick(ms) * TickMs >= ms
<1>0. TickMs \in Nat \ {0}
  BY WheelAssumption
<1>1. CASE ms = 0
  BY <1>0, <1>1 DEF TtlToTick
<1>2. CASE ms # 0
  <2> DEFINE n == ms + TickMs - 1
             q == n \div TickMs
  <2>1. n \in Nat
    BY <1>0, <1>2
  <2>2. q \in Nat /\ q * TickMs \in Nat /\ n < q * TickMs + TickMs
    BY <1>0, <2>1, DivMod, LastMultiple
  <2>3. q * TickMs >= ms
    BY <1>0, <2>1, <2>2
  <2>4. q # 0
    BY <1>0, <1>2, <2>3
  <2> QED
    BY <1>2, <2>2, <2>3, <2>4 DEF TtlToTick
<1> QED
  BY <1>1, <1>2

----------------------------------------------------------------------------
(* Scheduling.                                                             *)

\* Tick n takes the tuple w out of the wheel it is in.
Visits(w, n) ==
    \/ w.level = 1 /\ w.at = n % L1
    \/ w.level = 2 /\ n % L1 = 0 /\ w.at = (n \div L1) % L2
    \/ w.level = 3 /\ n % (L1 * L2) = 0 /\ w.at = (n \div (L1 * L2)) % L3

\* After tick now, w will be taken out early enough for an expiry at x: in the
\* tick after x at the latest, and from an upper wheel not after x.
Timely(w, x, now) ==
    \E n \in (now + 1)..(x + 1) : Visits(w, n) /\ (w.level # 1 => n <= x)

Tuples == [idx : Slots, ver : 1..MaxVersion, level : 1..3, at : Nat]

\* schedule puts a tuple where it is taken out in time.
LEMMA PlaceIsTimely ==
    ASSUME NEW i \in Slots, NEW v \in 1..MaxVersion, NEW x \in Nat, NEW now \in Nat
    PROVE  LET w == Place(i, v, x, now)
           IN  /\ w \in Tuples /\ w.idx = i /\ w.ver = v
               /\ w.at < <<L1, L2, L3>>[w.level]
               /\ x >= now => Timely(w, x, now)
<1>0. /\ L1 \in Nat \ {0} /\ L2 \in Nat \ {0} /\ L3 \in Nat \ {0}
      /\ L1 * L2 \in Nat \ {0}
  BY WheelAssumption, Product
<1> DEFINE w == Place(i, v, x, now)
<1>1. CASE x <= now
  <2>1. w = [idx |-> i, ver |-> v, level |-> 1, at |-> (now + 1) % L1]
    BY <1>0, <1>1 DEF Place
  <2>2. (now + 1) % L1 \in Nat /\ (now + 1) % L1 < L1
    BY <1>0, DivMod
  <2>3. x >= now => now + 1 \in (now + 1)..(x + 1) /\ Visits(w, now + 1)
    BY <2>1 DEF Visits
  <2> QED
    BY <1>0, <2>1, <2>2, <2>3 DEF Timely, Tuples
<1>2. CASE x > now /\ x - now < L1
  <2>1. w = [idx |-> i, ver |-> v, level |-> 1, at |-> x % L1]
    BY <1>2 DEF Place
  <2>2. x % L1 \in Nat /\ x % L1 < L1
    BY <1>0, DivMod
  <2>3. x \in (now + 1)..(x + 1) /\ Visits(w, x)
    BY <1>2, <2>1 DEF Visits
  <2> QED
    BY <1>0, <2>1, <2>2, <2>3 DEF Timely, Tuples
<1>3. CASE x - now >= L1 /\ x - now < L1 * L2
  <2>1. w = [idx |-> i, ver |-> v, level |-> 2, at |-> (x \div L1) % L2]
    BY <1>0, <1>3 DEF Place
  <2> DEFINE m == (x \div L1) * L1
  <2>2. x \div L1 \in Nat
    BY <1>0, DivMod
  <2>3. (x \div L1) % L2 \in Nat /\ (x \div L1) % L2 < L2
    BY <1>0, <2>2, DivMod
  <2>4. m \in Nat /\ m <= x /\ x < m + L1 /\ m % L1 = 0 /\ m \div L1 = x \div L1
    BY <1>0, LastMultiple
  <2> HIDE DEF m
  <2>5. m \in (now + 1)..(x + 1) /\ Visits(w, m)
    BY <1>0, <1>3, <2>1, <2>4 DEF Visits
  <2> QED
    BY <1>0, <2>1, <2>3, <2>4, <2>5 DEF Timely, Tuples
<1>4. CASE x - now >= L1 /\ x - now >= L1 * L2
  <2> DEFINE N == L1 * L2
  <2>1. w = [idx |-> i, ver |-> v, level |-> 3, at |-> (x \div N) % L3]
    BY <1>0, <1>4 DEF Place
  <2> DEFINE m == (x \div N) * N
  <2>2. x \div N \in Nat
    BY <1>0, DivMod
  <2>3. (x \div N) % L3 \in Nat /\ (x \div N) % L3 < L3
    BY <1>0, <2>2, DivMod
  <2>4. m \in Nat /\ m <= x /\ x < m + N /\ m % N = 0 /\ m \div N = x \div N
    BY <1>0, LastMultiple
  <2>5. Visits(w, m)
    BY <2>1, <2>4 DEF Visits
  <2> HIDE DEF m, N
  <2>6. m \in (now + 1)..(x + 1)
    BY <1>0, <1>4, <2>4 DEF N
  <2> QED
    BY <1>0, <2>1, <2>3, <2>4, <2>5, <2>6 DEF Timely, Tuples
<1> QED
  BY <1>0, <1>1, <1>2, <1>3, <1>4
----------------------------------------------------------------------------
(* Types, and what the loop keeps.                                         *)

Turned == {"turn", "bucket", "send"}

\* A bucket is empty before the next is taken, and a batch is sent when full.
LoopInv ==
    /\ pc \in Turned => tick <= target /\ target <= clock
    /\ pc \notin {"bucket", "send"} => bucket = {}
    /\ pc # "send" => Len(batch) < Batch

\* An entry in use has been written, and expires when its ttl has passed.
EntryInv ==
    \A i \in Used : version[i] > 0 /\ ttl[i] > 0 /\ due[i] <= expire[i] * TickMs

TypeInv ==
    /\ TypeOK
    /\ due \in [Slots -> Nat]
    /\ free \in Seq(Slots) /\ batch \in Seq(Keys)
    /\ bucket \subseteq Tuples /\ target \in Nat
    /\ LoopInv /\ EntryInv

\* The constants are numbers.
LEMMA Constants ==
    /\ TickMs \in Nat \ {0} /\ L1 \in Nat \ {0} /\ L2 \in Nat \ {0} /\ L3 \in Nat \ {0}
    /\ MaxCatchup \in Nat \ {0} /\ Batch \in Nat \ {0} /\ EventCap \in Nat \ {0}
    /\ Capacity \in Nat \ {0} /\ MaxVersion \in Nat \ {0} /\ MaxClock \in Nat
    /\ Ttls \subseteq Nat \ {0} /\ None \notin Keys /\ None \notin Nat
<1>1. Ttls \subseteq Nat \ {0}
  BY WheelAssumption, TtlCovers DEF Ttls
<1>2. None \notin Keys /\ None \notin Nat
  BY WheelAssumption
<1> QED
  BY <1>1, <1>2, WheelAssumption

\* The ttl of a slot is a number of ticks.
LEMMA TtlType == ASSUME TypeInv, NEW i \in Slots PROVE ttl[i] \in Nat
<1>1. ttl[i] \in Ttls \/ ttl[i] = 0
  BY DEF TypeInv, TypeOK
<1>2. \A t \in Ttls : t \in Nat
  BY Constants
<1> QED
  BY <1>1, <1>2

\* A tuple in the wheels or in the bucket stays one when it is placed again.
LEMMA Replaced ==
    ASSUME TypeInv, NEW w \in Tuples, NEW now \in Nat
    PROVE  LET v == Reschedule(w, now)
           IN  /\ v \in Tuples /\ v.idx = w.idx /\ v.ver = w.ver
               /\ v.at < <<L1, L2, L3>>[v.level]
               /\ expire[w.idx] >= now => Timely(v, expire[w.idx], now)
<1>1. w.idx \in Slots /\ w.ver \in 1..MaxVersion /\ expire[w.idx] \in Nat
  BY DEF TypeInv, TypeOK, Tuples
<1> QED
  BY <1>1, PlaceIsTimely DEF Reschedule

\* insert writes a slot of the list it allocates from.
LEMMA OccupyKeepsTypes ==
    ASSUME TypeInv, NEW k \in Keys, NEW ms \in Millis,
           NEW list \in Seq(Slots), list # <<>>,
           NEW keys \in [Slots -> Keys \cup {None}],
           \A j \in Slots : keys[j] # None => key[j] # None,
           Occupy(k, ms, list, keys), UNCHANGED loopVars
    PROVE  TypeInv'
<1> DEFINE i == Head(list)
           t == TtlToTick(ms)
           w == Place(i, 1, tick + t, tick)
<1>1. i \in Slots /\ Tail(list) \in Seq(Slots)
  BY HeadTailProperties
<1>2. ms \in Nat /\ t \in Nat \ {0} /\ t \in Ttls /\ t * TickMs >= ms
  BY WheelAssumption, TtlCovers DEF Ttls
<1>3. tick \in Nat
  BY Constants DEF TypeInv, TypeOK
<1>4. w \in Tuples /\ w.at < <<L1, L2, L3>>[w.level]
  <2>1. 1 \in 1..MaxVersion
    BY Constants
  <2>2. tick + t \in Nat
    BY <1>2, <1>3
  <2> HIDE DEF t, i
  <2> QED
    BY <1>1, <1>3, <2>1, <2>2, PlaceIsTimely
<1> HIDE DEF i, t, w
<1>5. ASSUME NEW a \in Nat, NEW b \in Nat, NEW c \in Nat
      PROVE  (a + b) * c = a * c + b * c /\ a * c \in Nat /\ b * c \in Nat
  OBVIOUS
<1>6. /\ tick * TickMs \in Nat /\ t * TickMs \in Nat
      /\ (tick + t) * TickMs = tick * TickMs + t * TickMs
  BY <1>2, <1>3, <1>5, Constants
<1>7. tick * TickMs + ms \in Nat /\ tick * TickMs + ms <= (tick + t) * TickMs
  BY <1>2, <1>6
<1> USE DEF TypeInv, TypeOK, loopVars
<1>8. /\ key' = [keys EXCEPT ![i] = k]
      /\ version' = [version EXCEPT ![i] = 1]
      /\ ttl' = [ttl EXCEPT ![i] = t]
      /\ expire' = [expire EXCEPT ![i] = tick + t]
      /\ due' = [due EXCEPT ![i] = tick * TickMs + ms]
      /\ free' = Tail(list)
      /\ wheel' = wheel \cup {w}
  BY DEF Occupy, i, t, w
<1>9. /\ key' \in [Slots -> Keys \cup {None}] /\ version' \in [Slots -> 0..MaxVersion]
      /\ expire' \in [Slots -> Nat] /\ ttl' \in [Slots -> Ttls \cup {0}]
      /\ due' \in [Slots -> Nat] /\ free' \in Seq(Slots)
  <2>1. 1 \in 0..MaxVersion /\ tick + t \in Nat
    BY <1>2, <1>3, Constants
  <2> QED
    BY <1>1, <1>2, <1>7, <1>8, <2>1
<1>10. EntryInv'
  <2> SUFFICES ASSUME NEW j \in Slots, key'[j] # None
               PROVE  version'[j] > 0 /\ ttl'[j] > 0 /\ due'[j] <= expire'[j] * TickMs
    BY DEF EntryInv, Used
  <2>1. CASE j = i
    BY <1>1, <1>2, <1>7, <1>8, <2>1
  <2>2. CASE j # i
    BY <1>1, <1>8, <2>2 DEF EntryInv, Used
  <2> QED
    BY <2>1, <2>2
<1>11. LoopInv'
  BY DEF LoopInv
<1>12. /\ wheel' \subseteq Tuples
       /\ \A v \in wheel' : v.at < <<L1, L2, L3>>[v.level]
  BY <1>4, <1>8 DEF Tuples
<1> QED
  BY <1>9, <1>10, <1>11, <1>12 DEF Tuples

\* Every variable keeps its type under every step of the code.
LEMMA TypeStep == TypeInv /\ [Next]_vars => TypeInv'
<1> SUFFICES ASSUME TypeInv, [Next]_vars PROVE TypeInv'
  OBVIOUS
<1>a. tick \in Nat /\ clock \in Nat /\ tick <= clock
  BY Constants DEF TypeInv, TypeOK
<1>b. ASSUME NEW i \in Slots PROVE Freed(i) \in Seq(Slots) /\ Freed(i) # <<>>
  BY ConcatProperties DEF Freed, TypeInv
<1>1. ASSUME NEW k \in Keys, NEW ms \in Millis, Insert(k, ms) PROVE TypeInv'
  <2>1. ASSUME NEW i \in FindEntry(k), Occupy(k, ms, Freed(i), [key EXCEPT ![i] = None])
        PROVE  TypeInv'
    <3>1. i \in Slots
      BY DEF FindEntry, Used
    <3>2. [key EXCEPT ![i] = None] \in [Slots -> Keys \cup {None}]
      BY DEF TypeInv, TypeOK
    <3>3. \A j \in Slots : [key EXCEPT ![i] = None][j] # None => key[j] # None
      BY DEF TypeInv, TypeOK
    <3> QED
      BY <1>1, <1>b, <2>1, <3>1, <3>2, <3>3, OccupyKeepsTypes DEF Insert
  <2>2. CASE free # <<>> /\ Occupy(k, ms, free, key)
    BY <1>1, <2>2, OccupyKeepsTypes DEF Insert, TypeInv, TypeOK
  <2> QED
    BY <1>1, <2>1, <2>2 DEF Insert
<1>2. ASSUME NEW k \in Keys, NEW i \in Slots, Refresh(k, i) PROVE TypeInv'
  <2> DEFINE w == Place(i, version[i] + 1, tick + ttl[i], tick)
  <2>0. i \in Used /\ ttl[i] \in Ttls \cup {0} /\ ttl[i] > 0
    BY <1>2 DEF Refresh, FindEntry, TypeInv, TypeOK, EntryInv
  <2>1. ttl[i] \in Nat \ {0} /\ version[i] \in Nat /\ version[i] + 1 \in 1..MaxVersion
    <3>1. version[i] \in 0..MaxVersion /\ version[i] < MaxVersion
      BY <1>2 DEF Refresh, TypeInv, TypeOK
    <3>2. MaxVersion \in Nat
      BY Constants
    <3>3. version[i] \in Nat /\ version[i] + 1 \in 1..MaxVersion
      BY <3>1, <3>2
    <3> QED
      BY <2>0, <3>3, TtlType
  <2>2. tick + ttl[i] \in Nat /\ (tick + ttl[i]) * TickMs \in Nat
    BY <1>a, <2>1, Constants
  <2>3. w \in Tuples /\ w.at < <<L1, L2, L3>>[w.level]
    BY <1>a, <2>1, <2>2, PlaceIsTimely
  <2> HIDE DEF w
  <2>4. /\ version' = [version EXCEPT ![i] = version[i] + 1]
        /\ expire' = [expire EXCEPT ![i] = tick + ttl[i]]
        /\ due' = [due EXCEPT ![i] = (tick + ttl[i]) * TickMs]
        /\ wheel' = wheel \cup {w}
        /\ UNCHANGED <<loopVars, key, ttl, free>>
    BY <1>2 DEF Refresh, w
  <2> USE DEF TypeInv, TypeOK
  <2>5. /\ version' \in [Slots -> 0..MaxVersion] /\ expire' \in [Slots -> Nat]
        /\ due' \in [Slots -> Nat]
    <3>1. version[i] + 1 \in 0..MaxVersion
      BY <2>1
    <3> QED
      BY <2>2, <2>4, <3>1
  <2>6. EntryInv'
    <3> SUFFICES ASSUME NEW j \in Slots, key'[j] # None
                 PROVE  version'[j] > 0 /\ ttl'[j] > 0 /\ due'[j] <= expire'[j] * TickMs
      BY DEF EntryInv, Used
    <3>1. CASE j = i
      BY <2>1, <2>2, <2>4, <3>1
    <3>2. CASE j # i
      BY <2>4, <3>2 DEF EntryInv, Used
    <3> QED
      BY <3>1, <3>2
  <2>7. LoopInv'
    BY <2>4 DEF LoopInv, loopVars
  <2>8. wheel' \subseteq Tuples /\ \A v \in wheel' : v.at < <<L1, L2, L3>>[v.level]
    BY <2>3, <2>4 DEF Tuples
  <2> QED
    BY <2>4, <2>5, <2>6, <2>7, <2>8 DEF Tuples, loopVars
<1>c. ASSUME NEW i \in Slots, key' = [key EXCEPT ![i] = None], due' = [due EXCEPT ![i] = 0],
             UNCHANGED <<version, expire, ttl>>
      PROVE  /\ key' \in [Slots -> Keys \cup {None}] /\ due' \in [Slots -> Nat] /\ EntryInv'
  <2> USE DEF TypeInv, TypeOK
  <2>1. /\ key' \in [Slots -> Keys \cup {None}] /\ due' \in [Slots -> Nat]
    BY <1>c
  <2>2. ASSUME NEW j \in Slots, key'[j] # None
        PROVE  version'[j] > 0 /\ ttl'[j] > 0 /\ due'[j] <= expire'[j] * TickMs
    <3>1. j # i /\ key[j] # None /\ due'[j] = due[j]
      BY <1>c, <2>2
    <3> QED
      BY <1>c, <3>1 DEF EntryInv, Used
  <2> QED
    BY <2>1, <2>2 DEF EntryInv, Used
<1>3. ASSUME NEW k \in Keys, NEW i \in Slots, Delete(k, i) PROVE TypeInv'
  <2>1. /\ key' \in [Slots -> Keys \cup {None}] /\ due' \in [Slots -> Nat] /\ EntryInv'
    BY <1>3, <1>c DEF Delete
  <2>2. free' \in Seq(Slots)
    BY <1>3, <1>b DEF Delete
  <2> QED
    BY <1>3, <2>1, <2>2 DEF Delete, TypeInv, TypeOK, LoopInv, loopVars, Tuples
<1>d. UNCHANGED slotVars => EntryInv'
  BY DEF TypeInv, EntryInv, Used, slotVars
<1>e. /\ <<>> \in Seq(Keys) /\ Len(<<>>) = 0 /\ 0 < Batch /\ 0 <= Batch
      /\ Send => events' \in 0..EventCap
  <2>1. events \in 0..EventCap
    BY DEF TypeInv, TypeOK
  <2> QED
    BY <2>1, Constants DEF Send
<1>f. ASSUME UNCHANGED <<slotVars, wheel>>, bucket' = bucket,
             tick' \in 0..clock', clock' \in 0..MaxClock, target' \in Nat,
             pc' \in {"drain", "wait", "turn", "bucket", "send", "stopped"},
             batch' \in Seq(Keys), Len(batch') <= Batch, events' \in 0..EventCap, LoopInv'
      PROVE  TypeInv'
  BY <1>f, <1>d DEF TypeInv, TypeOK, slotVars, Tuples
<1>4. CASE Drained
  BY <1>4, <1>f DEF Drained, TypeInv, TypeOK, LoopInv, Turned
<1>g. /\ tick \in 0..clock /\ clock \in 0..MaxClock /\ target \in Nat
      /\ events \in 0..EventCap /\ batch \in Seq(Keys) /\ Len(batch) <= Batch /\ LoopInv
  BY DEF TypeInv, TypeOK
<1>5. CASE Disconnected
  <2>1. batch' \in Seq(Keys) /\ batch' = <<>> /\ events' \in 0..EventCap
    BY <1>5, <1>e, <1>g DEF Disconnected
  <2> QED
    BY <1>5, <1>e, <1>f, <1>g, <2>1 DEF Disconnected, LoopInv, Turned
<1>6. CASE TimePasses
  <2>1. clock' \in 0..MaxClock /\ tick' \in 0..clock'
    BY <1>6, <1>a, <1>g, Constants DEF TimePasses
  <2>2. pc = "wait" /\ pc' = pc /\ UNCHANGED <<slotVars, wheel, target, bucket, batch, events>>
    BY <1>6 DEF TimePasses
  <2>3. LoopInv'
    BY <1>g, <2>2 DEF LoopInv, Turned
  <2> QED
    BY <1>f, <1>g, <2>1, <2>2, <2>3
<1>7. CASE OnTick
  <2>1. target' \in Nat /\ target' <= clock /\ tick <= target'
    BY <1>7, <1>a, Constants DEF OnTick
  <2>2. /\ pc = "wait" /\ pc' = "turn"
        /\ UNCHANGED <<slotVars, wheel, tick, clock, bucket, batch, events>>
    BY <1>7 DEF OnTick
  <2>3. LoopInv'
    BY <1>g, <2>1, <2>2 DEF LoopInv, Turned
  <2> QED
    BY <1>f, <1>g, <2>1, <2>2, <2>3
<1>8. CASE TurnWheel
  <2> DEFINE now == tick + 1
             moved == Cascading(now)
             all == (wheel \ moved) \cup {Reschedule(w, now) : w \in {v \in moved : Live(v)}}
             taken == {w \in all : w.level = 1 /\ w.at = now % L1}
  <2>1. /\ pc = "turn" /\ tick < target /\ tick' = now /\ wheel' = all \ taken
        /\ bucket' = taken /\ pc' = "bucket"
        /\ UNCHANGED <<slotVars, clock, target, batch, events>>
    BY <1>8 DEF TurnWheel
  <2>2. \A w \in all : w \in Tuples /\ w.at < <<L1, L2, L3>>[w.level]
    <3>1. moved \subseteq wheel /\ wheel \subseteq Tuples
      BY DEF Cascading, TypeInv, TypeOK, Tuples
    <3>2. \A w \in wheel : w.at < <<L1, L2, L3>>[w.level]
      BY DEF TypeInv, TypeOK
    <3>3. now \in Nat
      BY <1>a
    <3> HIDE DEF moved, now
    <3> QED
      BY <3>1, <3>2, <3>3, Replaced
  <2> HIDE DEF all
  <2>3. wheel' \subseteq Tuples /\ bucket' \subseteq Tuples
        /\ \A w \in wheel' : w.at < <<L1, L2, L3>>[w.level]
    BY <2>1, <2>2
  <2>4. target \in Nat /\ target <= clock
    BY <2>1 DEF TypeInv, LoopInv, Turned
  <2>5. tick' \in 0..clock' /\ tick' <= target' /\ target' <= clock'
    BY <1>a, <2>1, <2>4
  <2>6. LoopInv'
    BY <2>1, <2>5 DEF TypeInv, LoopInv
  <2> HIDE DEF taken
  <2> QED
    BY <1>d, <2>1, <2>3, <2>5, <2>6 DEF TypeInv, TypeOK, Tuples, slotVars
<1>9. CASE SendFullBatch
  <2>1. batch' \in Seq(Keys) /\ batch' = <<>> /\ events' \in 0..EventCap
    BY <1>9, <1>e DEF SendFullBatch
  <2>2. LoopInv'
    BY <1>9, <1>e, <1>g, <2>1 DEF SendFullBatch, LoopInv, Turned
  <2> QED
    BY <1>9, <1>e, <1>f, <1>g, <2>1, <2>2 DEF SendFullBatch
<1>10. CASE BucketDone
  BY <1>10, <1>f, <1>g DEF BucketDone, LoopInv, Turned
<1>11. CASE Caught
  <2>1. batch' \in Seq(Keys) /\ batch' = <<>> /\ events' \in 0..EventCap
    BY <1>11, <1>e, <1>g DEF Caught
  <2>2. LoopInv'
    BY <1>11, <1>e, <1>g, <2>1 DEF Caught, LoopInv, Turned
  <2> QED
    BY <1>11, <1>e, <1>f, <1>g, <2>1, <2>2 DEF Caught
<1>12. ASSUME NEW w \in bucket, SkipTuple(w) PROVE TypeInv'
  BY <1>12, <1>d DEF SkipTuple, TypeInv, TypeOK, LoopInv, slotVars, Tuples, Turned
<1>13. ASSUME NEW w \in bucket, MoveTuple(w) PROVE TypeInv'
  <2>1. w \in Tuples
    BY DEF TypeInv
  <2>2. Reschedule(w, tick) \in Tuples
        /\ Reschedule(w, tick).at < <<L1, L2, L3>>[Reschedule(w, tick).level]
    BY <1>a, <2>1, Replaced
  <2>3. wheel' \subseteq Tuples /\ \A v \in wheel' : v.at < <<L1, L2, L3>>[v.level]
    BY <1>13, <2>2 DEF MoveTuple, TypeInv, TypeOK, Tuples
  <2> QED
    BY <1>13, <1>d, <2>3 DEF MoveTuple, TypeInv, TypeOK, LoopInv, slotVars, Tuples, Turned
<1>14. ASSUME NEW w \in bucket, ExpireTuple(w) PROVE TypeInv'
  <2>1. w.idx \in Slots
    BY DEF TypeInv, Tuples
  <2>2. key' \in [Slots -> Keys \cup {None}] /\ due' \in [Slots -> Nat] /\ EntryInv'
    BY <1>14, <1>c, <2>1 DEF ExpireTuple, Release
  <2>3. free' \in Seq(Slots)
    BY <1>14, <1>b, <2>1 DEF ExpireTuple
  <2>4. key[w.idx] \in Keys /\ Len(batch) \in Nat /\ Len(batch) < Batch
    BY <1>14, <2>1, LenProperties DEF ExpireTuple, Live, TypeInv, TypeOK, LoopInv
  <2>5. batch' \in Seq(Keys) /\ Len(batch') = Len(batch) + 1
    BY <1>14, <2>4, AppendProperties DEF ExpireTuple, Release, TypeInv
  <2>6. LoopInv' /\ Len(batch') <= Batch
    BY <1>14, <2>4, <2>5, Constants DEF ExpireTuple, Release, TypeInv, LoopInv, Turned
  <2> QED
    BY <1>14, <2>2, <2>3, <2>5, <2>6 DEF ExpireTuple, Release, TypeInv, TypeOK, Tuples
<1>15. CASE NextBatch
  <2>1. events' \in 0..EventCap
    BY <1>15, <1>g, Constants DEF NextBatch
  <2>2. pc' = pc /\ UNCHANGED <<slotVars, wheel, tick, clock, target, bucket, batch>>
    BY <1>15 DEF NextBatch
  <2> QED
    BY <1>f, <1>g, <2>1, <2>2 DEF LoopInv, TypeInv, TypeOK
<1>16. CASE UNCHANGED vars
  BY <1>16, <1>d DEF vars, TypeInv, TypeOK, LoopInv, slotVars, Tuples, Turned
<1> QED
  BY <1>1, <1>2, <1>3, <1>4, <1>5, <1>6, <1>7, <1>8, <1>9, <1>10, <1>11, <1>12, <1>13, <1>14,
     <1>15, <1>16 DEF Next, Commands, Turning
----------------------------------------------------------------------------
(* The slab.                                                               *)

Members(list) == {list[n] : n \in 1..Len(list)}
Distinct(list) == \A m, n \in 1..Len(list) : list[m] = list[n] => m = n

\* A list without duplicates has as many members as entries.
LEMMA DistinctCounts ==
    ASSUME NEW S, NEW list \in Seq(S), Distinct(list)
    PROVE  Cardinality(Members(list)) = Len(list)
<1>1. Len(list) \in Nat
  BY LenProperties
<1> DEFINE f == [n \in 1..Len(list) |-> list[n]]
<1>2. f \in Bijection(1..Len(list), Members(list))
  <2>1. f \in [1..Len(list) -> Members(list)]
    BY DEF Members
  <2>2. \A m, n \in 1..Len(list) : f[m] = f[n] => m = n
    BY DEF Distinct
  <2>3. \A x \in Members(list) : \E n \in 1..Len(list) : f[n] = x
    BY DEF Members
  <2> HIDE DEF f
  <2> QED
    BY <2>1, <2>2, <2>3, Fun_IsBij
<1>3. ExistsBijection(1..Len(list), Members(list))
  BY <1>2 DEF ExistsBijection
<1> QED
  BY <1>1, <1>3, FS_CountingElements

\* Taking the head off a list of distinct slots.
LEMMA TailOfList ==
    ASSUME NEW S, NEW list \in Seq(S), list # <<>>, Distinct(list)
    PROVE  /\ Head(list) \in Members(list) /\ Distinct(Tail(list))
           /\ Members(Tail(list)) = Members(list) \ {Head(list)}
<1>1. /\ Len(list) \in Nat \ {0} /\ Head(list) = list[1] /\ Tail(list) \in Seq(S)
      /\ Len(Tail(list)) = Len(list) - 1
      /\ \A n \in 1..Len(Tail(list)) : Tail(list)[n] = list[n + 1]
  BY HeadTailProperties, EmptySeq, LenProperties
<1>2. Head(list) \in Members(list)
  BY <1>1 DEF Members
<1>3. \A n \in 1..Len(Tail(list)) : n + 1 \in 1..Len(list) /\ n + 1 # 1
  BY <1>1
<1>4. \A n \in 1..Len(list) : n # 1 => n - 1 \in 1..Len(Tail(list)) /\ (n - 1) + 1 = n
  BY <1>1
<1>5. Distinct(Tail(list))
  BY <1>1, <1>3 DEF Distinct
<1>6. \A x \in Members(Tail(list)) : x \in Members(list) /\ x # Head(list)
  <2> SUFFICES ASSUME NEW n \in 1..Len(Tail(list))
               PROVE  Tail(list)[n] \in Members(list) /\ Tail(list)[n] # Head(list)
    BY DEF Members
  <2>1. 1 \in 1..Len(list)
    BY <1>1
  <2> QED
    BY <1>1, <1>3, <2>1 DEF Members, Distinct
<1>7. \A x \in Members(list) : x # Head(list) => x \in Members(Tail(list))
  <2> SUFFICES ASSUME NEW n \in 1..Len(list), list[n] # Head(list)
               PROVE  list[n] \in Members(Tail(list))
    BY DEF Members
  <2>1. n # 1
    BY <1>1
  <2>2. Tail(list)[n - 1] = list[n]
    BY <1>1, <1>4, <2>1
  <2> QED
    BY <1>4, <2>1, <2>2 DEF Members
<1> QED
  BY <1>2, <1>5, <1>6, <1>7

\* Putting a slot that is not on the list at its head.
LEMMA HeadOfList ==
    ASSUME NEW S, NEW list \in Seq(S), NEW i \in S
    PROVE  /\ Head(<<i>> \o list) = i /\ Tail(<<i>> \o list) = list
           /\ Members(<<i>> \o list) = Members(list) \cup {i}
           /\ Distinct(list) /\ i \notin Members(list) => Distinct(<<i>> \o list)
<1> DEFINE longer == <<i>> \o list
<1>1. /\ longer \in Seq(S) /\ Len(longer) = Len(list) + 1 /\ Len(list) \in Nat
      /\ \A n \in 1..Len(longer) : longer[n] = IF n = 1 THEN i ELSE list[n - 1]
  BY ConcatProperties, LenProperties
<1> HIDE DEF longer
<1>2. longer # <<>> /\ Head(longer) = i
  BY <1>1, HeadTailProperties, EmptySeq
<1>3. /\ Tail(longer) \in Seq(S) /\ Len(Tail(longer)) = Len(list)
      /\ \A n \in 1..Len(list) : Tail(longer)[n] = list[n]
  BY <1>1, <1>2, HeadTailProperties
<1>4. Tail(longer) = list
  BY <1>3, SeqEqual
<1>5. \A n \in 1..Len(list) : n + 1 \in 1..Len(longer) /\ longer[n + 1] = list[n]
  BY <1>1
<1>6. ASSUME NEW n \in 1..Len(longer)
      PROVE  \/ n = 1 /\ longer[n] = i
             \/ n - 1 \in 1..Len(list) /\ longer[n] = list[n - 1]
  <2>1. n # 1 => n - 1 \in 1..Len(list)
    BY <1>1
  <2>2. longer[n] = IF n = 1 THEN i ELSE list[n - 1]
    BY <1>1
  <2> QED
    BY <2>1, <2>2
<1>7. 1 \in 1..Len(longer)
  BY <1>1
<1>8. Members(longer) = Members(list) \cup {i}
  <2>1. Members(longer) \subseteq Members(list) \cup {i}
    BY <1>6 DEF Members
  <2>2. Members(list) \subseteq Members(longer)
    BY <1>5 DEF Members
  <2>3. i \in Members(longer)
    <3>1. longer[1] = i
      BY <1>1, <1>7
    <3> QED
      BY <1>7, <3>1 DEF Members
  <2> QED
    BY <2>1, <2>2, <2>3
<1>9. ASSUME Distinct(list), i \notin Members(list) PROVE Distinct(longer)
  <2> SUFFICES ASSUME NEW m \in 1..Len(longer), NEW n \in 1..Len(longer), longer[m] = longer[n]
               PROVE  m = n
    BY DEF Distinct
  <2>1. \A l \in 1..Len(list) : list[l] # i
    BY <1>9 DEF Members
  <2>2. \/ m = 1 /\ n = 1
        \/ m - 1 \in 1..Len(list) /\ n - 1 \in 1..Len(list) /\ list[m - 1] = list[n - 1]
    BY <1>6, <2>1
  <2>3. (m = 1 /\ n = 1) \/ m - 1 = n - 1
    BY <1>9, <2>2 DEF Distinct
  <2> QED
    BY <2>3, <1>1
<1> QED
  BY <1>2, <1>4, <1>8, <1>9 DEF longer

\* The free list names the unused slots, each once, and keys have one slot.
SlabInv ==
    /\ Distinct(free)
    /\ Members(free) = Slots \ Used
    /\ OneSlotPerKey

\* A slot that is given back goes to the free list once.
LEMMA FreeKeepsSlab ==
    ASSUME TypeInv, SlabInv, NEW i \in Used, key' = [key EXCEPT ![i] = None], free' = Freed(i)
    PROVE  SlabInv'
<1>1. i \in Slots /\ i \notin Members(free) /\ free \in Seq(Slots)
  BY DEF SlabInv, Used, TypeInv
<1>2. Distinct(free') /\ Members(free') = Members(free) \cup {i}
  BY <1>1, HeadOfList DEF Freed, SlabInv
<1>3. Used' = Used \ {i}
  BY <1>1 DEF Used, TypeInv, TypeOK
<1>4. \A j \in Used' : key'[j] = key[j]
  BY <1>1, <1>3 DEF Used, TypeInv, TypeOK
<1> QED
  BY <1>1, <1>2, <1>3, <1>4 DEF SlabInv, OneSlotPerKey

\* Every step keeps the free list and the index in step with the slots.
LEMMA SlabStep == TypeInv /\ SlabInv /\ [Next]_vars => SlabInv'
<1> SUFFICES ASSUME TypeInv, SlabInv, [Next]_vars PROVE SlabInv'
  OBVIOUS
<1>0. key' = key /\ free' = free => SlabInv'
  BY DEF SlabInv, OneSlotPerKey, Used, Members, Distinct
<1>1. ASSUME NEW k \in Keys, NEW ms \in Millis, Insert(k, ms) PROVE SlabInv'
  <2>1. ASSUME NEW i \in FindEntry(k), Occupy(k, ms, Freed(i), [key EXCEPT ![i] = None])
        PROVE  SlabInv'
    <3>1. i \in Slots /\ key[i] = k
      BY DEF FindEntry, Used
    <3>2. Head(Freed(i)) = i /\ Tail(Freed(i)) = free
      BY <3>1, HeadOfList DEF Freed, TypeInv
    <3>3. key' = [[key EXCEPT ![i] = None] EXCEPT ![i] = k] /\ free' = free
      BY <2>1, <3>2 DEF Occupy
    <3> QED
      BY <1>0, <3>1, <3>3 DEF TypeInv, TypeOK
  <2>2. CASE FindEntry(k) = {} /\ free # <<>> /\ Occupy(k, ms, free, key)
    <3> DEFINE i == Head(free)
    <3>1. /\ i \in Members(free) /\ Distinct(Tail(free))
          /\ Members(Tail(free)) = Members(free) \ {i}
      BY <2>2, TailOfList DEF TypeInv, SlabInv
    <3>2. key' = [key EXCEPT ![i] = k] /\ free' = Tail(free)
      BY <2>2 DEF Occupy
    <3> HIDE DEF i
    <3>3. i \in Slots /\ i \notin Used
      BY <3>1 DEF SlabInv
    <3>4. Used' = Used \cup {i}
      BY <3>2, <3>3, Constants DEF Used, TypeInv, TypeOK
    <3>5. ASSUME NEW j \in Used'
          PROVE  (j = i /\ key'[j] = k) \/ (j \in Used /\ key'[j] = key[j] /\ key[j] # k)
      BY <2>2, <3>2, <3>3, <3>4 DEF Used, FindEntry, TypeInv, TypeOK
    <3>6. OneSlotPerKey'
      BY <3>5 DEF SlabInv, OneSlotPerKey
    <3> QED
      BY <3>1, <3>2, <3>3, <3>4, <3>6 DEF SlabInv
  <2> QED
    BY <1>1, <2>1, <2>2 DEF Insert
<1>2. ASSUME NEW k \in Keys, NEW i \in Slots, Refresh(k, i) PROVE SlabInv'
  BY <1>0, <1>2 DEF Refresh
<1>3. ASSUME NEW k \in Keys, NEW i \in Slots, Delete(k, i) PROVE SlabInv'
  BY <1>3, FreeKeepsSlab DEF Delete, FindEntry
<1>4. ASSUME NEW w \in bucket, ExpireTuple(w) PROVE SlabInv'
  <2>1. w.idx \in Used
    BY <1>4 DEF ExpireTuple, Live, Used, TypeInv, Tuples
  <2> QED
    BY <1>4, <2>1, FreeKeepsSlab DEF ExpireTuple, Release
<1>5. CASE Drained \/ Disconnected \/ TimePasses \/ OnTick \/ NextBatch \/ UNCHANGED vars
  BY <1>0, <1>5
     DEF Drained, Disconnected, TimePasses, OnTick, NextBatch, vars, slotVars
<1>6. CASE TurnWheel \/ SendFullBatch \/ BucketDone \/ Caught
  BY <1>0, <1>6 DEF TurnWheel, SendFullBatch, BucketDone, Caught, slotVars
<1>7. ASSUME NEW w \in bucket, SkipTuple(w) \/ MoveTuple(w) PROVE SlabInv'
  BY <1>0, <1>7 DEF SkipTuple, MoveTuple, slotVars
<1> QED
  BY <1>1, <1>2, <1>3, <1>4, <1>5, <1>6, <1>7 DEF Next, Commands, Turning
----------------------------------------------------------------------------
(* The wheels keep every entry in use scheduled.                           *)

\* A tuple of the entry's version is being looked at, not too late, or waits
\* in a wheel that will give it up in time.
Covered(i) ==
    \/ \E w \in bucket : w.idx = i /\ w.ver = version[i] /\ tick <= expire[i] + 1
    \/ \E w \in wheel : w.idx = i /\ w.ver = version[i] /\ Timely(w, expire[i], tick)

CoverInv == \A i \in Used : Covered(i)

\* The wheels turn only when no entry is overdue.
OnTime == pc = "turn" => \A i \in Used : expire[i] >= tick

\* When the bucket has been worked off, what is covered is not overdue.
LEMMA CoveredIsOnTime == TypeInv /\ CoverInv => OnTime
<1> SUFFICES ASSUME TypeInv, CoverInv, pc = "turn", NEW i \in Used PROVE expire[i] >= tick
  BY DEF OnTime
<1>1. bucket = {} /\ tick \in Nat /\ i \in Slots /\ expire[i] \in Nat
  BY Constants DEF TypeInv, TypeOK, LoopInv, Used
<1>2. PICK w \in wheel : Timely(w, expire[i], tick)
  BY <1>1 DEF CoverInv, Covered
<1> QED
  BY <1>1, <1>2 DEF Timely

\* What covers an entry that a step leaves alone still does.
LEMMA CoverKept ==
    ASSUME NEW i \in Slots, Covered(i), tick' = tick,
           version'[i] = version[i], expire'[i] = expire[i],
           \A w \in bucket : w.idx = i /\ w.ver = version[i] => w \in bucket',
           wheel \subseteq wheel'
    PROVE  Covered(i)'
<1>1. CASE \E w \in bucket : w.idx = i /\ w.ver = version[i] /\ tick <= expire[i] + 1
  BY <1>1 DEF Covered
<1>2. CASE \E w \in wheel : w.idx = i /\ w.ver = version[i] /\ Timely(w, expire[i], tick)
  <2>1. PICK w \in wheel : w.idx = i /\ w.ver = version[i] /\ Timely(w, expire[i], tick)
    BY <1>2
  <2>2. w \in wheel' /\ w.idx = i /\ w.ver = version'[i] /\ Timely(w, expire'[i], tick')
    BY <2>1
  <2> QED
    BY <2>2 DEF Covered
<1> QED
  BY <1>1, <1>2 DEF Covered

\* What schedule has put into a wheel covers its entry.
LEMMA PlacedCovers ==
    ASSUME NEW i \in Slots, NEW x \in Nat, tick \in Nat, NEW v \in 1..MaxVersion, x >= tick,
           tick' = tick, version'[i] = v, expire'[i] = x, Place(i, v, x, tick) \in wheel'
    PROVE  Covered(i)'
<1> DEFINE w == Place(i, v, x, tick)
<1>1. w.idx = i /\ w.ver = v /\ Timely(w, x, tick)
  BY PlaceIsTimely
<1>2. w \in wheel' /\ w.idx = i /\ w.ver = version'[i] /\ Timely(w, expire'[i], tick')
  BY <1>1
<1> QED
  BY <1>2 DEF Covered

\* A turn of the wheels hands every tuple that is due to process_bucket, and
\* cascades the others to where they are still in time.
LEMMA TurnCovers ==
    ASSUME TypeInv, CoverInv, TurnWheel, NEW i \in Used
    PROVE  Covered(i)'
<1> DEFINE now == tick + 1
           x == expire[i]
           moved == Cascading(now)
           all == (wheel \ moved) \cup {Reschedule(w, now) : w \in {v \in moved : Live(v)}}
           taken == {w \in all : w.level = 1 /\ w.at = now % L1}
<1>1. /\ tick' = now /\ wheel' = all \ taken /\ bucket' = taken
      /\ version' = version /\ expire' = expire
  BY DEF TurnWheel, slotVars
<1>2. bucket = {} /\ tick \in Nat /\ now \in Nat /\ i \in Slots /\ key[i] # None /\ x \in Nat
  BY Constants DEF TurnWheel, TypeInv, TypeOK, LoopInv, Used
<1>3. PICK w \in wheel : w.idx = i /\ w.ver = version[i] /\ Timely(w, x, tick)
  BY <1>2 DEF CoverInv, Covered
<1>4. w \in Tuples
  BY DEF TypeInv, TypeOK, Tuples
<1>5. now <= x + 1
  BY <1>2, <1>3 DEF Timely
<1>6. ASSUME NEW u \in all, u.idx = i, u.ver = version[i], u \notin taken => Timely(u, x, now)
      PROVE  Covered(i)'
  <2> HIDE DEF all
  <2>1. CASE u \in taken
    BY <1>1, <1>5, <1>6, <2>1 DEF Covered
  <2>2. CASE u \notin taken
    <3>1. u \in wheel' /\ u.idx = i /\ u.ver = version'[i] /\ Timely(u, expire'[i], tick')
      BY <1>1, <1>6, <2>2
    <3> QED
      BY <3>1 DEF Covered
  <2> QED
    BY <2>1, <2>2
<1>7. CASE w \in moved
  <2>1. w.level # 1
    BY <1>7 DEF Cascading
  <2>2. x >= now
    BY <1>2, <1>3, <2>1 DEF Timely
  <2>3. Live(w)
    BY <1>2, <1>3 DEF Live
  <2>4. /\ Reschedule(w, now).idx = i /\ Reschedule(w, now).ver = version[i]
        /\ Timely(Reschedule(w, now), x, now)
    BY <1>2, <1>3, <1>4, <2>2, Replaced
  <2>5. Reschedule(w, now) \in all
    BY <1>7, <2>3
  <2> HIDE DEF all, taken, now, x
  <2> QED
    BY <1>6, <2>4, <2>5
<1>8. CASE w \notin moved
  <2>1. w \in all
    BY <1>8
  <2>2. ASSUME w \notin taken PROVE Timely(w, x, now)
    <3>1. ~Visits(w, now)
      BY <1>8, <2>1, <2>2 DEF Visits, Cascading
    <3>2. PICK n \in (tick + 1)..(x + 1) : Visits(w, n) /\ (w.level # 1 => n <= x)
      BY <1>3 DEF Timely
    <3>3. n # now
      BY <3>1, <3>2
    <3>4. n \in (now + 1)..(x + 1)
      BY <1>2, <3>2, <3>3
    <3> QED
      BY <3>2, <3>4 DEF Timely
  <2> HIDE DEF all, taken, now, x
  <2> QED
    BY <1>3, <1>6, <2>1, <2>2
<1> QED
  BY <1>7, <1>8

\* Every step keeps the entries covered.
LEMMA CoverStep == TypeInv /\ CoverInv /\ [Next]_vars => CoverInv'
<1> SUFFICES ASSUME TypeInv, CoverInv, [Next]_vars, NEW i \in Slots, key'[i] # None
             PROVE  Covered(i)'
  BY DEF CoverInv, Used
<1>a. tick \in Nat /\ expire[i] \in Nat /\ 1 \in 1..MaxVersion
  BY Constants DEF TypeInv, TypeOK
<1>b. key[i] # None => Covered(i)
  BY DEF CoverInv, Used
<1>c. ASSUME UNCHANGED slotVars, tick' = tick, wheel' = wheel, bucket' = bucket
      PROVE  Covered(i)'
  BY <1>b, <1>c, CoverKept DEF slotVars
<1>1. ASSUME NEW k \in Keys, NEW ms \in Millis, Insert(k, ms) PROVE Covered(i)'
  <2>1. ASSUME NEW list \in Seq(Slots), list # <<>>, NEW keys \in [Slots -> Keys \cup {None}],
               \A j \in Slots : keys[j] # None => key[j] # None,
               Occupy(k, ms, list, keys)
        PROVE  Covered(i)'
    <3> DEFINE h == Head(list)
               t == TtlToTick(ms)
    <3>1. h \in Slots /\ t \in Nat /\ tick + t \in Nat /\ tick + t >= tick
      <4>1. h \in Slots
        BY <2>1, HeadTailProperties
      <4>2. t \in Nat
        BY WheelAssumption, TtlCovers
      <4> QED
        BY <1>a, <4>1, <4>2
    <3>2. /\ key' = [keys EXCEPT ![h] = k] /\ version' = [version EXCEPT ![h] = 1]
          /\ expire' = [expire EXCEPT ![h] = tick + t]
          /\ wheel' = wheel \cup {Place(h, 1, tick + t, tick)}
          /\ tick' = tick /\ bucket' = bucket
      BY <1>1, <2>1 DEF Occupy, Insert, loopVars
    <3> HIDE DEF h, t
    <3>3. CASE i = h
      BY <1>a, <3>1, <3>2, <3>3, PlacedCovers DEF TypeInv, TypeOK
    <3>4. CASE i # h
      <4>1. key[i] # None /\ version'[i] = version[i] /\ expire'[i] = expire[i]
        BY <2>1, <3>1, <3>2, <3>4 DEF TypeInv, TypeOK
      <4> QED
        BY <1>b, <3>2, <4>1, CoverKept
    <3> QED
      BY <3>3, <3>4
  <2>2. ASSUME NEW j \in FindEntry(k), Occupy(k, ms, Freed(j), [key EXCEPT ![j] = None])
        PROVE  Covered(i)'
    <3>1. j \in Slots
      BY DEF FindEntry, Used
    <3>2. Freed(j) \in Seq(Slots) /\ Freed(j) # <<>>
      BY <3>1, ConcatProperties DEF Freed, TypeInv
    <3>3. /\ [key EXCEPT ![j] = None] \in [Slots -> Keys \cup {None}]
          /\ \A l \in Slots : [key EXCEPT ![j] = None][l] # None => key[l] # None
      BY <3>1 DEF TypeInv, TypeOK
    <3> QED
      BY <2>1, <2>2, <3>2, <3>3
  <2>3. CASE free # <<>> /\ Occupy(k, ms, free, key)
    BY <2>1, <2>3 DEF TypeInv, TypeOK
  <2> QED
    BY <1>1, <2>2, <2>3 DEF Insert
<1>2. ASSUME NEW k \in Keys, NEW j \in Slots, Refresh(k, j) PROVE Covered(i)'
  <2>1. /\ version' = [version EXCEPT ![j] = version[j] + 1]
        /\ expire' = [expire EXCEPT ![j] = tick + ttl[j]]
        /\ wheel' = wheel \cup {Place(j, version[j] + 1, tick + ttl[j], tick)}
        /\ tick' = tick /\ bucket' = bucket /\ key' = key
    BY <1>2 DEF Refresh, loopVars
  <2>2. ttl[j] \in Nat /\ tick + ttl[j] \in Nat /\ tick + ttl[j] >= tick
    BY <1>a, TtlType
  <2>3. version[j] + 1 \in 1..MaxVersion
    <3>1. version[j] \in 0..MaxVersion /\ version[j] < MaxVersion
      BY <1>2 DEF Refresh, TypeInv, TypeOK
    <3>2. MaxVersion \in Nat
      BY Constants
    <3> QED
      BY <3>1, <3>2
  <2>4. CASE i = j
    <3>1. version'[i] = version[j] + 1 /\ expire'[i] = tick + ttl[j]
      BY <2>1, <2>4 DEF TypeInv, TypeOK
    <3>2. Place(i, version[j] + 1, tick + ttl[j], tick) \in wheel'
      BY <2>1, <2>4
    <3> QED
      BY <1>a, <2>1, <2>2, <2>3, <3>1, <3>2, PlacedCovers
  <2>5. CASE i # j
    <3>1. key[i] # None /\ version'[i] = version[i] /\ expire'[i] = expire[i]
      BY <2>1, <2>5 DEF TypeInv, TypeOK
    <3> QED
      BY <1>b, <2>1, <3>1, CoverKept
  <2> QED
    BY <2>4, <2>5
<1>3. ASSUME NEW k \in Keys, NEW j \in Slots, Delete(k, j) PROVE Covered(i)'
  <2>1. key[i] # None
    BY <1>3 DEF Delete, TypeInv, TypeOK
  <2> QED
    BY <1>3, <1>b, <2>1, CoverKept DEF Delete, loopVars
<1>4. ASSUME NEW w \in bucket, ExpireTuple(w) PROVE Covered(i)'
  <2>1. w.idx \in Slots
    BY DEF TypeInv, Tuples
  <2>2. key[i] # None /\ i # w.idx
    BY <1>4, <2>1 DEF ExpireTuple, Release, TypeInv, TypeOK
  <2> QED
    BY <1>4, <1>b, <2>2, CoverKept DEF ExpireTuple, Release
<1>5. ASSUME NEW w \in bucket, SkipTuple(w) PROVE Covered(i)'
  <2>1. key[i] # None /\ ~(w.idx = i /\ w.ver = version[i])
    BY <1>5 DEF SkipTuple, Live, slotVars
  <2> QED
    BY <1>5, <1>b, <2>1, CoverKept DEF SkipTuple, slotVars
<1>6. ASSUME NEW w \in bucket, MoveTuple(w) PROVE Covered(i)'
  <2>1. /\ key' = key /\ version' = version /\ expire' = expire /\ tick' = tick
        /\ bucket' = bucket \ {w} /\ wheel' = wheel \cup {Reschedule(w, tick)}
        /\ expire[w.idx] > tick
    BY <1>6 DEF MoveTuple, slotVars
  <2>2. CASE w.idx = i /\ w.ver = version[i]
    <3>1. w.ver \in 1..MaxVersion
      BY DEF TypeInv, Tuples
    <3>2. Place(i, w.ver, expire[i], tick) \in wheel'
      BY <2>1, <2>2 DEF Reschedule
    <3>3. expire[i] >= tick
      BY <1>a, <2>1, <2>2
    <3> QED
      BY <1>a, <2>1, <2>2, <3>1, <3>2, <3>3, PlacedCovers
  <2>3. CASE ~(w.idx = i /\ w.ver = version[i])
    BY <1>b, <2>1, <2>3, CoverKept
  <2> QED
    BY <2>2, <2>3
<1>7. CASE TurnWheel
  <2>1. i \in Used
    BY <1>7 DEF TurnWheel, slotVars, Used
  <2> QED
    BY <1>7, <2>1, TurnCovers
<1>8. CASE Drained \/ Disconnected \/ TimePasses \/ OnTick \/ NextBatch \/ UNCHANGED vars
  BY <1>c, <1>8 DEF Drained, Disconnected, TimePasses, OnTick, NextBatch, vars
<1>9. CASE SendFullBatch \/ BucketDone \/ Caught
  BY <1>c, <1>9 DEF SendFullBatch, BucketDone, Caught
<1> QED
  BY <1>1, <1>2, <1>3, <1>4, <1>5, <1>6, <1>7, <1>8, <1>9 DEF Next, Commands, Turning
----------------------------------------------------------------------------
(* The theorems.                                                           *)

IInv == TypeInv /\ SlabInv /\ CoverInv

\* A new shard satisfies the invariant.
LEMMA InitIInv == Init => IInv
<1> SUFFICES ASSUME Init PROVE IInv
  OBVIOUS
<1> USE DEF Init
<1>1. Used = {}
  BY DEF Used
<1>2. free \in Seq(Slots) /\ Len(free) = Capacity
  <2>1. Capacity \in Nat /\ \A n \in 1..Capacity : n - 1 \in Slots
    BY Constants DEF Slots
  <2>2. free \in [1..Capacity -> Slots]
    BY <2>1
  <2> QED
    BY <2>1, <2>2
<1>3. TypeInv
  <2>1. <<>> \in Seq(Keys) /\ Len(<<>>) = 0 /\ 0 < Batch /\ 0 <= Batch
    BY Constants
  <2>2. LoopInv /\ EntryInv
    BY <1>1, <2>1 DEF LoopInv, EntryInv, Turned
  <2> QED
    BY <1>2, <2>1, <2>2, Constants DEF TypeInv, TypeOK, Tuples
<1>4. Distinct(free)
  BY <1>2, Constants DEF Distinct
<1>5. Members(free) = Slots
  <2>1. \A n \in 1..Capacity : free[n] = n - 1 /\ n - 1 \in Slots
    BY Constants DEF Slots
  <2>2. \A i \in Slots : i + 1 \in 1..Capacity /\ free[i + 1] = i
    BY Constants DEF Slots
  <2> QED
    BY <1>2, <2>1, <2>2 DEF Members
<1> QED
  BY <1>1, <1>3, <1>4, <1>5 DEF IInv, SlabInv, OneSlotPerKey, CoverInv

\* The invariant is inductive.
LEMMA Invariance == Spec => []IInv
<1>1. IInv /\ [Next]_vars => IInv'
  BY TypeStep, SlabStep, CoverStep DEF IInv
<1> QED
  BY <1>1, InitIInv, PTL DEF Spec

\* The slab of c100k.rs leaks no slot and hands none out twice, whatever order
\* Shard::insert, refresh, delete and process_bucket free and allocate slots
\* in, for any number of slots and keys.
THEOREM SlabCorrect == Spec => []SlabExact
<1>1. IInv => SlabExact
  <2> SUFFICES ASSUME IInv PROVE SlabExact
    OBVIOUS
  <2>1. Len(free) = Cardinality(Members(free))
    BY DistinctCounts DEF IInv, TypeInv, SlabInv
  <2> QED
    BY <2>1 DEF IInv, TypeInv, SlabInv, SlabExact, FreeListExact, Members
<1> QED
  BY <1>1, Invariance, PTL

\* process_bucket announces no key before its ttl in milliseconds has
\* passed since the tick the shard handled its command in, for any tick length.
\* That tick may be late: by the clock, the key of a shard that is n ticks behind
\* may be announced up to n ticks early.
THEOREM TtlRespected == Spec => NotBeforeTtl
<1> DEFINE Early == \A i \in Slots : pc = "bucket" /\ key[i] # None /\ key'[i] = None
                                    => clock * TickMs >= due[i]
<1>1. TypeInv /\ [Next]_vars => [Early]_vars
  <2> SUFFICES ASSUME TypeInv, Next, NEW i \in Slots,
                      pc = "bucket", key[i] # None, key'[i] = None
               PROVE  clock * TickMs >= due[i]
    OBVIOUS
  <2>1. PICK w \in bucket : ExpireTuple(w)
    BY DEF Next, Commands, Turning, Insert, Refresh, Delete, Drained, Disconnected, TimePasses,
           OnTick, NextBatch, TurnWheel, SendFullBatch, BucketDone, Caught, SkipTuple, MoveTuple,
           slotVars
  <2>2. i = w.idx
    BY <2>1 DEF ExpireTuple, Release, TypeInv, TypeOK, Tuples
  <2>3. /\ expire[i] \in Nat /\ tick \in Nat /\ clock \in Nat /\ due[i] \in Nat /\ TickMs \in Nat
        /\ expire[i] <= tick /\ tick <= clock
    BY <2>1, <2>2, Constants DEF ExpireTuple, TypeInv, TypeOK
  <2>4. due[i] <= expire[i] * TickMs
    BY DEF TypeInv, EntryInv, Used
  <2>5. /\ expire[i] * TickMs <= clock * TickMs
        /\ expire[i] * TickMs \in Nat /\ clock * TickMs \in Nat
    <3>1. ASSUME NEW a \in Nat, NEW b \in Nat, NEW c \in Nat, a <= b
          PROVE  a * c <= b * c /\ a * c \in Nat /\ b * c \in Nat
      BY <3>1
    <3>2. expire[i] <= clock
      BY <2>3
    <3> QED
      BY <2>3, <3>1, <3>2
  <2> QED
    BY <2>3, <2>4, <2>5
<1>2. IInv => TypeInv
  BY DEF IInv
<1> QED
  BY <1>1, <1>2, Invariance, PTL DEF Spec, NotBeforeTtl
----------------------------------------------------------------------------
(* The wheels implement ExpiringKeys.                                      *)

Deadline == [k \in Keys |-> IF Present(k) THEN expire[SlotOf(k)] ELSE None]
Lifetime == [k \in Keys |-> IF Present(k) THEN ttl[SlotOf(k)] ELSE None]

\* The refinement mapping reads the slots.
MappingInv ==
    /\ \A i \in Used : Deadline[key[i]] = expire[i] /\ Lifetime[key[i]] = ttl[i]
    /\ \A k \in Keys : (\A i \in Used : key[i] # k) => Deadline[k] = None /\ Lifetime[k] = None

\* A key is mapped to the deadline and ttl of the one slot that holds it.
LEMMA MappingReadsSlots == IInv => MappingInv
<1> SUFFICES ASSUME IInv PROVE MappingInv
  OBVIOUS
<1>1. ASSUME NEW i \in Used PROVE Deadline[key[i]] = expire[i] /\ Lifetime[key[i]] = ttl[i]
  <2>1. key[i] \in Keys /\ Present(key[i])
    BY DEF IInv, TypeInv, TypeOK, Used, Present
  <2>2. SlotOf(key[i]) = i
    BY DEF IInv, SlabInv, OneSlotPerKey, SlotOf
  <2> QED
    BY <2>1, <2>2 DEF Deadline, Lifetime
<1>2. ASSUME NEW k \in Keys, \A i \in Used : key[i] # k
      PROVE  Deadline[k] = None /\ Lifetime[k] = None
  BY <1>2 DEF Deadline, Lifetime, Present
<1> QED
  BY <1>1, <1>2 DEF MappingInv

\* And so it is after a step.
LEMMA MappingNext == (IInv => MappingInv)'
  BY MappingReadsSlots, PTL

\* A new shard promises nothing.
LEMMA PromiseInit == Init => Promise!Init
<1> SUFFICES ASSUME Init PROVE Promise!Init
  OBVIOUS
<1>1. \A k \in Keys : ~Present(k)
  BY DEF Init, Present, Used
<1> QED
  BY <1>1 DEF Init, Promise!Init

\* The entry that insert or refresh writes is the only one the mapping sees
\* change.
LEMMA WriteMapped ==
    ASSUME IInv, IInv', NEW i \in Slots, NEW k \in Keys, key'[i] = k, i \in Used => key[i] = k,
           \A j \in Slots \ {i} : /\ key'[j] = key[j] /\ expire'[j] = expire[j]
                                 /\ ttl'[j] = ttl[j]
    PROVE  /\ Deadline' = [Deadline EXCEPT ![k] = expire'[i]]
           /\ Lifetime' = [Lifetime EXCEPT ![k] = ttl'[i]]
<1>0. MappingInv /\ MappingInv' /\ k # None
  BY MappingReadsSlots, MappingNext, Constants
<1>1. i \in Used'
  BY <1>0 DEF Used
<1>2. Deadline'[k] = expire'[i] /\ Lifetime'[k] = ttl'[i]
  BY <1>0, <1>1 DEF MappingInv
<1>3. ASSUME NEW l \in Keys, l # k
      PROVE  Deadline'[l] = Deadline[l] /\ Lifetime'[l] = Lifetime[l]
  <2>1. ASSUME NEW j \in Used', key'[j] = l
        PROVE  Deadline'[l] = Deadline[l] /\ Lifetime'[l] = Lifetime[l]
    <3>1. j \in Slots \ {i}
      BY <1>3, <2>1 DEF Used
    <3>2. j \in Used /\ key[j] = l
      BY <2>1, <3>1 DEF Used
    <3>3. Deadline'[l] = expire'[j] /\ Lifetime'[l] = ttl'[j]
      BY <1>0, <2>1 DEF MappingInv
    <3>4. Deadline[l] = expire[j] /\ Lifetime[l] = ttl[j]
      BY <1>0, <3>2 DEF MappingInv
    <3> QED
      BY <3>1, <3>3, <3>4
  <2>2. ASSUME \A j \in Used' : key'[j] # l
        PROVE  Deadline'[l] = Deadline[l] /\ Lifetime'[l] = Lifetime[l]
    <3>1. \A j \in Used : key[j] # l
      BY <1>3, <2>2 DEF Used
    <3> QED
      BY <1>0, <2>2, <3>1 DEF MappingInv
  <2> QED
    BY <2>1, <2>2
<1>4. \A l \in Keys : /\ Deadline'[l] = [Deadline EXCEPT ![k] = expire'[i]][l]
                     /\ Lifetime'[l] = [Lifetime EXCEPT ![k] = ttl'[i]][l]
  BY <1>2, <1>3 DEF Deadline, Lifetime
<1> QED
  BY <1>4 DEF Deadline, Lifetime

\* So is the entry that delete or process_bucket frees.
LEMMA FreeMapped ==
    ASSUME IInv, IInv', NEW i \in Used, key' = [key EXCEPT ![i] = None],
           UNCHANGED <<expire, ttl>>
    PROVE  /\ Deadline' = [Deadline EXCEPT ![key[i]] = None]
           /\ Lifetime' = [Lifetime EXCEPT ![key[i]] = None]
<1>0. MappingInv /\ MappingInv' /\ i \in Slots /\ key[i] \in Keys
  BY MappingReadsSlots, MappingNext DEF Used, IInv, TypeInv, TypeOK
<1>1. Used' = Used \ {i} /\ \A j \in Used' : key'[j] = key[j]
  BY <1>0 DEF Used, IInv, TypeInv, TypeOK
<1>2. \A j \in Used' : key'[j] # key[i]
  BY <1>1 DEF IInv, SlabInv, OneSlotPerKey
<1>3. Deadline'[key[i]] = None /\ Lifetime'[key[i]] = None
  BY <1>0, <1>2 DEF MappingInv
<1>4. ASSUME NEW l \in Keys, l # key[i]
      PROVE  Deadline'[l] = Deadline[l] /\ Lifetime'[l] = Lifetime[l]
  <2>1. ASSUME NEW j \in Used', key'[j] = l
        PROVE  Deadline'[l] = Deadline[l] /\ Lifetime'[l] = Lifetime[l]
    <3>1. Deadline'[l] = expire'[j] /\ Lifetime'[l] = ttl'[j]
      BY <1>0, <2>1 DEF MappingInv
    <3>2. Deadline[l] = expire[j] /\ Lifetime[l] = ttl[j]
      BY <1>0, <1>1, <2>1 DEF MappingInv
    <3> QED
      BY <3>1, <3>2
  <2>2. ASSUME \A j \in Used' : key'[j] # l
        PROVE  Deadline'[l] = Deadline[l] /\ Lifetime'[l] = Lifetime[l]
    <3>1. \A j \in Used : key[j] # l
      BY <1>1, <1>4, <2>2
    <3> QED
      BY <1>0, <2>2, <3>1 DEF MappingInv
  <2> QED
    BY <2>1, <2>2
<1>5. \A l \in Keys : /\ Deadline'[l] = [Deadline EXCEPT ![key[i]] = None][l]
                     /\ Lifetime'[l] = [Lifetime EXCEPT ![key[i]] = None][l]
  BY <1>3, <1>4 DEF Deadline, Lifetime
<1> QED
  BY <1>5 DEF Deadline, Lifetime

\* Every step of the shard is a step of ExpiringKeys, or none that it sees.
LEMMA PromiseStep == IInv /\ IInv' /\ [Next]_vars => [Promise!Next]_Promise!vars
<1> SUFFICES ASSUME IInv, IInv', [Next]_vars PROVE [Promise!Next]_Promise!vars
  OBVIOUS
<1>0. MappingInv
  BY MappingReadsSlots
<1>s. ASSUME UNCHANGED slotVars, tick' = tick PROVE UNCHANGED Promise!vars
  BY <1>s DEF slotVars, Promise!vars, Present, SlotOf, Used
<1>f. ASSUME NEW i \in Used, key' = [key EXCEPT ![i] = None], UNCHANGED <<expire, ttl, tick>>
      PROVE  /\ Promise!Forget(key[i]) /\ key[i] \in Keys
             /\ Deadline[key[i]] = expire[i] /\ Deadline[key[i]] # None
  <2>1. /\ Deadline' = [Deadline EXCEPT ![key[i]] = None]
        /\ Lifetime' = [Lifetime EXCEPT ![key[i]] = None]
    BY <1>f, FreeMapped
  <2>2. Promise!Forget(key[i])
    BY <1>f, <2>1 DEF Promise!Forget, Deadline, Lifetime
  <2>3. key[i] \in Keys /\ Deadline[key[i]] = expire[i] /\ expire[i] \in Nat
    BY <1>0 DEF MappingInv, Used, IInv, TypeInv, TypeOK
  <2> QED
    BY <2>2, <2>3, Constants
<1>1. ASSUME NEW k \in Keys, NEW ms \in Millis, Insert(k, ms) PROVE Promise!Next
  <2> DEFINE t == TtlToTick(ms)
  <2>1. ASSUME NEW i \in Slots, key'[i] = k, i \in Used => key[i] = k,
               \A j \in Slots \ {i} : key'[j] = key[j],
               expire' = [expire EXCEPT ![i] = tick + t], ttl' = [ttl EXCEPT ![i] = t]
        PROVE  Promise!Next
    <3>1. /\ expire'[i] = tick + t /\ ttl'[i] = t
          /\ \A j \in Slots \ {i} : expire'[j] = expire[j] /\ ttl'[j] = ttl[j]
      BY <2>1 DEF IInv, TypeInv, TypeOK
    <3>2. /\ Deadline' = [Deadline EXCEPT ![k] = tick + t]
          /\ Lifetime' = [Lifetime EXCEPT ![k] = t]
      BY <2>1, <3>1, WriteMapped
    <3>3. tick' = tick /\ t \in Ttls
      BY <1>1 DEF Insert, loopVars, Ttls
    <3> HIDE DEF t
    <3>4. Promise!Put(k, t)
      BY <3>2, <3>3 DEF Promise!Put, Deadline, Lifetime
    <3> QED
      BY <3>3, <3>4 DEF Promise!Next
  <2>2. ASSUME NEW i \in FindEntry(k), Occupy(k, ms, Freed(i), [key EXCEPT ![i] = None])
        PROVE  Promise!Next
    <3>1. i \in Slots /\ key[i] = k
      BY DEF FindEntry, Used
    <3>2. Head(Freed(i)) = i
      BY <3>1, HeadOfList DEF Freed, IInv, TypeInv
    <3>3. /\ key' = [[key EXCEPT ![i] = None] EXCEPT ![i] = k]
          /\ expire' = [expire EXCEPT ![i] = tick + t] /\ ttl' = [ttl EXCEPT ![i] = t]
      BY <2>2, <3>2 DEF Occupy
    <3> HIDE DEF t
    <3>4. key'[i] = k /\ \A j \in Slots \ {i} : key'[j] = key[j]
      BY <3>1, <3>3 DEF IInv, TypeInv, TypeOK
    <3> QED
      BY <2>1, <3>1, <3>3, <3>4
  <2>3. CASE free # <<>> /\ Occupy(k, ms, free, key)
    <3> DEFINE i == Head(free)
    <3>1. i \in Slots /\ i \notin Used
      BY <2>3, TailOfList DEF IInv, SlabInv, TypeInv
    <3>2. /\ key' = [key EXCEPT ![i] = k]
          /\ expire' = [expire EXCEPT ![i] = tick + t] /\ ttl' = [ttl EXCEPT ![i] = t]
      BY <2>3 DEF Occupy
    <3> HIDE DEF i, t
    <3>3. key'[i] = k /\ \A j \in Slots \ {i} : key'[j] = key[j]
      BY <3>1, <3>2 DEF IInv, TypeInv, TypeOK
    <3> QED
      BY <2>1, <3>1, <3>2, <3>3
  <2> QED
    BY <1>1, <2>2, <2>3 DEF Insert
<1>2. ASSUME NEW k \in Keys, NEW i \in Slots, Refresh(k, i) PROVE Promise!Next
  <2>1. i \in Used /\ key[i] = k /\ key' = key /\ ttl' = ttl /\ tick' = tick
        /\ expire' = [expire EXCEPT ![i] = tick + ttl[i]]
    BY <1>2 DEF Refresh, FindEntry, loopVars
  <2>2. expire'[i] = tick + ttl[i] /\ expire[i] \in Nat
        /\ \A j \in Slots \ {i} : expire'[j] = expire[j]
    BY <2>1 DEF IInv, TypeInv, TypeOK
  <2>3. Deadline[k] = expire[i] /\ Lifetime[k] = ttl[i]
    BY <1>0, <2>1 DEF MappingInv
  <2>4. /\ Deadline' = [Deadline EXCEPT ![k] = tick + ttl[i]]
        /\ Lifetime' = [Lifetime EXCEPT ![k] = ttl[i]]
    BY <2>1, <2>2, WriteMapped
  <2>5. Lifetime' = Lifetime
    BY <2>3, <2>4 DEF Lifetime
  <2>6. Deadline[k] # None
    BY <2>2, <2>3, Constants
  <2>7. Deadline' = [Deadline EXCEPT ![k] = tick + Lifetime[k]]
    BY <2>3, <2>4
  <2>8. Promise!Refresh(k)
    BY <2>1, <2>5, <2>6, <2>7 DEF Promise!Refresh, Deadline, Lifetime
  <2> QED
    BY <2>8 DEF Promise!Next
<1>3. ASSUME NEW k \in Keys, NEW i \in Slots, Delete(k, i) PROVE Promise!Next
  <2>1. i \in Used /\ key' = [key EXCEPT ![i] = None] /\ UNCHANGED <<expire, ttl, tick>>
    BY <1>3 DEF Delete, FindEntry, loopVars
  <2>2. Promise!Delete(key[i])
    BY <1>f, <2>1 DEF Promise!Delete, Deadline
  <2> QED
    BY <1>f, <2>1, <2>2 DEF Promise!Next
<1>4. ASSUME NEW w \in bucket, ExpireTuple(w) PROVE Promise!Next
  <2> DEFINE i == w.idx
  <2>1. i \in Used /\ key' = [key EXCEPT ![i] = None] /\ UNCHANGED <<expire, ttl, tick>>
    BY <1>4 DEF ExpireTuple, Release, Live, Used, IInv, TypeInv, Tuples
  <2>2. expire[i] <= tick
    BY <1>4 DEF ExpireTuple
  <2> HIDE DEF i
  <2>3. Promise!Expire(key[i])
    BY <1>f, <2>1, <2>2 DEF Promise!Expire, Deadline
  <2> QED
    BY <1>f, <2>1, <2>3 DEF Promise!Next
<1>5. CASE TurnWheel
  <2>1. tick' = tick + 1 /\ UNCHANGED slotVars /\ pc = "turn"
    BY <1>5 DEF TurnWheel
  <2>2. \A i \in Used : expire[i] >= tick
    BY <2>1, CoveredIsOnTime DEF IInv, OnTime
  <2>3. \A k \in Keys : Deadline[k] # None => Deadline[k] >= tick
    BY <1>0, <2>2 DEF MappingInv
  <2>4. Deadline' = Deadline /\ Lifetime' = Lifetime
    BY <2>1 DEF slotVars, Deadline, Lifetime, Present, SlotOf, Used
  <2>5. Promise!Tick
    BY <2>1, <2>3, <2>4 DEF Promise!Tick, Deadline, Lifetime
  <2> QED
    BY <2>5 DEF Promise!Next
<1>6. CASE Drained \/ Disconnected \/ TimePasses \/ OnTick \/ NextBatch \/ UNCHANGED vars
  BY <1>s, <1>6 DEF Drained, Disconnected, TimePasses, OnTick, NextBatch, vars
<1>7. CASE SendFullBatch \/ BucketDone \/ Caught
  BY <1>s, <1>7 DEF SendFullBatch, BucketDone, Caught
<1>8. ASSUME NEW w \in bucket, SkipTuple(w) \/ MoveTuple(w) PROVE UNCHANGED Promise!vars
  BY <1>s, <1>8 DEF SkipTuple, MoveTuple
<1> QED
  BY <1>1, <1>2, <1>3, <1>4, <1>5, <1>6, <1>7, <1>8 DEF Next, Commands, Turning

\* The timing wheel of c100k.rs implements its promise: schedule, the cascades
\* and process_bucket together expire every key in the tick of its deadline or
\* the next one, for wheels of any size and any ttl.
THEOREM WheelKeepsPromise == Spec => KeepsPromise
<1>1. Init => Promise!Init
  BY PromiseInit
<1>2. IInv /\ IInv' /\ [Next]_vars => [Promise!Next]_Promise!vars
  BY PromiseStep
<1> QED
  BY <1>1, <1>2, Invariance, PTL DEF Spec, KeepsPromise, Promise!Spec
=============================================================================
