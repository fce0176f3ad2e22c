---------------------------- MODULE TimingWheel -----------------------------
(***************************************************************************)
(* A shard of the timing-wheel cache, base/src/cache/c100k.rs: slots and   *)
(* their free list, three wheels of buckets that hold (slot, version)      *)
(* tuples, and the loop that drains commands, waits for the ticker and     *)
(* turns the wheels.                                                       *)
(*                                                                         *)
(* A command is handled in the drain that receives it: the command channel *)
(* only delays it.  find_entry finds a slot by its key, hash collisions    *)
(* being resolved by the key comparison.  A bucket is a set of tuples,     *)
(* processed in any order: a tuple pushed twice does no more than one.     *)
(* Draining and turning take no time; the clock moves during the wait.     *)
(***************************************************************************)
EXTENDS Integers, Sequences, FiniteSets

CONSTANTS Keys,
          Millis,       \* times to live, in milliseconds
          TickMs,       \* TICK_MS
          Capacity,     \* slots of the shard
          L1, L2, L3,   \* WHEEL_L1, WHEEL_L2, WHEEL_L3
          MaxCatchup,   \* MAX_CATCHUP
          Batch,        \* BATCH
          EventCap,     \* capacity of the event channel, in batches
          MaxClock,     \* bound: ticks that pass
          MaxLag,       \* bound: ticks the shard may be behind the clock
          MaxVersion,   \* bound: refreshes of one slot
          MaxInserts,   \* bound: insertions
          None

ASSUME WheelAssumption ==
    /\ Millis \subseteq Nat
    /\ \A n \in {TickMs, Capacity, L1, L2, L3, MaxCatchup, Batch, EventCap, MaxVersion} :
           n \in Nat \ {0}
    /\ MaxClock \in Nat /\ MaxLag \in Nat /\ MaxInserts \in Nat
    /\ None \notin Keys \cup Nat

Slots == 0..(Capacity - 1)

\* ttl_to_tick: rounded up, and never 0.
TtlToTick(ms) == IF ms = 0 THEN 1 ELSE (ms + TickMs - 1) \div TickMs

Ttls == {TtlToTick(ms) : ms \in Millis}

VARIABLES
    key,      \* per slot: its key while in_use, else None
    version, expire, ttl,   \* per slot: version, expire_tick, ttl_tick
    free,     \* the free list, free_head first
    wheel,    \* the tuples of wheel_l1, wheel_l2 and wheel_l3
    tick,     \* Shard.tick
    clock,    \* the tick wall-clock time is in
    due,      \* per slot in use: the time its ttl has passed, in milliseconds
    pc,       \* the loop: drain, wait, turn, bucket or stopped
    target,   \* on_tick's target
    bucket,   \* the tuples process_bucket has yet to look at
    batch,    \* Shard.batch
    events,   \* the event batches in the channel
    inserts   \* insertions so far

slotVars == <<key, version, expire, ttl, free, due, inserts>>
vars == <<slotVars, wheel, tick, clock, pc, target, bucket, batch, events>>

Used == {i \in Slots : key[i] # None}

Init ==
    /\ key = [i \in Slots |-> None]
    /\ version = [i \in Slots |-> 0]
    /\ expire = [i \in Slots |-> 0] /\ ttl = [i \in Slots |-> 0]
    /\ free = [n \in 1..Capacity |-> n - 1]
    /\ wheel = {}
    /\ tick = 0 /\ clock = 0 /\ due = [i \in Slots |-> 0]
    /\ pc = "drain" /\ target = 0 /\ bucket = {}
    /\ batch = <<>> /\ events = 0 /\ inserts = 0

----------------------------------------------------------------------------
(* schedule.                                                               *)

\* The bucket for a slot that expires at tick x, seen from tick now.
Place(i, v, x, now) ==
    [idx |-> i, ver |-> v,
     level |-> IF x - now < L1 THEN 1 ELSE IF x - now < L1 * L2 THEN 2 ELSE 3,
     at |-> IF x <= now THEN (now + 1) % L1
            ELSE IF x - now < L1 THEN x % L1
            ELSE IF x - now < L1 * L2 THEN (x \div L1) % L2
            ELSE (x \div (L1 * L2)) % L3]

\* A tuple counts while its slot is in use at the same version.
Live(w) == key[w.idx] # None /\ version[w.idx] = w.ver

Reschedule(w, now) == Place(w.idx, w.ver, expire[w.idx], now)

----------------------------------------------------------------------------
(* Commands, handled while the loop drains its channel.                    *)

loopVars == <<tick, clock, pc, target, bucket, batch, events>>

\* find_entry: the slot in use that holds k.
FindEntry(k) == {i \in Used : key[i] = k}

\* free: the slot becomes the head of the list.
Freed(i) == <<i>> \o free

\* alloc takes the head of list, and write fills the slot with k.
Occupy(k, ms, list, keys) ==
    LET i == Head(list)
        t == TtlToTick(ms)
    IN  /\ key' = [keys EXCEPT ![i] = k]
        /\ version' = [version EXCEPT ![i] = 1]
        /\ ttl' = [ttl EXCEPT ![i] = t]
        /\ expire' = [expire EXCEPT ![i] = tick + t]
        /\ due' = [due EXCEPT ![i] = tick * TickMs + ms]
        /\ free' = Tail(list)
        /\ inserts < MaxInserts /\ inserts' = inserts + 1
        /\ wheel' = wheel \cup {Place(i, 1, tick + t, tick)}

\* insert: an entry of the same key is freed first; a full shard only logs.
Insert(k, ms) ==
    /\ pc = "drain"
    /\ \/ \E i \in FindEntry(k) : Occupy(k, ms, Freed(i), [key EXCEPT ![i] = None])
       \/ /\ FindEntry(k) = {}
          /\ free # <<>>
          /\ Occupy(k, ms, free, key)
    /\ UNCHANGED loopVars

Refresh(k, i) ==
    /\ pc = "drain"
    /\ i \in FindEntry(k)
    /\ version[i] < MaxVersion
    /\ version' = [version EXCEPT ![i] = @ + 1]
    /\ expire' = [expire EXCEPT ![i] = tick + ttl[i]]
    /\ due' = [due EXCEPT ![i] = (tick + ttl[i]) * TickMs]
    /\ wheel' = wheel \cup {Place(i, version[i] + 1, tick + ttl[i], tick)}
    /\ UNCHANGED <<loopVars, key, ttl, free, inserts>>

\* delete: the slot is freed; its tuples stay behind.
Delete(k, i) ==
    /\ pc = "drain"
    /\ i \in FindEntry(k)
    /\ key' = [key EXCEPT ![i] = None]
    /\ due' = [due EXCEPT ![i] = 0]
    /\ free' = Freed(i)
    /\ UNCHANGED <<loopVars, version, expire, ttl, wheel, inserts>>

----------------------------------------------------------------------------
(* run and on_tick.                                                        *)

\* The channel is empty.
Drained ==
    /\ pc = "drain"
    /\ pc' = "wait"
    /\ UNCHANGED <<slotVars, wheel, tick, clock, target, bucket, batch, events>>

\* try_send: a batch that meets a full channel is lost, which is only logged.
Send == events' = IF events < EventCap THEN events + 1 ELSE events

\* Every Sender is gone; what the batch holds is sent.
Disconnected ==
    /\ pc = "drain"
    /\ pc' = "stopped"
    /\ \/ batch # <<>> /\ Send /\ batch' = <<>>
       \/ batch = <<>> /\ UNCHANGED <<batch, events>>
    /\ UNCHANGED <<slotVars, wheel, tick, clock, target, bucket>>

TimePasses ==
    /\ pc = "wait"
    /\ clock < MaxClock /\ clock < tick + MaxLag
    /\ clock' = clock + 1
    /\ UNCHANGED <<slotVars, wheel, tick, pc, target, bucket, batch, events>>

\* The ticker fires; what it missed is caught up to a limit.
OnTick ==
    /\ pc = "wait"
    /\ tick < clock
    /\ target' = IF clock < tick + MaxCatchup THEN clock ELSE tick + MaxCatchup
    /\ pc' = "turn"
    /\ UNCHANGED <<slotVars, wheel, tick, clock, bucket, batch, events>>

\* Mutant of Cascading: the third wheel is never emptied.
CascadingL2Only(now) ==
    {w \in wheel : /\ w.level = 2 /\ now % L1 = 0
                   /\ w.at = (now \div L1) % L2}

\* The buckets cascade_l2 and cascade_l3 take when the tick becomes now.
Cascading(now) ==
    {w \in wheel : \/ /\ w.level = 2 /\ now % L1 = 0
                      /\ w.at = (now \div L1) % L2
                   \/ /\ w.level = 3 /\ now % (L1 * L2) = 0
                      /\ w.at = (now \div (L1 * L2)) % L3}

\* One turn: cascade, then take the bucket of the new tick.
TurnWheel ==
    LET now == tick + 1
        moved == Cascading(now)
        all == (wheel \ moved) \cup {Reschedule(w, now) : w \in {v \in moved : Live(v)}}
        taken == {w \in all : w.level = 1 /\ w.at = now % L1}
    IN  /\ pc = "turn"
        /\ tick < target
        /\ tick' = now
        /\ wheel' = all \ taken
        /\ bucket' = taken
        /\ pc' = "bucket"
        /\ UNCHANGED <<slotVars, clock, target, batch, events>>

\* process_bucket: a stale tuple is dropped,
SkipTuple(w) ==
    /\ pc = "bucket"
    /\ w \in bucket
    /\ ~Live(w)
    /\ bucket' = bucket \ {w}
    /\ UNCHANGED <<slotVars, wheel, tick, clock, pc, target, batch, events>>

\* one whose slot expires later is scheduled again,
MoveTuple(w) ==
    /\ pc = "bucket"
    /\ w \in bucket
    /\ Live(w) /\ expire[w.idx] > tick
    /\ bucket' = bucket \ {w}
    /\ wheel' = wheel \cup {Reschedule(w, tick)}
    /\ UNCHANGED <<slotVars, tick, clock, pc, target, batch, events>>

\* The key leaves its slot for the batch.
Release(w) ==
    /\ key' = [key EXCEPT ![w.idx] = None]
    /\ due' = [due EXCEPT ![w.idx] = 0]
    /\ bucket' = bucket \ {w}
    /\ batch' = Append(batch, key[w.idx])
    /\ pc' = IF Len(batch) + 1 >= Batch THEN "send" ELSE "bucket"
    /\ UNCHANGED <<version, expire, ttl, wheel, tick, clock, target, events, inserts>>

\* Mutants of ExpireTuple: expire_tick is not looked at; the slot is not
\* returned to the free list.
ExpireAnyTuple(w) ==
    /\ pc = "bucket"
    /\ w \in bucket
    /\ Live(w)
    /\ free' = Freed(w.idx)
    /\ Release(w)

ExpireLeaking(w) ==
    /\ pc = "bucket"
    /\ w \in bucket
    /\ Live(w) /\ expire[w.idx] <= tick
    /\ Release(w)
    /\ UNCHANGED free

\* and one that is due frees its slot and announces its key,
ExpireTuple(w) ==
    /\ pc = "bucket"
    /\ w \in bucket
    /\ Live(w) /\ expire[w.idx] <= tick
    /\ free' = Freed(w.idx)
    /\ Release(w)

\* in batches of at most Batch.
SendFullBatch ==
    /\ pc = "send"
    /\ Send
    /\ batch' = <<>>
    /\ pc' = "bucket"
    /\ UNCHANGED <<slotVars, wheel, tick, clock, target, bucket>>

BucketDone ==
    /\ pc = "bucket"
    /\ bucket = {}
    /\ pc' = "turn"
    /\ UNCHANGED <<slotVars, wheel, tick, clock, target, bucket, batch, events>>

\* The target is reached: the rest of the batch is sent.
Caught ==
    /\ pc = "turn"
    /\ tick = target
    /\ pc' = "drain"
    /\ \/ batch # <<>> /\ Send /\ batch' = <<>>
       \/ batch = <<>> /\ UNCHANGED <<batch, events>>
    /\ UNCHANGED <<slotVars, wheel, tick, clock, target, bucket>>

\* next_batch.
NextBatch ==
    /\ events > 0
    /\ events' = events - 1
    /\ UNCHANGED <<slotVars, wheel, tick, clock, pc, target, bucket, batch>>

----------------------------------------------------------------------------
Commands ==
    \/ \E k \in Keys, ms \in Millis : Insert(k, ms)
    \/ \E k \in Keys, i \in Slots : Refresh(k, i) \/ Delete(k, i)

Turning ==
    \/ TurnWheel \/ SendFullBatch \/ BucketDone \/ Caught
    \/ \E w \in bucket : SkipTuple(w) \/ MoveTuple(w) \/ ExpireTuple(w)

Next == Commands \/ Drained \/ Disconnected \/ TimePasses \/ OnTick \/ Turning \/ NextBatch

Spec == Init /\ [][Next]_vars

----------------------------------------------------------------------------
(* Properties.                                                             *)

TypeOK ==
    /\ key \in [Slots -> Keys \cup {None}]
    /\ version \in [Slots -> 0..MaxVersion]
    /\ expire \in [Slots -> Nat] /\ ttl \in [Slots -> Ttls \cup {0}]
    /\ wheel \subseteq [idx : Slots, ver : 1..MaxVersion, level : 1..3, at : Nat]
    /\ \A w \in wheel : w.at < <<L1, L2, L3>>[w.level]
    /\ tick \in 0..clock /\ clock \in 0..MaxClock
    /\ pc \in {"drain", "wait", "turn", "bucket", "send", "stopped"}
    /\ Len(batch) <= Batch /\ events \in 0..EventCap

\* The free list holds exactly the slots not in use, each once: no slot leaks
\* and none is handed out twice, whatever order expiry, deletion and
\* replacement come in.
FreeListExact ==
    /\ {free[n] : n \in 1..Len(free)} = Slots \ Used
    /\ Len(free) = Cardinality(Slots \ Used)

\* No key sits in two slots.
OneSlotPerKey == \A i, j \in Used : key[i] = key[j] => i = j

\* However keys are inserted, replaced, refreshed, deleted and expired, the slab
\* of a shard leaks no slot and hands none out twice: the free list is exactly
\* the unused slots, and the index leads to one slot per key.
SlabExact == TypeOK /\ FreeListExact /\ OneSlotPerKey

\* The wheels implement ExpiringKeys: a key expires in the tick of its deadline
\* or the next one, through any cascade, reuse of its slot or stale tuple.
SlotOf(k) == CHOOSE i \in Used : key[i] = k
Present(k) == \E i \in Used : key[i] = k

Promise == INSTANCE ExpiringKeys WITH
    deadline <- [k \in Keys |-> IF Present(k) THEN expire[SlotOf(k)] ELSE None],
    ttl <- [k \in Keys |-> IF Present(k) THEN ttl[SlotOf(k)] ELSE None]

KeepsPromise == Promise!Spec

\* A key is not announced before its ttl in milliseconds has passed, counted
\* from the start of the tick the shard was in when it handled the command.  A
\* shard that is behind is in a late tick, so that by the clock the key may be
\* early by as much as the shard was behind.
NotBeforeTtl ==
    [][\A i \in Slots : pc = "bucket" /\ key[i] # None /\ key'[i] = None
           => clock * TickMs >= due[i]]_vars
=============================================================================
