----------------------------- MODULE DelayCache -----------------------------
(***************************************************************************)
(* The expiring cache of base/src/cache/mod.rs: a concurrent map that its  *)
(* callers change directly, a command channel that tells the purge task of *)
(* each change, the purge task that alone owns the delay queue, and the    *)
(* worker that runs the callbacks of expired values.                       *)
(*                                                                         *)
(* Time is not modelled: an armed timer may fire at any moment.  A value   *)
(* is an Arc that is inserted once, under one key.  The map (DashMap), the *)
(* channels, the DelayQueue and the Semaphore are atomic.                  *)
(***************************************************************************)
EXTENDS Integers, Sequences, FiniteSets

CONSTANTS Keys,
          Values,
          KeyOf,         \* the key a value is inserted under
          Mortal,        \* the values whose expire_ttl is Some
          Removers,      \* calls of remove
          MaxRefreshes,  \* bound: calls of refresh
          CallCap,       \* capacity of the callback channel
          Permits,       \* callbacks that may run at once
          None

ASSUME CacheAssumption ==
    /\ KeyOf \in [Values -> Keys] /\ Mortal \subseteq Values
    /\ MaxRefreshes \in Nat /\ CallCap \in Nat \ {0} /\ Permits \in Nat \ {0}
    /\ None \notin Keys \cup Values

VARIABLES
    map,        \* Shared.map
    cmds,       \* the command channel
    timer,      \* per key: the value whose ttl the delay queue runs, or None
    purge,      \* the purge task
    calls,      \* the callback channel
    workerOn,   \* the callback worker has not ended
    worker,     \* the value it waits for a permit with, or None
    running,    \* values whose expire_call is running
    ended,      \* values whose expire_call has returned or panicked
    lost,       \* expired values that met a full callback channel
    cancelled,  \* the main runtime's cancellation token
    ipc,        \* per value: its insertion
    rpc, rkey,  \* per call of remove: its step and its key
    returned,   \* the values remove has returned
    refreshes,
    overtook    \* history: values with a ttl that entered the map between the
                \* two steps of an insertion of their key without one

workerVars == <<calls, workerOn, worker, running, ended, lost>>
callerVars == <<ipc, rpc, rkey, returned, refreshes, overtook>>
vars == <<map, cmds, timer, purge, cancelled, workerVars, callerVars>>

Init ==
    /\ map = [k \in Keys |-> None] /\ cmds = <<>>
    /\ timer = [k \in Keys |-> None]
    /\ purge = "running" /\ cancelled = FALSE
    /\ calls = <<>> /\ workerOn = TRUE /\ worker = None /\ running = {} /\ ended = {} /\ lost = {}
    /\ ipc = [v \in Values |-> "idle"]
    /\ rpc = [r \in Removers |-> "idle"] /\ rkey = [r \in Removers |-> None]
    /\ returned = {} /\ refreshes = 0 /\ overtook = {}

\* A command; its value stands for the ttl it carries.
Command(op, k, v) == [op |-> op, key |-> k, val |-> v]

\* A command sent once the purge task has ended is refused, which is logged.
Send(c) == cmds' = IF purge = "running" THEN Append(cmds, c) ELSE cmds

----------------------------------------------------------------------------
(* The callers.                                                            *)

\* insert: the value enters the map, silently dropping the one that was there,
InsertMap(v) ==
    /\ ipc[v] = "idle"
    /\ map' = [map EXCEPT ![KeyOf[v]] = v]
    /\ ipc' = [ipc EXCEPT ![v] = "mapped"]
    /\ overtook' = overtook \cup
          {w \in Mortal \cap {v} :
              \E u \in Values \ Mortal : ipc[u] = "mapped" /\ KeyOf[u] = KeyOf[w]}
    /\ UNCHANGED <<cmds, timer, purge, cancelled, workerVars, rpc, rkey, returned, refreshes>>

\* and the purge task is told.
InsertSend(v) ==
    /\ ipc[v] = "mapped"
    /\ Send(Command("insert", KeyOf[v], v))
    /\ ipc' = [ipc EXCEPT ![v] = "done"]
    /\ UNCHANGED <<map, timer, purge, cancelled, workerVars, rpc, rkey, returned, refreshes,
                   overtook>>

\* remove tells the purge task first,
RemoveSend(r, k) ==
    /\ rpc[r] = "idle"
    /\ Send(Command("remove", k, None))
    /\ rpc' = [rpc EXCEPT ![r] = "sent"]
    /\ rkey' = [rkey EXCEPT ![r] = k]
    /\ UNCHANGED <<map, timer, purge, cancelled, workerVars, ipc, returned, refreshes,
                   overtook>>

\* then takes out whatever the map holds.
RemoveMap(r) ==
    /\ rpc[r] = "sent"
    /\ rpc' = [rpc EXCEPT ![r] = "done"]
    /\ returned' = returned \cup ({map[rkey[r]]} \ {None})
    /\ map' = [map EXCEPT ![rkey[r]] = None]
    /\ UNCHANGED <<cmds, timer, purge, cancelled, workerVars, ipc, rkey, refreshes, overtook>>

\* refresh holds the map's guard while it sends.
Refresh(k) ==
    /\ refreshes < MaxRefreshes
    /\ map[k] \in Mortal
    /\ Send(Command("refresh", k, map[k]))
    /\ refreshes' = refreshes + 1
    /\ UNCHANGED <<map, timer, purge, cancelled, workerVars, ipc, rpc, rkey, returned,
                   overtook>>

----------------------------------------------------------------------------
(* The purge task: select! picks any branch that is ready.                 *)

\* Mutant of Timer: a refresh takes the token out of key_map.
TimerForgotten(c) ==
    CASE c.op = "insert"  -> IF c.val \in Mortal THEN c.val ELSE None
      [] c.op = "remove"  -> None
      [] c.op = "refresh" -> None

\* The timer of the command's key after it.
Timer(c) ==
    CASE c.op = "insert"  -> IF c.val \in Mortal THEN c.val ELSE None
      [] c.op = "remove"  -> None
      [] c.op = "refresh" -> IF timer[c.key] # None THEN c.val ELSE None

HandleCommand ==
    /\ purge = "running"
    /\ cmds # <<>>
    /\ timer' = [timer EXCEPT ![Head(cmds).key] = Timer(Head(cmds))]
    /\ cmds' = Tail(cmds)
    /\ UNCHANGED <<map, purge, cancelled, workerVars, callerVars>>

\* Mutant of Expire: the value is read and stays in the map.
ExpireKept(k) ==
    /\ purge = "running"
    /\ timer[k] # None
    /\ timer' = [timer EXCEPT ![k] = None]
    /\ \/ map[k] # None /\ Len(calls) < CallCap
          /\ calls' = Append(calls, map[k]) /\ UNCHANGED lost
       \/ map[k] = None /\ UNCHANGED <<calls, lost>>
    /\ UNCHANGED <<map, cmds, purge, cancelled, workerOn, worker, running, ended, callerVars>>

\* A timer fires: whatever the map holds under its key is expired.
Expire(k) ==
    /\ purge = "running"
    /\ timer[k] # None
    /\ timer' = [timer EXCEPT ![k] = None]
    /\ map' = [map EXCEPT ![k] = None]
    /\ \/ map[k] = None /\ UNCHANGED <<calls, lost>>
       \/ /\ map[k] # None /\ Len(calls) < CallCap
          /\ calls' = Append(calls, map[k]) /\ UNCHANGED lost
       \/ /\ map[k] # None /\ Len(calls) >= CallCap
          /\ lost' = lost \cup {map[k]} /\ UNCHANGED calls
    /\ UNCHANGED <<cmds, purge, cancelled, workerOn, worker, running, ended, callerVars>>

\* The application shuts down; the task clears everything and drops its receiver.
Cancel ==
    /\ ~cancelled
    /\ cancelled' = TRUE
    /\ UNCHANGED <<map, cmds, timer, purge, workerVars, callerVars>>

PurgeStops ==
    /\ purge = "running" /\ cancelled
    /\ purge' = "stopped"
    /\ map' = [k \in Keys |-> None] /\ timer' = [k \in Keys |-> None]
    /\ cmds' = <<>>
    /\ UNCHANGED <<cancelled, workerVars, callerVars>>

----------------------------------------------------------------------------
(* The callback worker.                                                    *)

WorkerReceives ==
    /\ workerOn /\ worker = None
    /\ calls # <<>>
    /\ worker' = Head(calls)
    /\ calls' = Tail(calls)
    /\ UNCHANGED <<map, cmds, timer, purge, cancelled, workerOn, running, ended, lost, callerVars>>

\* A permit is free: the callback runs in a task of its own, which owns it.
WorkerSpawns ==
    /\ worker # None
    /\ Cardinality(running) < Permits
    /\ running' = running \cup {worker}
    /\ worker' = None
    /\ UNCHANGED <<map, cmds, timer, purge, cancelled, calls, workerOn, ended, lost, callerVars>>

\* Mutant of CallbackEnds: the permit is not given back.
CallbackKeepsPermit(v) ==
    /\ v \in running \ ended
    /\ ended' = ended \cup {v}
    /\ UNCHANGED <<map, cmds, timer, purge, cancelled, calls, workerOn, worker, running, lost,
                   callerVars>>

\* expire_call returns or panics; either way its permit is dropped.
CallbackEnds(v) ==
    /\ v \in running
    /\ running' = running \ {v}
    /\ ended' = ended \cup {v}
    /\ UNCHANGED <<map, cmds, timer, purge, cancelled, calls, workerOn, worker, lost, callerVars>>

\* Cancellation is only seen between two callbacks, not while waiting for a permit.
WorkerStops ==
    /\ workerOn /\ worker = None /\ cancelled
    /\ workerOn' = FALSE
    /\ UNCHANGED <<map, cmds, timer, purge, cancelled, calls, worker, running, ended, lost,
                   callerVars>>

----------------------------------------------------------------------------
Callers ==
    \/ \E v \in Values : InsertMap(v) \/ InsertSend(v)
    \/ \E r \in Removers : RemoveMap(r) \/ \E k \in Keys : RemoveSend(r, k)
    \/ \E k \in Keys : Refresh(k)

PurgeTask == HandleCommand \/ PurgeStops \/ \E k \in Keys : Expire(k)

Worker ==
    \/ WorkerReceives \/ WorkerSpawns \/ WorkerStops
    \/ \E v \in Values : CallbackEnds(v)

Next == Callers \/ PurgeTask \/ Worker \/ Cancel

Spec == Init /\ [][Next]_vars

\* A call of insert or remove does not await; the tasks are scheduled by tokio,
\* whose select! picks among ready branches at random; a timer fires in the
\* end; and every expire_call ends.
Fairness ==
    /\ \A v \in Values : WF_vars(InsertSend(v)) /\ WF_vars(CallbackEnds(v))
    /\ \A r \in Removers : WF_vars(RemoveMap(r))
    /\ WF_vars(HandleCommand) /\ \A k \in Keys : WF_vars(Expire(k))
    /\ WF_vars(WorkerReceives) /\ WF_vars(WorkerSpawns)

FairSpec == Spec /\ Fairness

----------------------------------------------------------------------------
(* Properties.                                                             *)

Commands == [op : {"insert", "remove", "refresh"}, key : Keys, val : Values \cup {None}]

TypeOK ==
    /\ map \in [Keys -> Values \cup {None}]
    /\ cmds \in Seq(Commands)
    /\ timer \in [Keys -> Mortal \cup {None}]
    /\ purge \in {"running", "stopped"} /\ cancelled \in BOOLEAN
    /\ calls \in Seq(Values) /\ Len(calls) <= CallCap
    /\ workerOn \in BOOLEAN /\ worker \in Values \cup {None}
    /\ running \subseteq Values /\ ended \subseteq Values /\ lost \subseteq Values
    /\ returned \subseteq Values /\ overtook \subseteq Values
    /\ ipc \in [Values -> {"idle", "mapped", "done"}]
    /\ rpc \in [Removers -> {"idle", "sent", "done"}] /\ rkey \in [Removers -> Keys \cup {None}]
    /\ refreshes \in 0..MaxRefreshes

\* The places a value may be in, from the map on.
Queued == {calls[n] : n \in 1..Len(calls)}

Places == <<{v \in Values : map[KeyOf[v]] = v}, Queued, {worker}, running, ended, lost, returned>>

\* No callback for a value a caller got back from remove, nor two for one
\* value, and no more callbacks at once than there are permits: the purge task,
\* the removers and the worker share the value without a lock.
CalledBackOnce ==
    /\ TypeOK
    /\ \A m, n \in 1..Len(calls) : calls[m] = calls[n] => m = n
    /\ \A m, n \in 1..7 : m # n => Places[m] \cap Places[n] = {}
    /\ Cardinality(running) <= Permits

\* Once the calls and commands of a key are through, a value with a ttl that
\* sits in the map under it has its timer running, whatever insertions,
\* removals, refreshes and expirations were interleaved: it cannot outlive its
\* ttl for good.  The one exception, a value that overtook an insertion of its
\* key without a ttl: the code tells the purge task of the two in the other
\* order, and the command without a ttl takes the timer away.
Settled(k) == /\ \A n \in 1..Len(cmds) : cmds[n].key # k
              /\ \A v \in Values : ipc[v] = "mapped" => KeyOf[v] # k
              /\ \A r \in Removers : rpc[r] = "sent" => rkey[r] # k

NothingOutlivesItsTimer ==
    purge = "running" =>
        \A k \in Keys : Settled(k) /\ map[k] \in Mortal \ overtook => timer[k] # None

\* An expired value that found room in the channel gets its callback.
ExpiredAreCalledBack ==
    \A v \in Values : v \in Queued ~> (v \in running \cup ended \/ cancelled)

\* A value is only expired by the timer its own ttl armed: an insertion replaces
\* the timer of the value it replaces.
ExpiredByOwnTimer ==
    [][\A k \in Keys : timer[k] # None /\ timer'[k] = None /\ cmds' = cmds
           /\ map[k] # None /\ purge' = "running" => timer[k] = map[k]]_vars
=============================================================================
