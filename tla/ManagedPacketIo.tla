-------------------------- MODULE ManagedPacketIo ---------------------------
(***************************************************************************)
(* The lifecycle of a managed endpoint, base/src/net/rw.rs: connect_tcp,   *)
(* the connection tasks it and the listener spawn, the handles' and the    *)
(* endpoint's close_and_wait, and the reports they merge.                  *)
(*                                                                         *)
(* Every process that closes connections (a caller of connect_tcp while it *)
(* reaps or gives up, the owner of a handle, a caller of the endpoint's    *)
(* close_and_wait) runs ManagedTcpConnection::close_and_wait on one        *)
(* connection after the other.  The writer registry is the table of the    *)
(* PacketWriter module, each of its operations one step.  A report is the  *)
(* number of times each connection's task has been counted in it.          *)
(***************************************************************************)
EXTENDS Integers, FiniteSets

CONSTANTS Active,      \* connections opened by a connect_tcp call each
          Inbound,     \* connections accepted by the listener
          Users,       \* calls of close_and_wait on a handle
          Closers,     \* calls of the endpoint's close_and_wait
          Addrs, AddrOf,
          Queued,      \* TcpWriteMode: Queued or Direct
          HasTcp, HasUdp,  \* the sockets the endpoint was made with
          MaxDrops,    \* bound: futures dropped by their callers
          None

Conns == Active \cup Inbound
Procs == Active \cup Users \cup Closers

ASSUME EndpointAssumption ==
    /\ AddrOf \in [Conns -> Addrs]
    /\ {Queued, HasTcp, HasUdp} \subseteq BOOLEAN
    /\ MaxDrops \in Nat
    /\ None \notin Procs \cup Conns
    /\ Active \cap Inbound = {} /\ Active \cap Users = {}
    /\ Closers \cap (Active \cup Users) = {}

VARIABLES
    cancel, external,     \* ManagedPacketIo.cancel; the token given by the creator
    listener, udp, root,  \* the protocol tasks and their supervisor
    task, rd, wr,         \* per connection: its task, its read and write halves
    token,                \* connections whose own token is cancelled
    ready,                \* connections that have reported READY
    writers, wclosed,     \* PacketWriter: registration per address; closed
    cpc, connecting,      \* connect_tcp calls; connecting_tcp_peers
    sub, at, todo,        \* per process: the close it runs, on what, what is left
    lock, completed,      \* per connection: its close_state
    owned, active,        \* owner_registered; active_connections
    pending, joined,      \* completed_connection_report; the listener's report
    epc, ioLock, ioCompleted, report,  \* the endpoint's close_and_wait
    drops

taskVars == <<task, rd, wr, token, ready, writers>>
protoVars == <<listener, udp, root, joined>>
subVars == <<sub, at, todo, lock, completed, owned, active, pending>>
closeVars == <<wclosed, epc, ioLock, ioCompleted, report>>
ioVars == <<cancel, external, protoVars>>
callVars == <<cpc, connecting, subVars, closeVars, drops>>
vars == <<ioVars, taskVars, callVars>>

Cancelled(c) == cancel \/ c \in token
Over == {"ok", "err", "panicked"}

Init ==
    /\ cancel = FALSE /\ external = FALSE
    /\ listener = (IF HasTcp THEN "accepting" ELSE "over")
    /\ udp = (IF HasUdp THEN "receiving" ELSE "over") /\ root = "watching"
    /\ task = [c \in Conns |-> "none"]
    /\ rd = [c \in Conns |-> "on"]
    /\ wr = [c \in Conns |-> IF Queued THEN "on" ELSE "ok"]
    /\ token = {} /\ ready = {} /\ writers = [a \in Addrs |-> None] /\ wclosed = FALSE
    /\ cpc = [c \in Active |-> "idle"] /\ connecting = {}
    /\ sub = [p \in Procs |-> "none"] /\ at = [p \in Procs |-> None]
    /\ todo = [p \in Procs |-> {}]
    /\ lock = [c \in Active |-> None] /\ completed = {}
    /\ owned = {} /\ active = {}
    /\ pending = [c \in Conns |-> 0] /\ joined = [c \in Conns |-> 0]
    /\ epc = [e \in Closers |-> "idle"] /\ ioLock = None /\ ioCompleted = FALSE
    /\ report = [c \in Conns |-> 0]
    /\ drops = 0

----------------------------------------------------------------------------
(* run_managed_tcp_connection and its two halves.                          *)

\* The writer is registered, displacing one at the same address; READY.
Register(c) ==
    /\ task[c] = "starting" /\ ~wclosed
    /\ writers' = [writers EXCEPT ![AddrOf[c]] = c]
    /\ token' = token \cup ({writers[AddrOf[c]]} \ {None})
    /\ ready' = ready \cup {c}
    /\ task' = [task EXCEPT ![c] = "running"]
    /\ UNCHANGED <<ioVars, rd, wr, callVars>>

RefuseWriter(c) ==
    /\ task[c] = "starting" /\ wclosed
    /\ token' = token \cup {c}
    /\ task' = [task EXCEPT ![c] = "err"]
    /\ UNCHANGED <<ioVars, rd, wr, ready, writers, callVars>>

\* remove_registered_tcp_writer closes the sink it takes out.
Unregister(c) ==
    /\ writers' = [a \in Addrs |-> IF writers[a] = c THEN None ELSE writers[a]]
    /\ token' = token \cup {c}

\* The peer closes, sends too much, reading fails, or the token is cancelled;
\* dispatcher.close may fail.
ReadEnds(c, result) ==
    /\ task[c] = "running" /\ rd[c] = "on"
    /\ rd' = [rd EXCEPT ![c] = result]
    /\ IF writers[AddrOf[c]] = c THEN Unregister(c) ELSE UNCHANGED <<writers, token>>
    /\ UNCHANGED <<ioVars, task, wr, ready, callVars>>

\* Splitter or dispatcher fail: the ? skips the removal and dispatcher.close.
ReadFails(c) ==
    /\ task[c] = "running" /\ rd[c] = "on"
    /\ rd' = [rd EXCEPT ![c] = "err"]
    /\ UNCHANGED <<ioVars, task, wr, token, ready, writers, callVars>>

\* They panic: the whole task goes.
ReadPanics(c) ==
    /\ task[c] = "running" /\ rd[c] = "on"
    /\ task' = [task EXCEPT ![c] = "panicked"]
    /\ UNCHANGED <<ioVars, rd, wr, token, ready, writers, callVars>>

\* A queued packet is being written, which cancellation does not interrupt.
WriteBegins(c) ==
    /\ task[c] = "running" /\ wr[c] = "on"
    /\ wr' = [wr EXCEPT ![c] = "writing"]
    /\ UNCHANGED <<ioVars, task, rd, token, ready, writers, callVars>>

WriteDone(c) ==
    /\ task[c] = "running" /\ wr[c] = "writing"
    /\ wr' = [wr EXCEPT ![c] = "on"]
    /\ UNCHANGED <<ioVars, task, rd, token, ready, writers, callVars>>

\* Writing fails or the token is cancelled: everything is taken down.
WriteEnds(c, result) ==
    /\ task[c] = "running"
    /\ wr[c] = "writing" \/ (wr[c] = "on" /\ Cancelled(c))
    /\ wr' = [wr EXCEPT ![c] = result]
    /\ Unregister(c)
    /\ UNCHANGED <<ioVars, task, rd, ready, callVars>>

FinishTask(c) ==
    /\ task[c] = "running" /\ {rd[c], wr[c]} \subseteq {"ok", "err"}
    /\ task' = [task EXCEPT ![c] = IF rd[c] = "ok" /\ wr[c] = "ok" THEN "ok" ELSE "err"]
    /\ UNCHANGED <<ioVars, rd, wr, token, ready, writers, callVars>>

Task(c) ==
    \/ Register(c) \/ RefuseWriter(c) \/ ReadFails(c) \/ ReadPanics(c)
    \/ WriteBegins(c) \/ WriteDone(c) \/ FinishTask(c)
    \/ \E r \in {"ok", "err"} : ReadEnds(c, r) \/ WriteEnds(c, r)

----------------------------------------------------------------------------
(* run_managed_packet_io, run_tcp_listener and run_udp_receiver.           *)

Accept(c) ==
    /\ listener = "accepting" /\ ~cancel
    /\ task[c] = "none"
    /\ task' = [task EXCEPT ![c] = "starting"]
    /\ UNCHANGED <<ioVars, rd, wr, token, ready, writers, callVars>>

\* accept fails, and the listener waits before it tries again; it joins no
\* connection meanwhile.
AcceptFails ==
    /\ listener = "accepting" /\ ~cancel
    /\ listener' = "backoff"
    /\ UNCHANGED <<cancel, external, udp, root, joined, taskVars, callVars>>

BackoffOver ==
    /\ listener = "backoff" /\ ~cancel
    /\ listener' = "accepting"
    /\ UNCHANGED <<cancel, external, udp, root, joined, taskVars, callVars>>

JoinConnection(c) ==
    /\ listener \in {"accepting", "draining"}
    /\ task[c] \in Over /\ joined[c] = 0
    /\ joined' = [joined EXCEPT ![c] = @ + 1]
    /\ UNCHANGED <<cancel, external, listener, udp, root, taskVars, callVars>>

ListenerStops ==
    /\ listener \in {"accepting", "backoff"} /\ cancel
    /\ listener' = "draining"
    /\ UNCHANGED <<cancel, external, udp, root, joined, taskVars, callVars>>

ListenerOver ==
    /\ listener = "draining"
    /\ \A c \in Inbound : task[c] = "none" \/ joined[c] > 0
    /\ listener' = "over"
    /\ UNCHANGED <<cancel, external, udp, root, joined, taskVars, callVars>>

\* The token is cancelled, or reading the socket fails.
UdpStops ==
    /\ udp = "receiving"
    /\ udp' = "over"
    /\ UNCHANGED <<cancel, external, listener, root, joined, taskVars, callVars>>

\* The supervisor passes the creator's cancellation on while it has tasks.
RelayCancel ==
    /\ root = "watching" /\ external
    /\ \/ listener # "over" \/ udp # "over"
    /\ ~cancel /\ cancel' = TRUE
    /\ UNCHANGED <<external, protoVars, taskVars, callVars>>

RootDone ==
    /\ root = "watching" /\ listener = "over" /\ udp = "over"
    /\ root' = "done"
    /\ UNCHANGED <<cancel, external, listener, udp, joined, taskVars, callVars>>

\* The creator cancels its token; the runtime cancels its own, the parent.
CancelExternal ==
    /\ ~external /\ external' = TRUE
    /\ UNCHANGED <<cancel, protoVars, taskVars, callVars>>

CancelRuntime ==
    /\ ~cancel /\ cancel' = TRUE
    /\ UNCHANGED <<external, protoVars, taskVars, callVars>>

Protocol ==
    \/ \E c \in Inbound : Accept(c) \/ JoinConnection(c)
    \/ AcceptFails \/ BackoffOver \/ ListenerStops \/ ListenerOver \/ UdpStops \/ RelayCancel \/ RootDone

----------------------------------------------------------------------------
(* ManagedTcpConnection::close_and_wait, run by p on the connections todo. *)

restVars == <<ioVars, cpc, connecting, closeVars, drops>>

CloseNext(p, c) ==
    /\ sub[p] = "none" /\ c \in todo[p]
    /\ todo' = [todo EXCEPT ![p] = @ \ {c}]
    /\ at' = [at EXCEPT ![p] = c]
    /\ sub' = [sub EXCEPT ![p] = "lock"]
    /\ UNCHANGED <<restVars, taskVars, lock, completed, owned, active, pending>>

LockConnection(p) ==
    /\ sub[p] = "lock" /\ lock[at[p]] = None
    /\ \/ /\ at[p] \in completed
          /\ sub' = [sub EXCEPT ![p] = "finalize"]
          /\ UNCHANGED <<lock, token>>
       \/ /\ at[p] \notin completed
          /\ sub' = [sub EXCEPT ![p] = "await"]
          /\ lock' = [lock EXCEPT ![at[p]] = p]
          /\ token' = token \cup {at[p]}
    /\ UNCHANGED <<restVars, task, rd, wr, ready, writers, at, todo, completed, owned, active, pending>>

AwaitTask(p) ==
    /\ sub[p] = "await" /\ task[at[p]] \in Over
    /\ completed' = completed \cup {at[p]}
    /\ lock' = [lock EXCEPT ![at[p]] = None]
    /\ sub' = [sub EXCEPT ![p] = "finalize"]
    /\ UNCHANGED <<restVars, taskVars, at, todo, owned, active, pending>>

\* Mutant of Finalize: owner_registered is only read.
FinalizeUnswapped(p) ==
    /\ sub[p] = "finalize"
    /\ sub' = [sub EXCEPT ![p] = IF at[p] \in owned THEN "merge" ELSE "none"]
    /\ UNCHANGED <<restVars, taskVars, at, todo, lock, completed, owned, active, pending>>

\* finalize_owner: whoever swaps owner_registered merges the report,
Finalize(p) ==
    /\ sub[p] = "finalize"
    /\ sub' = [sub EXCEPT ![p] = IF at[p] \in owned THEN "merge" ELSE "none"]
    /\ owned' = owned \ {at[p]}
    /\ UNCHANGED <<restVars, taskVars, at, todo, lock, completed, active, pending>>

MergeReport(p) ==
    /\ sub[p] = "merge"
    /\ pending' = [pending EXCEPT ![at[p]] = @ + 1]
    /\ sub' = [sub EXCEPT ![p] = "remove"]
    /\ UNCHANGED <<restVars, taskVars, at, todo, lock, completed, owned, active>>

\* and takes the connection out of the endpoint's table.
RemoveConnection(p) ==
    /\ sub[p] = "remove"
    /\ active' = active \ {at[p]}
    /\ sub' = [sub EXCEPT ![p] = "none"]
    /\ UNCHANGED <<restVars, taskVars, at, todo, lock, completed, owned, pending>>

Closing(p) ==
    \/ LockConnection(p) \/ AwaitTask(p) \/ Finalize(p) \/ MergeReport(p) \/ RemoveConnection(p)
    \/ \E c \in todo[p] : CloseNext(p, c)

\* p has closed what it set out to close.
Idle(p) == sub[p] = "none" /\ todo[p] = {}

\* The owner of a handle closes it.
UserCloses(u) ==
    /\ sub[u] = "none" /\ at[u] = None
    /\ \E c \in Active : /\ cpc[c] = "returned"
                         /\ at' = [at EXCEPT ![u] = c]
    /\ sub' = [sub EXCEPT ![u] = "lock"]
    /\ UNCHANGED <<restVars, taskVars, todo, lock, completed, owned, active, pending>>

----------------------------------------------------------------------------
(* connect_tcp.                                                            *)

\* Mutant of Reserve: only the registry is looked at.
ReserveUnchecked(c) ==
    /\ cpc[c] = "idle" /\ ~cancel
    /\ writers[AddrOf[c]] = None
    /\ connecting' = connecting \cup {AddrOf[c]}
    /\ cpc' = [cpc EXCEPT ![c] = "snapshot"]
    /\ UNCHANGED <<ioVars, taskVars, subVars, closeVars, drops>>

Reserve(c) ==
    /\ cpc[c] = "idle" /\ ~cancel
    /\ writers[AddrOf[c]] = None /\ AddrOf[c] \notin connecting
    /\ connecting' = connecting \cup {AddrOf[c]}
    /\ cpc' = [cpc EXCEPT ![c] = "snapshot"]
    /\ UNCHANGED <<ioVars, taskVars, subVars, closeVars, drops>>

RefuseConnect(c) ==
    /\ cpc[c] = "idle"
    /\ cancel \/ writers[AddrOf[c]] # None \/ AddrOf[c] \in connecting
    /\ cpc' = [cpc EXCEPT ![c] = "failed"]
    /\ UNCHANGED <<ioVars, taskVars, connecting, subVars, closeVars, drops>>

\* task_is_finished only tries the lock.
TaskIsFinished(d) == lock[d] = None /\ task[d] \in Over

\* reap_finished_connections.
ReapFinished(c) ==
    /\ cpc[c] = "snapshot"
    /\ cpc' = [cpc EXCEPT ![c] = "reaping"]
    /\ todo' = [todo EXCEPT ![c] = {d \in active : TaskIsFinished(d)}]
    /\ UNCHANGED <<ioVars, taskVars, connecting, sub, at, lock, completed, owned, active, pending, closeVars, drops>>

\* The reservation ends with the call.
Return(c, how) ==
    /\ cpc' = [cpc EXCEPT ![c] = how]
    /\ connecting' = connecting \ {AddrOf[c]}

\* The connection is made and its task spawned,
Connect(c) ==
    /\ cpc[c] = "reaping" /\ Idle(c) /\ ~cancel
    /\ task' = [task EXCEPT ![c] = "starting"]
    /\ cpc' = [cpc EXCEPT ![c] = "ready"]
    /\ UNCHANGED <<ioVars, rd, wr, token, ready, writers, connecting, subVars, closeVars, drops>>

\* or the endpoint is cancelled, the timeout passes, the peer or spawn refuses.
ConnectFails(c) ==
    /\ cpc[c] = "reaping" /\ Idle(c)
    /\ Return(c, "failed")
    /\ UNCHANGED <<ioVars, taskVars, subVars, closeVars, drops>>

BecomeReady(c) ==
    /\ cpc[c] = "ready" /\ ~cancel /\ c \in ready
    /\ cpc' = [cpc EXCEPT ![c] = "own"]
    /\ UNCHANGED <<ioVars, taskVars, connecting, subVars, closeVars, drops>>

\* Mutant of GiveUp: the connection is dropped without waiting for its task.
GiveUpAtOnce(c) ==
    /\ \/ cpc[c] = "ready" /\ (cancel \/ (task[c] \in Over /\ c \notin ready))
       \/ cpc[c] = "own" /\ ioLock = None /\ (cancel \/ ioCompleted)
    /\ Return(c, "failed")
    /\ token' = token \cup {c}
    /\ UNCHANGED <<ioVars, task, rd, wr, ready, writers, subVars, closeVars, drops>>

\* Cancelled before it was ready or owned: it is closed first.
GiveUp(c) ==
    /\ \/ cpc[c] = "ready" /\ (cancel \/ (task[c] \in Over /\ c \notin ready))
       \/ cpc[c] = "own" /\ ioLock = None /\ (cancel \/ ioCompleted)
    /\ cpc' = [cpc EXCEPT ![c] = "closing"]
    /\ todo' = [todo EXCEPT ![c] = {c}]
    /\ UNCHANGED <<ioVars, taskVars, connecting, sub, at, lock, completed, owned, active, pending, closeVars, drops>>

GaveUp(c) ==
    /\ cpc[c] = "closing" /\ Idle(c)
    /\ Return(c, "failed")
    /\ UNCHANGED <<ioVars, taskVars, subVars, closeVars, drops>>

\* Mutant of Own: close_state is not looked at.
OwnUnlocked(c) ==
    /\ cpc[c] = "own"
    /\ owned' = owned \cup {c} /\ active' = active \cup {c}
    /\ Return(c, "returned")
    /\ UNCHANGED <<ioVars, taskVars, sub, at, todo, lock, completed, pending, closeVars, drops>>

\* Under the endpoint's close_state the connection enters its table.
Own(c) ==
    /\ cpc[c] = "own" /\ ioLock = None /\ ~cancel /\ ~ioCompleted
    /\ owned' = owned \cup {c} /\ active' = active \cup {c}
    /\ Return(c, "returned")
    /\ UNCHANGED <<ioVars, taskVars, sub, at, todo, lock, completed, pending, closeVars, drops>>

ConnectTcp(c) ==
    \/ Reserve(c) \/ RefuseConnect(c) \/ ReapFinished(c) \/ Connect(c) \/ ConnectFails(c)
    \/ BecomeReady(c) \/ GiveUp(c) \/ GaveUp(c) \/ Own(c)

----------------------------------------------------------------------------
(* ManagedPacketIo::close_and_wait.                                        *)

StartClose(e) ==
    /\ epc[e] = "idle"
    /\ epc' = [epc EXCEPT ![e] = "lock"]
    /\ UNCHANGED <<ioVars, taskVars, cpc, connecting, subVars, wclosed, ioLock, ioCompleted, report, drops>>

\* Mutant of LockEndpoint: the endpoint is not cancelled before it is awaited.
LockUncancelled(e) ==
    /\ epc[e] = "lock" /\ ioLock = None
    /\ \/ ioCompleted /\ epc' = [epc EXCEPT ![e] = "done"] /\ UNCHANGED ioLock
       \/ /\ ~ioCompleted /\ epc' = [epc EXCEPT ![e] = "writer"]
          /\ ioLock' = e
    /\ UNCHANGED <<ioVars, taskVars, cpc, connecting, subVars, wclosed, ioCompleted, report, drops>>

LockEndpoint(e) ==
    /\ epc[e] = "lock" /\ ioLock = None
    /\ \/ ioCompleted /\ epc' = [epc EXCEPT ![e] = "done"] /\ UNCHANGED <<ioLock, cancel>>
       \/ /\ ~ioCompleted /\ epc' = [epc EXCEPT ![e] = "writer"]
          /\ ioLock' = e /\ cancel' = TRUE
    /\ UNCHANGED <<external, protoVars, taskVars, cpc, connecting, subVars, wclosed, ioCompleted, report, drops>>

\* PacketWriter::close: every registered sink is taken out and closed.  After a
\* dropped call it is repeated, or skipped if it was over: it finds nothing.
CloseWriter(e) ==
    /\ epc[e] = "writer"
    /\ wclosed' = TRUE
    /\ token' = token \cup ({writers[a] : a \in Addrs} \ {None})
    /\ writers' = [a \in Addrs |-> None]
    /\ epc' = [epc EXCEPT ![e] = "snapshot"]
    /\ UNCHANGED <<ioVars, task, rd, wr, ready, cpc, connecting, subVars, ioLock, ioCompleted, report, drops>>

SnapshotActive(e) ==
    /\ epc[e] = "snapshot" /\ Idle(e)
    /\ todo' = [todo EXCEPT ![e] = active]
    /\ epc' = [epc EXCEPT ![e] = IF active = {} THEN "report" ELSE "snapshot"]
    /\ UNCHANGED <<ioVars, taskVars, cpc, connecting, sub, at, lock, completed, owned, active, pending, wclosed, ioLock, ioCompleted, report, drops>>

TakeReport(e) ==
    /\ epc[e] = "report"
    /\ report' = [c \in Conns |-> report[c] + pending[c]]
    /\ pending' = [c \in Conns |-> 0]
    /\ epc' = [epc EXCEPT ![e] = "root"]
    /\ UNCHANGED <<ioVars, taskVars, cpc, connecting, sub, at, todo, lock, completed, owned, active, wclosed, ioLock, ioCompleted, drops>>

AwaitRoot(e) ==
    /\ epc[e] = "root" /\ root = "done"
    /\ report' = [c \in Conns |-> report[c] + joined[c]]
    /\ ioCompleted' = TRUE /\ ioLock' = None
    /\ epc' = [epc EXCEPT ![e] = "done"]
    /\ UNCHANGED <<ioVars, taskVars, cpc, connecting, subVars, wclosed, drops>>

CloseAndWait(e) ==
    \/ StartClose(e) \/ LockEndpoint(e) \/ CloseWriter(e) \/ SnapshotActive(e)
    \/ TakeReport(e) \/ AwaitRoot(e)

----------------------------------------------------------------------------
(* A caller drops a future at one of its awaits.                           *)

Awaiting(p) == sub[p] \in {"lock", "await"} \/ Idle(p)

LetGo(p) ==
    /\ sub' = [sub EXCEPT ![p] = "none"]
    /\ todo' = [todo EXCEPT ![p] = {}]
    /\ lock' = [c \in Active |-> IF lock[c] = p THEN None ELSE lock[c]]
    /\ drops < MaxDrops /\ drops' = drops + 1
    /\ UNCHANGED <<at, completed, owned, active, pending>>

DropUser(u) ==
    /\ sub[u] \in {"lock", "await"}
    /\ LetGo(u)
    /\ UNCHANGED <<ioVars, taskVars, cpc, connecting, closeVars>>

\* The next call starts over: writer_closed, root_task and the tasks are kept.
DropClose(e) ==
    /\ epc[e] \in {"lock", "writer", "snapshot", "root"} /\ Awaiting(e)
    /\ LetGo(e)
    /\ epc' = [epc EXCEPT ![e] = "idle"]
    /\ ioLock' = IF ioLock = e THEN None ELSE ioLock
    /\ UNCHANGED <<ioVars, taskVars, cpc, connecting, wclosed, ioCompleted, report>>

\* A spawned task's handle goes with it, which cancels its token.
DropConnect(c) ==
    /\ cpc[c] \in {"reaping", "ready", "own", "closing"} /\ Awaiting(c)
    /\ LetGo(c)
    /\ Return(c, "dropped")
    /\ token' = IF task[c] # "none" THEN token \cup {c} ELSE token
    /\ UNCHANGED <<ioVars, task, rd, wr, ready, writers, closeVars>>

----------------------------------------------------------------------------
Next ==
    \/ \E c \in Conns : Task(c)
    \/ Protocol \/ CancelExternal \/ CancelRuntime
    \/ \E p \in Procs : Closing(p)
    \/ \E c \in Active : ConnectTcp(c) \/ DropConnect(c)
    \/ \E u \in Users : UserCloses(u) \/ DropUser(u)
    \/ \E e \in Closers : CloseAndWait(e) \/ DropClose(e)

Spec == Init /\ [][Next]_vars

\* tokio polls every task and call that can go on, and a cancelled half sees its
\* token: the write half's select! picks at random between it and the queue, so
\* it cannot be passed over for ever.  Peers, creators, owners and the network owe nothing: a connection
\* need not end by itself, nor a write that has begun.
Fairness ==
    /\ \A c \in Conns :
           /\ WF_vars(Register(c) \/ RefuseWriter(c)) /\ WF_vars(FinishTask(c))
           /\ WF_vars(Cancelled(c) /\ \E r \in {"ok", "err"} : ReadEnds(c, r))
           /\ SF_vars(wr[c] = "on" /\ \E r \in {"ok", "err"} : WriteEnds(c, r))
    /\ \A c \in Inbound : WF_vars(JoinConnection(c))
    /\ WF_vars(ListenerStops) /\ WF_vars(ListenerOver) /\ WF_vars(cancel /\ UdpStops)
    /\ WF_vars(RelayCancel) /\ WF_vars(RootDone)
    /\ \A p \in Procs : WF_vars(Closing(p))
    /\ \A e \in Closers : WF_vars(epc[e] # "idle" /\ CloseAndWait(e))

FairSpec == Spec /\ Fairness

\* What close_and_wait needs besides: the peers of queued connections go on
\* reading, so that a write that has begun ends.
WriteStops(c) == wr[c] = "writing" /\ (WriteDone(c) \/ \E r \in {"ok", "err"} : WriteEnds(c, r))

PeersRead == \A c \in Conns : WF_vars(WriteStops(c))

ReadingSpec == FairSpec /\ PeersRead

----------------------------------------------------------------------------
(* Properties.                                                             *)

TypeOK ==
    /\ {cancel, external, wclosed, ioCompleted} \subseteq BOOLEAN
    /\ listener \in {"accepting", "backoff", "draining", "over"} /\ udp \in {"receiving", "over"}
    /\ root \in {"watching", "done"}
    /\ task \in [Conns -> {"none", "starting", "running"} \cup Over]
    /\ rd \in [Conns -> {"on", "ok", "err"}] /\ wr \in [Conns -> {"on", "writing", "ok", "err"}]
    /\ token \subseteq Conns /\ ready \subseteq Conns
    /\ writers \in [Addrs -> Conns \cup {None}]
    /\ cpc \in [Active -> {"idle", "snapshot", "reaping", "ready", "own", "closing",
                           "returned", "failed", "dropped"}]
    /\ connecting \subseteq Addrs
    /\ sub \in [Procs -> {"none", "lock", "await", "finalize", "merge", "remove"}]
    /\ at \in [Procs -> Active \cup {None}] /\ todo \in [Procs -> SUBSET Active]
    /\ lock \in [Active -> Procs \cup {None}]
    /\ completed \subseteq Active /\ owned \subseteq Active /\ active \subseteq Active
    /\ {pending, joined, report} \subseteq [Conns -> Nat]
    /\ epc \in [Closers -> {"idle", "lock", "writer", "snapshot", "report", "root", "done"}]
    /\ ioLock \in Closers \cup {None}

\* The connections the endpoint answers for: accepted, or returned by connect_tcp.
Owned(c) == IF c \in Active THEN cpc[c] = "returned" ELSE task[c] # "none"

\* When close_and_wait has completed, every connection the endpoint answers for
\* is in its report exactly once, whoever closed it: its owner, a reaper, the
\* endpoint, or several of them at once, some of them dropped half-way.
EveryTaskCountedOnce ==
    ioCompleted => \A c \in Conns : report[c] = IF Owned(c) THEN 1 ELSE 0

\* When it has completed, their tasks have ended, none is left in the table, and
\* no late connect_tcp can add one.
ClosedMeansStopped ==
    ioCompleted => /\ active = {}
                   /\ \A c \in Conns : Owned(c) => task[c] \in Over

\* A connect_tcp that fails leaves no task behind.
FailedConnectLeavesNothing ==
    \A c \in Active : cpc[c] = "failed" => task[c] \in Over \cup {"none"}

\* A task that ended well has left the registry: its address can be dialled
\* again, and no writer is handed a dead sink.
NoStaleRegistration ==
    \A c \in Conns : task[c] = "ok" => writers[AddrOf[c]] # c

\* What has ended has left nothing behind: neither does a connect_tcp that gave
\* up leave its task running, nor a connection that ended its registration.
NothingLeftBehind == TypeOK /\ FailedConnectLeavesNothing /\ NoStaleRegistration

\* Of two connect_tcp calls to one address neither displaces the other's
\* registration, as long as neither of their futures is dropped.
ConnectNeverDisplaces ==
    [][\A c, d \in Active :
           /\ task[c] = "starting" /\ task'[c] = "running" /\ writers[AddrOf[c]] = d
           => "dropped" \in {cpc[c], cpc[d]}]_vars

\* A close_and_wait that nobody drops returns, even if no peer closes its
\* connection and other callers close the same handles.  (With queued writers
\* this needs PeersRead: a write that has begun does not see the token.)
CloseCompletes == \A e \in Closers : epc[e] = "lock" ~> epc[e] \in {"done", "idle"}

\* The creator's cancellation reaches the endpoint.
ExternalCancelHonored == external ~> cancel
=============================================================================
