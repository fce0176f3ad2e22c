------------------------ MODULE ManagedPacketIoProofs ------------------------
(***************************************************************************)
(* Machine-checked proofs about ManagedPacketIo, for any connections,      *)
(* callers, addresses and socket configuration and any number of dropped   *)
(* futures.                                                                *)
(***************************************************************************)
EXTENDS ManagedPacketIo, TLAPS

----------------------------------------------------------------------------
(* Types.                                                                  *)

\* A process that runs a close has its connection.
TypeInv ==
    /\ TypeOK
    /\ \A p \in Procs : sub[p] # "none" => at[p] \in Active

\* Every variable starts with its type.
LEMMA TypeInit == Init => TypeInv
<1> SUFFICES ASSUME Init PROVE TypeInv
  OBVIOUS
<1> USE EndpointAssumption DEF Init, Conns, Procs
<1>1. /\ task \in [Conns -> {"none", "starting", "running"} \cup Over]
      /\ rd \in [Conns -> {"on", "ok", "err"}] /\ wr \in [Conns -> {"on", "writing", "ok", "err"}]
      /\ writers \in [Addrs -> Conns \cup {None}]
      /\ {pending, joined, report} \subseteq [Conns -> Nat]
  OBVIOUS
<1>2. /\ sub \in [Procs -> {"none", "lock", "await", "finalize", "merge", "remove"}]
      /\ at \in [Procs -> Active \cup {None}] /\ todo \in [Procs -> SUBSET Active]
      /\ lock \in [Active -> Procs \cup {None}]
      /\ \A p \in Procs : sub[p] = "none"
  OBVIOUS
<1>3. /\ listener \in {"accepting", "backoff", "draining", "over"} /\ udp \in {"receiving", "over"}
      /\ root \in {"watching", "done"}
      /\ cpc \in [Active -> {"idle", "snapshot", "reaping", "ready", "own", "closing",
                             "returned", "failed", "dropped"}]
      /\ epc \in [Closers -> {"idle", "lock", "writer", "snapshot", "report", "root", "done"}]
  OBVIOUS
<1> QED
  BY <1>1, <1>2, <1>3 DEF TypeInv, TypeOK

\* Every variable keeps its type under every step of the code.
LEMMA TypeStep == TypeInv /\ [Next]_vars => TypeInv'
<1> SUFFICES ASSUME TypeInv, [Next]_vars PROVE TypeInv'
  OBVIOUS
<1> USE EndpointAssumption
    DEF TypeInv, TypeOK, Over, Conns, Procs, taskVars, protoVars, subVars, closeVars, ioVars, callVars, restVars
<1>1. ASSUME NEW c \in Conns, Task(c) PROVE TypeInv'
  <2>1. CASE Register(c)
    BY <2>1 DEF Register
  <2>2. CASE RefuseWriter(c)
    BY <2>2 DEF RefuseWriter
  <2>3. CASE ReadFails(c)
    BY <2>3 DEF ReadFails
  <2>4. CASE ReadPanics(c)
    BY <2>4 DEF ReadPanics
  <2>5. CASE WriteBegins(c)
    BY <2>5 DEF WriteBegins
  <2>6. CASE WriteDone(c)
    BY <2>6 DEF WriteDone
  <2>7. CASE FinishTask(c)
    BY <2>7 DEF FinishTask
  <2>8. ASSUME NEW r \in {"ok", "err"}, ReadEnds(c, r) PROVE TypeInv'
    BY <2>8 DEF ReadEnds, Unregister
  <2>9. ASSUME NEW r \in {"ok", "err"}, WriteEnds(c, r) PROVE TypeInv'
    BY <2>9 DEF WriteEnds, Unregister
  <2> QED
    BY <1>1, <2>1, <2>2, <2>3, <2>4, <2>5, <2>6, <2>7, <2>8, <2>9
      DEF Task
<1>2. CASE Protocol
  <2>1. ASSUME NEW c \in Inbound, Accept(c) PROVE TypeInv'
    BY <2>1 DEF Accept
  <2>2. ASSUME NEW c \in Inbound, JoinConnection(c) PROVE TypeInv'
    BY <2>2 DEF JoinConnection
  <2>3. CASE AcceptFails
    BY <2>3 DEF AcceptFails
  <2>4. CASE BackoffOver
    BY <2>4 DEF BackoffOver
  <2>5. CASE ListenerStops
    BY <2>5 DEF ListenerStops
  <2>6. CASE ListenerOver
    BY <2>6 DEF ListenerOver
  <2>7. CASE UdpStops
    BY <2>7 DEF UdpStops
  <2>8. CASE RelayCancel
    BY <2>8 DEF RelayCancel
  <2>9. CASE RootDone
    BY <2>9 DEF RootDone
  <2> QED
    BY <1>2, <2>1, <2>2, <2>3, <2>4, <2>5, <2>6, <2>7, <2>8, <2>9
      DEF Protocol
<1>3. CASE CancelExternal
  BY <1>3 DEF CancelExternal
<1>4. CASE CancelRuntime
  BY <1>4 DEF CancelRuntime
<1>5. ASSUME NEW p \in Procs, Closing(p) PROVE TypeInv'
  <2>1. CASE LockConnection(p)
    BY <2>1 DEF LockConnection
  <2>2. CASE AwaitTask(p)
    BY <2>2 DEF AwaitTask
  <2>3. CASE Finalize(p)
    BY <2>3 DEF Finalize
  <2>4. CASE MergeReport(p)
    BY <2>4 DEF MergeReport
  <2>5. CASE RemoveConnection(p)
    BY <2>5 DEF RemoveConnection
  <2>6. ASSUME NEW c \in todo[p], CloseNext(p, c) PROVE TypeInv'
    BY <2>6 DEF CloseNext
  <2> QED
    BY <1>5, <2>1, <2>2, <2>3, <2>4, <2>5, <2>6
      DEF Closing
<1>6. ASSUME NEW c \in Active, ConnectTcp(c) PROVE TypeInv'
  <2>1. CASE Reserve(c)
    BY <2>1 DEF Reserve
  <2>2. CASE RefuseConnect(c)
    BY <2>2 DEF RefuseConnect
  <2>3. CASE ReapFinished(c)
    BY <2>3 DEF ReapFinished
  <2>4. CASE Connect(c)
    BY <2>4 DEF Connect
  <2>5. CASE ConnectFails(c)
    BY <2>5 DEF ConnectFails, Return
  <2>6. CASE BecomeReady(c)
    BY <2>6 DEF BecomeReady
  <2>7. CASE GiveUp(c)
    BY <2>7 DEF GiveUp
  <2>8. CASE GaveUp(c)
    BY <2>8 DEF GaveUp, Return
  <2>9. CASE Own(c)
    BY <2>9 DEF Own, Return
  <2> QED
    BY <1>6, <2>1, <2>2, <2>3, <2>4, <2>5, <2>6, <2>7, <2>8, <2>9
      DEF ConnectTcp
<1>7. ASSUME NEW u \in Users, UserCloses(u) PROVE TypeInv'
  BY <1>7 DEF UserCloses
<1>8. ASSUME NEW e \in Closers, CloseAndWait(e) PROVE TypeInv'
  <2>1. CASE StartClose(e)
    BY <2>1 DEF StartClose
  <2>2. CASE LockEndpoint(e)
    BY <2>2 DEF LockEndpoint
  <2>3. CASE CloseWriter(e)
    BY <2>3 DEF CloseWriter
  <2>4. CASE SnapshotActive(e)
    BY <2>4 DEF SnapshotActive
  <2>5. CASE TakeReport(e)
    BY <2>5 DEF TakeReport
  <2>6. CASE AwaitRoot(e)
    BY <2>6 DEF AwaitRoot
  <2> QED
    BY <1>8, <2>1, <2>2, <2>3, <2>4, <2>5, <2>6
      DEF CloseAndWait
<1>9. ASSUME NEW u \in Users, DropUser(u) PROVE TypeInv'
  BY <1>9 DEF DropUser, LetGo
<1>10. ASSUME NEW e \in Closers, DropClose(e) PROVE TypeInv'
  BY <1>10 DEF DropClose, LetGo
<1>11. ASSUME NEW c \in Active, DropConnect(c) PROVE TypeInv'
  BY <1>11 DEF DropConnect, LetGo, Return
<1>12. CASE UNCHANGED vars
  BY <1>12 DEF vars
<1> QED
  BY <1>1, <1>2, <1>3, <1>4, <1>5, <1>6, <1>7, <1>8, <1>9, <1>10, <1>11, <1>12
    DEF Next

----------------------------------------------------------------------------
(* Tasks and registrations.                                                *)

Fresh == {"none", "starting"}

\* A read half that ended well has left the registry, a registered connection
\* is registered under its address by a task that has begun, and a handle is
\* marked completed once the task is over.
TaskInv ==
    /\ \A c \in Conns :
        /\ task[c] \in Fresh => rd[c] = "on"
        /\ task[c] = "ok" => rd[c] = "ok"
        /\ rd[c] = "ok" => writers[AddrOf[c]] # c
        /\ c \in ready => task[c] \notin Fresh
        /\ c \in completed => task[c] \in Over
    /\ \A a \in Addrs : writers[a] # None =>
           task[writers[a]] \notin Fresh /\ AddrOf[writers[a]] = a

\* How far a connect_tcp call has come tells whether its task runs; while it gives
\* up, it closes its own connection.
CallInv ==
    \A c \in Active :
        /\ cpc[c] \in {"idle", "snapshot", "reaping"} => task[c] = "none"
        /\ cpc[c] \in {"ready", "own"} => Idle(c)
        /\ cpc[c] \in {"own", "returned"} => task[c] \notin Fresh
        /\ cpc[c] = "closing" => todo[c] \subseteq {c}
        /\ cpc[c] = "closing" => \/ sub[c] = "none" /\ c \in todo[c]
                                 \/ sub[c] \in {"lock", "await"} /\ at[c] = c
                                 \/ task[c] \in Over
        /\ cpc[c] = "failed" => task[c] \in Over \cup {"none"}

\* Every step keeps what is known of a read half that has ended.
LEMMA TaskStep == TypeInv /\ TaskInv /\ CallInv /\ [Next]_vars => TaskInv'
<1> SUFFICES ASSUME TypeInv, TaskInv, CallInv, [Next]_vars PROVE TaskInv'
  OBVIOUS
<1> USE EndpointAssumption
    DEF taskVars, protoVars, subVars, closeVars, ioVars, callVars, restVars
<1>0. ASSUME UNCHANGED <<task, rd, writers, ready, completed>> PROVE TaskInv'
  BY <1>0 DEF TaskInv, Fresh, Over
<1>1. ASSUME NEW c \in Conns, Task(c) PROVE TaskInv'
  <2>1. CASE Register(c)
    BY <2>1 DEF Register, TaskInv, Fresh, Over, TypeInv, TypeOK, Conns
  <2>2. CASE RefuseWriter(c)
    BY <2>2 DEF RefuseWriter, TaskInv, Fresh, Over, TypeInv, TypeOK, Conns
  <2>3. CASE ReadFails(c)
    BY <2>3 DEF ReadFails, TaskInv, Fresh, Over, TypeInv, TypeOK, Conns
  <2>4. CASE ReadPanics(c)
    BY <2>4 DEF ReadPanics, TaskInv, Fresh, Over, TypeInv, TypeOK, Conns
  <2>5. CASE FinishTask(c)
    BY <2>5 DEF FinishTask, TaskInv, Fresh, Over, TypeInv, TypeOK, Conns
  <2>6. ASSUME NEW r \in {"ok", "err"}, ReadEnds(c, r) PROVE TaskInv'
    BY <2>6 DEF ReadEnds, Unregister, TaskInv, Fresh, Over, TypeInv, TypeOK, Conns
  <2>7. ASSUME NEW r \in {"ok", "err"}, WriteEnds(c, r) PROVE TaskInv'
    BY <2>7 DEF WriteEnds, Unregister, TaskInv, Fresh, Over, TypeInv, TypeOK, Conns
  <2>8. CASE WriteBegins(c) \/ WriteDone(c)
    BY <1>0, <2>8
      DEF WriteBegins, WriteDone
  <2> QED
    BY <1>1, <2>1, <2>2, <2>3, <2>4, <2>5, <2>6, <2>7, <2>8
      DEF Task
<1>2. CASE Protocol
  <2>1. ASSUME NEW c \in Inbound, Accept(c) PROVE TaskInv'
    BY <2>1 DEF Accept, TaskInv, Fresh, Over, TypeInv, TypeOK, Conns
  <2>2. CASE \/ (\E c \in Inbound : JoinConnection(c)) \/ AcceptFails \/ BackoffOver
             \/ ListenerStops \/ ListenerOver \/ UdpStops \/ RelayCancel \/ RootDone
    BY <1>0, <2>2
      DEF JoinConnection, AcceptFails, BackoffOver, ListenerStops, ListenerOver,
          UdpStops, RelayCancel, RootDone
  <2> QED
    BY <1>2, <2>1, <2>2
      DEF Protocol
<1>3. ASSUME NEW p \in Procs, Closing(p) PROVE TaskInv'
  <2>1. CASE AwaitTask(p)
    BY <2>1 DEF AwaitTask, TaskInv, Fresh, Over, TypeInv, TypeOK, Conns
  <2>2. CASE \/ LockConnection(p) \/ Finalize(p) \/ MergeReport(p) \/ RemoveConnection(p)
             \/ (\E c \in todo[p] : CloseNext(p, c))
    BY <1>0, <2>2
      DEF LockConnection, Finalize, MergeReport, RemoveConnection, CloseNext
  <2> QED
    BY <1>3, <2>1, <2>2
      DEF Closing
<1>4. ASSUME NEW c \in Active, ConnectTcp(c) PROVE TaskInv'
  <2>1. CASE Connect(c)
    BY <2>1 DEF Connect, TaskInv, Fresh, Over, CallInv, TypeInv, TypeOK, Conns
  <2>2. CASE \/ Reserve(c) \/ RefuseConnect(c) \/ ReapFinished(c) \/ ConnectFails(c)
             \/ BecomeReady(c) \/ GiveUp(c) \/ GaveUp(c) \/ Own(c)
    BY <1>0, <2>2
      DEF Reserve, RefuseConnect, ReapFinished, ConnectFails, Return, BecomeReady,
          GiveUp, GaveUp, Own
  <2> QED
    BY <1>4, <2>1, <2>2
      DEF ConnectTcp
<1>5. ASSUME NEW e \in Closers, CloseAndWait(e) PROVE TaskInv'
  <2>1. CASE CloseWriter(e)
    BY <2>1 DEF CloseWriter, TaskInv, Fresh, Over, TypeInv, TypeOK, Conns
  <2>2. CASE \/ StartClose(e) \/ LockEndpoint(e) \/ SnapshotActive(e) \/ TakeReport(e)
             \/ AwaitRoot(e)
    BY <1>0, <2>2
      DEF StartClose, LockEndpoint, SnapshotActive, TakeReport, AwaitRoot
  <2> QED
    BY <1>5, <2>1, <2>2
      DEF CloseAndWait
<1>6. CASE CancelExternal
  BY <1>0, <1>6
    DEF CancelExternal
<1>7. CASE CancelRuntime
  BY <1>0, <1>7
    DEF CancelRuntime
<1>8. ASSUME NEW u \in Users, UserCloses(u) PROVE TaskInv'
  BY <1>0, <1>8
    DEF UserCloses
<1>9. ASSUME NEW u \in Users, DropUser(u) PROVE TaskInv'
  BY <1>0, <1>9
    DEF DropUser, LetGo
<1>10. ASSUME NEW e \in Closers, DropClose(e) PROVE TaskInv'
  BY <1>0, <1>10
    DEF DropClose, LetGo
<1>11. ASSUME NEW c \in Active, DropConnect(c) PROVE TaskInv'
  BY <1>0, <1>11
    DEF DropConnect, LetGo, Return
<1>12. CASE UNCHANGED vars
  BY <1>0, <1>12
    DEF vars
<1> QED
  BY <1>1, <1>2, <1>3, <1>4, <1>5, <1>6, <1>7, <1>8, <1>9, <1>10, <1>11, <1>12
    DEF Next

\* Every step keeps a call of connect_tcp in step with its task.
LEMMA CallStep == TypeInv /\ TaskInv /\ CallInv /\ [Next]_vars => CallInv'
<1> SUFFICES ASSUME TypeInv, TaskInv, CallInv, [Next]_vars PROVE CallInv'
  OBVIOUS
<1> USE EndpointAssumption
    DEF taskVars, protoVars, subVars, closeVars, ioVars, callVars, restVars
<1>0. ASSUME UNCHANGED <<task, cpc, sub, at, todo>> PROVE CallInv'
  BY <1>0 DEF CallInv, Fresh, Over, Idle
<1>1. ASSUME NEW c \in Conns, Task(c) PROVE CallInv'
  <2>1. CASE Register(c)
    BY <2>1 DEF Register, CallInv, Fresh, Over, Idle, TypeInv, TypeOK, Conns, Procs
  <2>2. CASE RefuseWriter(c)
    BY <2>2 DEF RefuseWriter, CallInv, Fresh, Over, Idle, TypeInv, TypeOK, Conns, Procs
  <2>3. CASE ReadPanics(c)
    BY <2>3 DEF ReadPanics, CallInv, Fresh, Over, Idle, TypeInv, TypeOK, Conns, Procs
  <2>4. CASE FinishTask(c)
    BY <2>4 DEF FinishTask, CallInv, Fresh, Over, Idle, TypeInv, TypeOK, Conns, Procs
  <2>5. CASE \/ ReadFails(c) \/ WriteBegins(c) \/ WriteDone(c)
             \/ (\E r \in {"ok", "err"} : ReadEnds(c, r))
             \/ (\E r \in {"ok", "err"} : WriteEnds(c, r))
    BY <1>0, <2>5
      DEF ReadFails, WriteBegins, WriteDone, ReadEnds, Unregister, WriteEnds
  <2> QED
    BY <1>1, <2>1, <2>2, <2>3, <2>4, <2>5
      DEF Task
<1>2. CASE Protocol
  <2>1. ASSUME NEW c \in Inbound, Accept(c) PROVE CallInv'
    BY <2>1 DEF Accept, CallInv, Fresh, Over, Idle, TypeInv, TypeOK, Conns, Procs
  <2>2. CASE \/ (\E c \in Inbound : JoinConnection(c)) \/ AcceptFails \/ BackoffOver
             \/ ListenerStops \/ ListenerOver \/ UdpStops \/ RelayCancel \/ RootDone
    BY <1>0, <2>2
      DEF JoinConnection, AcceptFails, BackoffOver, ListenerStops, ListenerOver,
          UdpStops, RelayCancel, RootDone
  <2> QED
    BY <1>2, <2>1, <2>2
      DEF Protocol
<1>3. ASSUME NEW p \in Procs, Closing(p) PROVE CallInv'
  <2>1. CASE LockConnection(p)
    BY <2>1 DEF LockConnection, TaskInv, CallInv, Fresh, Over, Idle, TypeInv, TypeOK, Conns, Procs
  <2>2. CASE AwaitTask(p)
    BY <2>2 DEF AwaitTask, CallInv, Fresh, Over, Idle, TypeInv, TypeOK, Conns, Procs
  <2>3. CASE Finalize(p)
    BY <2>3 DEF Finalize, CallInv, Fresh, Over, Idle, TypeInv, TypeOK, Conns, Procs
  <2>4. CASE MergeReport(p)
    BY <2>4 DEF MergeReport, CallInv, Fresh, Over, Idle, TypeInv, TypeOK, Conns, Procs
  <2>5. CASE RemoveConnection(p)
    BY <2>5 DEF RemoveConnection, CallInv, Fresh, Over, Idle, TypeInv, TypeOK, Conns, Procs
  <2>6. ASSUME NEW c \in todo[p], CloseNext(p, c) PROVE CallInv'
    BY <2>6 DEF CloseNext, CallInv, Fresh, Over, Idle, TypeInv, TypeOK, Conns, Procs
  <2> QED
    BY <1>3, <2>1, <2>2, <2>3, <2>4, <2>5, <2>6
      DEF Closing
<1>4. ASSUME NEW c \in Active, ConnectTcp(c) PROVE CallInv'
  <2>1. CASE Reserve(c)
    BY <2>1 DEF Reserve, CallInv, Fresh, Over, Idle, TypeInv, TypeOK, Conns, Procs
  <2>2. CASE RefuseConnect(c)
    BY <2>2 DEF RefuseConnect, CallInv, Fresh, Over, Idle, TypeInv, TypeOK, Conns, Procs
  <2>3. CASE ReapFinished(c)
    BY <2>3 DEF ReapFinished, CallInv, Fresh, Over, Idle, TypeInv, TypeOK, Conns, Procs
  <2>4. CASE Connect(c)
    BY <2>4 DEF Connect, CallInv, Fresh, Over, Idle, TypeInv, TypeOK, Conns, Procs
  <2>5. CASE ConnectFails(c)
    BY <2>5 DEF ConnectFails, Return, CallInv, Fresh, Over, Idle, TypeInv, TypeOK, Conns, Procs
  <2>6. CASE BecomeReady(c)
    BY <2>6 DEF BecomeReady, TaskInv, CallInv, Fresh, Over, Idle, TypeInv, TypeOK, Conns, Procs
  <2>7. CASE GiveUp(c)
    BY <2>7 DEF GiveUp, CallInv, Fresh, Over, Idle, TypeInv, TypeOK, Conns, Procs
  <2>8. CASE GaveUp(c)
    BY <2>8 DEF GaveUp, Return, CallInv, Fresh, Over, Idle, TypeInv, TypeOK, Conns, Procs
  <2>9. CASE Own(c)
    BY <2>9 DEF Own, Return, CallInv, Fresh, Over, Idle, TypeInv, TypeOK, Conns, Procs
  <2> QED
    BY <1>4, <2>1, <2>2, <2>3, <2>4, <2>5, <2>6, <2>7, <2>8, <2>9
      DEF ConnectTcp
<1>5. ASSUME NEW u \in Users, UserCloses(u) PROVE CallInv'
  BY <1>5 DEF UserCloses, CallInv, Fresh, Over, Idle, TypeInv, TypeOK, Conns, Procs
<1>6. ASSUME NEW e \in Closers, CloseAndWait(e) PROVE CallInv'
  <2>1. CASE SnapshotActive(e)
    BY <2>1 DEF SnapshotActive, CallInv, Fresh, Over, Idle, TypeInv, TypeOK, Conns, Procs
  <2>2. CASE StartClose(e) \/ LockEndpoint(e) \/ CloseWriter(e) \/ TakeReport(e) \/ AwaitRoot(e)
    BY <1>0, <2>2
      DEF StartClose, LockEndpoint, CloseWriter, TakeReport, AwaitRoot
  <2> QED
    BY <1>6, <2>1, <2>2
      DEF CloseAndWait
<1>7. ASSUME NEW u \in Users, DropUser(u) PROVE CallInv'
  BY <1>7 DEF DropUser, LetGo, CallInv, Fresh, Over, Idle, TypeInv, TypeOK, Conns, Procs
<1>8. ASSUME NEW e \in Closers, DropClose(e) PROVE CallInv'
  BY <1>8 DEF DropClose, LetGo, CallInv, Fresh, Over, Idle, TypeInv, TypeOK, Conns, Procs
<1>9. ASSUME NEW c \in Active, DropConnect(c) PROVE CallInv'
  BY <1>9
    DEF DropConnect, LetGo, Return, CallInv, Fresh, Over, Idle, TypeInv, TypeOK, Conns, Procs
<1>10. CASE CancelExternal
  BY <1>0, <1>10
    DEF CancelExternal
<1>11. CASE CancelRuntime
  BY <1>0, <1>11
    DEF CancelRuntime
<1>12. CASE UNCHANGED vars
  BY <1>0, <1>12
    DEF vars
<1> QED
  BY <1>1, <1>2, <1>3, <1>4, <1>5, <1>6, <1>7, <1>8, <1>9, <1>10, <1>11, <1>12
    DEF Next

----------------------------------------------------------------------------
(* Reservations.                                                           *)

Holding == {"snapshot", "reaping", "ready", "own", "closing"}

\* A call holds the reservation of its address until it returns, no two hold one
\* at once, and whoever is registered there meanwhile is itself, an accepted
\* connection, or the task of a dropped call.
ReserveInv ==
    /\ \A c \in Active : cpc[c] \in Holding => AddrOf[c] \in connecting
    /\ \A c, d \in Active :
           cpc[c] \in Holding /\ cpc[d] \in Holding /\ AddrOf[c] = AddrOf[d] => c = d
    /\ \A c, d \in Active :
           cpc[c] \in Holding /\ writers[AddrOf[c]] = d /\ c # d => cpc[d] = "dropped"

\* Every step keeps a reservation with the one call that made it.
LEMMA ReserveStep == TypeInv /\ CallInv /\ ReserveInv /\ [Next]_vars => ReserveInv'
<1> SUFFICES ASSUME TypeInv, CallInv, ReserveInv, [Next]_vars PROVE ReserveInv'
  OBVIOUS
<1> USE EndpointAssumption
    DEF taskVars, protoVars, subVars, closeVars, ioVars, callVars, restVars
<1>0. ASSUME UNCHANGED <<writers, cpc, connecting>> PROVE ReserveInv'
  BY <1>0 DEF ReserveInv, Holding
<1>1. ASSUME NEW c \in Conns, Task(c) PROVE ReserveInv'
  <2>1. CASE Register(c)
    <3>1. c \in Active => cpc[c] \in {"ready", "closing", "dropped"}
      BY <2>1 DEF Register, CallInv, Fresh, Over, TypeInv, TypeOK, Conns
    <3>2. /\ writers' = [writers EXCEPT ![AddrOf[c]] = c]
          /\ cpc' = cpc /\ connecting' = connecting
      BY <2>1 DEF Register
    <3> QED
      BY <3>1, <3>2 DEF ReserveInv, Holding, TypeInv, TypeOK, Conns
  <2>2. ASSUME NEW r \in {"ok", "err"}, ReadEnds(c, r) PROVE ReserveInv'
    BY <2>2 DEF ReadEnds, Unregister, ReserveInv, Holding, TypeInv, TypeOK, Conns
  <2>3. ASSUME NEW r \in {"ok", "err"}, WriteEnds(c, r) PROVE ReserveInv'
    BY <2>3 DEF WriteEnds, Unregister, ReserveInv, Holding, TypeInv, TypeOK, Conns
  <2>4. CASE \/ RefuseWriter(c) \/ ReadFails(c) \/ ReadPanics(c) \/ WriteBegins(c)
             \/ WriteDone(c) \/ FinishTask(c)
    BY <1>0, <2>4
      DEF RefuseWriter, ReadFails, ReadPanics, WriteBegins, WriteDone, FinishTask
  <2> QED
    BY <1>1, <2>1, <2>2, <2>3, <2>4
      DEF Task
<1>2. ASSUME NEW c \in Active, ConnectTcp(c) PROVE ReserveInv'
  <2>1. CASE Reserve(c)
    BY <2>1 DEF Reserve, ReserveInv, Holding, TypeInv, TypeOK, Conns
  <2>2. CASE RefuseConnect(c)
    BY <2>2 DEF RefuseConnect, ReserveInv, Holding, TypeInv, TypeOK, Conns
  <2>3. CASE ReapFinished(c)
    BY <2>3 DEF ReapFinished, ReserveInv, Holding, TypeInv, TypeOK, Conns
  <2>4. CASE Connect(c)
    BY <2>4 DEF Connect, ReserveInv, Holding, TypeInv, TypeOK, Conns
  <2>5. CASE ConnectFails(c)
    BY <2>5 DEF ConnectFails, Return, ReserveInv, Holding, TypeInv, TypeOK, Conns
  <2>6. CASE BecomeReady(c)
    BY <2>6 DEF BecomeReady, ReserveInv, Holding, TypeInv, TypeOK, Conns
  <2>7. CASE GiveUp(c)
    BY <2>7 DEF GiveUp, ReserveInv, Holding, TypeInv, TypeOK, Conns
  <2>8. CASE GaveUp(c)
    BY <2>8 DEF GaveUp, Return, ReserveInv, Holding, TypeInv, TypeOK, Conns
  <2>9. CASE Own(c)
    BY <2>9 DEF Own, Return, ReserveInv, Holding, TypeInv, TypeOK, Conns
  <2> QED
    BY <1>2, <2>1, <2>2, <2>3, <2>4, <2>5, <2>6, <2>7, <2>8, <2>9
      DEF ConnectTcp
<1>3. ASSUME NEW e \in Closers, CloseAndWait(e) PROVE ReserveInv'
  <2>1. CASE CloseWriter(e)
    BY <2>1 DEF CloseWriter, ReserveInv, Holding, TypeInv, TypeOK, Conns
  <2>2. CASE \/ StartClose(e) \/ LockEndpoint(e) \/ SnapshotActive(e) \/ TakeReport(e)
             \/ AwaitRoot(e)
    BY <1>0, <2>2
      DEF StartClose, LockEndpoint, SnapshotActive, TakeReport, AwaitRoot
  <2> QED
    BY <1>3, <2>1, <2>2
      DEF CloseAndWait
<1>4. ASSUME NEW c \in Active, DropConnect(c) PROVE ReserveInv'
  BY <1>4 DEF DropConnect, LetGo, Return, ReserveInv, Holding, TypeInv, TypeOK, Conns
<1>5. CASE Protocol
  BY <1>0, <1>5
    DEF Protocol, Accept, JoinConnection, AcceptFails, BackoffOver, ListenerStops,
        ListenerOver, UdpStops, RelayCancel, RootDone
<1>6. CASE CancelExternal
  BY <1>0, <1>6
    DEF CancelExternal
<1>7. CASE CancelRuntime
  BY <1>0, <1>7
    DEF CancelRuntime
<1>8. ASSUME NEW p \in Procs, Closing(p) PROVE ReserveInv'
  BY <1>0, <1>8
    DEF Closing, LockConnection, AwaitTask, Finalize, MergeReport, RemoveConnection,
        CloseNext
<1>9. ASSUME NEW u \in Users, UserCloses(u) PROVE ReserveInv'
  BY <1>0, <1>9
    DEF UserCloses
<1>10. ASSUME NEW u \in Users, DropUser(u) PROVE ReserveInv'
  BY <1>0, <1>10
    DEF DropUser, LetGo
<1>11. ASSUME NEW e \in Closers, DropClose(e) PROVE ReserveInv'
  BY <1>0, <1>11
    DEF DropClose, LetGo
<1>12. CASE UNCHANGED vars
  BY <1>0, <1>12
    DEF vars
<1> QED
  BY <1>1, <1>2, <1>3, <1>4, <1>5, <1>6, <1>7, <1>8, <1>9, <1>10, <1>11, <1>12
    DEF Next

\* The parts of the invariant that concern tasks, calls and reservations.
SafeInv == TypeInv /\ TaskInv /\ CallInv /\ ReserveInv

\* A new endpoint has no task, no call and no reservation.
LEMMA SafeInit == Init => SafeInv
  BY TypeInit, EndpointAssumption
    DEF Init, SafeInv, TaskInv, CallInv, ReserveInv, Fresh, Over, Holding, Idle, Conns, Procs

\* Every step keeps the four parts of SafeInv, each by its own lemma.
LEMMA SafeStep == SafeInv /\ [Next]_vars => SafeInv'
  BY TypeStep, TaskStep, CallStep, ReserveStep DEF SafeInv

\* A connect_tcp that fails leaves no task running, and a connection that ended
\* well no registration, for any connections, callers and dropped futures.
THEOREM NothingLeft == Spec => []NothingLeftBehind
<1>1. SafeInv => NothingLeftBehind
  BY DEF SafeInv, TypeInv, TaskInv, CallInv, NothingLeftBehind, FailedConnectLeavesNothing,
         NoStaleRegistration
<1> QED
  BY <1>1, SafeInit, SafeStep, PTL DEF Spec

\* Two connect_tcp calls to one address never displace each other's registration,
\* unless one of their futures is dropped.
THEOREM ReservationsHold == Spec => ConnectNeverDisplaces
<1> DEFINE Displaces(c, d) ==
             /\ task[c] = "starting" /\ task'[c] = "running" /\ writers[AddrOf[c]] = d
             => "dropped" \in {cpc[c], cpc[d]}
<1>1. ASSUME SafeInv, NEW c \in Active, NEW d \in Active PROVE Displaces(c, d)
  <2>1. SUFFICES ASSUME task[c] = "starting", writers[AddrOf[c]] = d PROVE "dropped" \in {cpc[c], cpc[d]}
    OBVIOUS
  <2>2. cpc[c] \in Holding \cup {"dropped"}
    BY <1>1, <2>1 DEF SafeInv, TypeInv, TypeOK, CallInv, Holding, Fresh, Over
  <2>3. d # None /\ task[d] # "starting" /\ AddrOf[c] \in Addrs
    BY <1>1, <2>1, EndpointAssumption DEF SafeInv, TaskInv, Fresh, Conns
  <2> QED
    BY <1>1, <2>1, <2>2, <2>3 DEF SafeInv, ReserveInv
<1>2. SafeInv => [\A c, d \in Active : Displaces(c, d)]_vars
  BY <1>1
<1> QED
  BY <1>2, SafeInit, SafeStep, PTL DEF Spec, ConnectNeverDisplaces

----------------------------------------------------------------------------
(* Reports.                                                                *)

Locking == {"writer", "snapshot", "report", "root"}

\* A call of close_and_wait that has the endpoint's lock has cancelled it: no
\* connection is owned from then on, so the table stays empty once it is empty,
\* and nothing is merged once the report is taken.
CloseInv ==
    /\ \A e \in Closers : epc[e] \in Locking => ioLock = e /\ cancel /\ ~ioCompleted
    /\ \A e \in Closers : epc[e] \in {"report", "root"} => active = {}
    /\ \A e \in Closers : epc[e] = "root" => \A c \in Conns : pending[c] = 0
    /\ ioCompleted => cancel /\ active = {} /\ root = "done"

\* The listener joins each of its connections once, when its task is over, and
\* ends when all are joined.
ListenInv ==
    /\ \A c \in Inbound : joined[c] \in {0, 1} /\ (joined[c] = 1 => task[c] \in Over)
    /\ listener = "over" => \A c \in Inbound : task[c] = "none" \/ joined[c] = 1
    /\ root = "done" => listener = "over"

\* Whoever swapped owner_registered merges the report and empties the table: one
\* process at most, while the connection is in the table and no longer owned.
OwnerInv ==
    /\ \A p \in Procs : sub[p] \in {"finalize", "merge", "remove"} => at[p] \in completed
    /\ \A p \in Procs : sub[p] \in {"merge", "remove"} => at[p] \in active \ owned
    /\ \A p, q \in Procs :
           sub[p] \in {"merge", "remove"} /\ sub[q] \in {"merge", "remove"} /\ at[p] = at[q]
           => p = q
    /\ owned \subseteq active
    /\ \A c \in Active : c \in active => cpc[c] = "returned"
    /\ \A c \in Active : cpc[c] = "returned" /\ c \notin owned => c \in completed

\* A connection that was owned and is not any more is in the report, or in the
\* part of it that is still pending, once, as soon as nobody is about to merge it.
Merging(c) == \E p \in Procs : sub[p] = "merge" /\ at[p] = c
Counted(c) == cpc[c] = "returned" /\ c \notin owned /\ ~Merging(c)

CountInv ==
    /\ ~ioCompleted => \A c \in Active : pending[c] + report[c] = IF Counted(c) THEN 1 ELSE 0
    /\ ~ioCompleted => \A c \in Inbound : pending[c] + report[c] = 0
    /\ ioCompleted => \A c \in Conns : report[c] = IF Owned(c) THEN 1 ELSE 0
    /\ \A c \in Active : joined[c] = 0

\* Every step keeps what the listener and its tasks have passed.
LEMMA ListenStep == TypeInv /\ TaskInv /\ ListenInv /\ [Next]_vars => ListenInv'
<1> SUFFICES ASSUME TypeInv, TaskInv, ListenInv, [Next]_vars PROVE ListenInv'
  OBVIOUS
<1> USE EndpointAssumption
    DEF taskVars, protoVars, subVars, closeVars, ioVars, callVars, restVars
<1>0. ASSUME UNCHANGED <<task, listener, root, joined>> PROVE ListenInv'
  BY <1>0 DEF ListenInv
<1>1. ASSUME NEW c \in Conns, Task(c) PROVE ListenInv'
  <2>1. CASE Register(c)
    BY <2>1 DEF Register, ListenInv, Over, TypeInv, TypeOK, Conns, Procs
  <2>2. CASE RefuseWriter(c)
    BY <2>2 DEF RefuseWriter, ListenInv, Over, TypeInv, TypeOK, Conns, Procs
  <2>3. CASE ReadPanics(c)
    BY <2>3 DEF ReadPanics, ListenInv, Over, TypeInv, TypeOK, Conns, Procs
  <2>4. CASE FinishTask(c)
    BY <2>4 DEF FinishTask, ListenInv, Over, TypeInv, TypeOK, Conns, Procs
  <2>5. CASE \/ ReadFails(c) \/ WriteBegins(c) \/ WriteDone(c)
             \/ (\E r \in {"ok", "err"} : ReadEnds(c, r))
             \/ (\E r \in {"ok", "err"} : WriteEnds(c, r))
    BY <1>0, <2>5
      DEF ReadFails, WriteBegins, WriteDone, ReadEnds, Unregister, WriteEnds
  <2> QED
    BY <1>1, <2>1, <2>2, <2>3, <2>4, <2>5
      DEF Task
<1>2. CASE Protocol
  <2>1. ASSUME NEW c \in Inbound, Accept(c) PROVE ListenInv'
    BY <2>1 DEF Accept, ListenInv, Over, TypeInv, TypeOK, Conns, Procs
  <2>2. ASSUME NEW c \in Inbound, JoinConnection(c) PROVE ListenInv'
    BY <2>2 DEF JoinConnection, ListenInv, Over, TypeInv, TypeOK, Conns, Procs
  <2>3. CASE AcceptFails
    BY <2>3 DEF AcceptFails, ListenInv, Over, TypeInv, TypeOK, Conns, Procs
  <2>4. CASE BackoffOver
    BY <2>4 DEF BackoffOver, ListenInv, Over, TypeInv, TypeOK, Conns, Procs
  <2>5. CASE ListenerStops
    BY <2>5 DEF ListenerStops, ListenInv, Over, TypeInv, TypeOK, Conns, Procs
  <2>6. CASE ListenerOver
    BY <2>6 DEF ListenerOver, ListenInv, Over, TypeInv, TypeOK, Conns, Procs
  <2>7. CASE RootDone
    BY <2>7 DEF RootDone, ListenInv, Over, TypeInv, TypeOK, Conns, Procs
  <2>8. CASE UdpStops \/ RelayCancel
    BY <1>0, <2>8
      DEF UdpStops, RelayCancel
  <2> QED
    BY <1>2, <2>1, <2>2, <2>3, <2>4, <2>5, <2>6, <2>7, <2>8
      DEF Protocol
<1>3. ASSUME NEW c \in Active, ConnectTcp(c) PROVE ListenInv'
  <2>1. CASE Connect(c)
    BY <2>1 DEF Connect, ListenInv, Over, TypeInv, TypeOK, Conns, Procs
  <2>2. CASE \/ Reserve(c) \/ RefuseConnect(c) \/ ReapFinished(c) \/ ConnectFails(c)
             \/ BecomeReady(c) \/ GiveUp(c) \/ GaveUp(c) \/ Own(c)
    BY <1>0, <2>2
      DEF Reserve, RefuseConnect, ReapFinished, ConnectFails, Return, BecomeReady,
          GiveUp, GaveUp, Own
  <2> QED
    BY <1>3, <2>1, <2>2
      DEF ConnectTcp
<1>4. CASE CancelExternal
  BY <1>0, <1>4
    DEF CancelExternal
<1>5. CASE CancelRuntime
  BY <1>0, <1>5
    DEF CancelRuntime
<1>6. ASSUME NEW p \in Procs, Closing(p) PROVE ListenInv'
  BY <1>0, <1>6
    DEF Closing, LockConnection, AwaitTask, Finalize, MergeReport, RemoveConnection,
        CloseNext
<1>7. ASSUME NEW u \in Users, UserCloses(u) PROVE ListenInv'
  BY <1>0, <1>7
    DEF UserCloses
<1>8. ASSUME NEW e \in Closers, CloseAndWait(e) PROVE ListenInv'
  BY <1>0, <1>8
    DEF CloseAndWait, StartClose, LockEndpoint, CloseWriter, SnapshotActive, TakeReport,
        AwaitRoot
<1>9. ASSUME NEW u \in Users, DropUser(u) PROVE ListenInv'
  BY <1>0, <1>9
    DEF DropUser, LetGo
<1>10. ASSUME NEW e \in Closers, DropClose(e) PROVE ListenInv'
  BY <1>0, <1>10
    DEF DropClose, LetGo
<1>11. ASSUME NEW c \in Active, DropConnect(c) PROVE ListenInv'
  BY <1>0, <1>11
    DEF DropConnect, LetGo, Return
<1>12. CASE UNCHANGED vars
  BY <1>0, <1>12
    DEF vars
<1> QED
  BY <1>1, <1>2, <1>3, <1>4, <1>5, <1>6, <1>7, <1>8, <1>9, <1>10, <1>11, <1>12
    DEF Next

\* Every step keeps it that one process finishes a connection.
LEMMA OwnerStep == TypeInv /\ CallInv /\ OwnerInv /\ [Next]_vars => OwnerInv'
<1> SUFFICES ASSUME TypeInv, CallInv, OwnerInv, [Next]_vars PROVE OwnerInv'
  OBVIOUS
<1> USE EndpointAssumption
    DEF taskVars, protoVars, subVars, closeVars, ioVars, callVars, restVars
<1>0. ASSUME UNCHANGED <<sub, at, completed, owned, active, cpc>> PROVE OwnerInv'
  BY <1>0 DEF OwnerInv
<1>1. ASSUME NEW p \in Procs, Closing(p) PROVE OwnerInv'
  <2>1. CASE LockConnection(p)
    <3>1. /\ UNCHANGED <<at, completed, owned, active, cpc>>
          /\ sub' = [sub EXCEPT ![p] = sub'[p]]
          /\ sub'[p] = "await" \/ (sub'[p] = "finalize" /\ at[p] \in completed)
      BY <2>1 DEF LockConnection, TypeInv, TypeOK
    <3> QED
      BY <3>1 DEF OwnerInv, TypeInv, TypeOK
  <2>2. CASE AwaitTask(p)
    BY <2>2 DEF AwaitTask, OwnerInv, TypeInv, TypeOK, Conns, Procs
  <2>3. CASE Finalize(p)
    BY <2>3 DEF Finalize, OwnerInv, TypeInv, TypeOK, Conns, Procs
  <2>4. CASE MergeReport(p)
    BY <2>4 DEF MergeReport, OwnerInv, TypeInv, TypeOK, Conns, Procs
  <2>5. CASE RemoveConnection(p)
    BY <2>5 DEF RemoveConnection, OwnerInv, TypeInv, TypeOK, Conns, Procs
  <2>6. ASSUME NEW c \in todo[p], CloseNext(p, c) PROVE OwnerInv'
    BY <2>6 DEF CloseNext, OwnerInv, TypeInv, TypeOK, Conns, Procs
  <2> QED
    BY <1>1, <2>1, <2>2, <2>3, <2>4, <2>5, <2>6
      DEF Closing
<1>2. ASSUME NEW c \in Active, ConnectTcp(c) PROVE OwnerInv'
  <2>1. CASE Reserve(c)
    BY <2>1 DEF Reserve, OwnerInv, TypeInv, TypeOK, Conns, Procs
  <2>2. CASE RefuseConnect(c)
    BY <2>2 DEF RefuseConnect, OwnerInv, TypeInv, TypeOK, Conns, Procs
  <2>3. CASE ReapFinished(c)
    BY <2>3 DEF ReapFinished, OwnerInv, TypeInv, TypeOK, Conns, Procs
  <2>4. CASE Connect(c)
    BY <2>4 DEF Connect, OwnerInv, TypeInv, TypeOK, Conns, Procs
  <2>5. CASE ConnectFails(c)
    BY <2>5 DEF ConnectFails, Return, OwnerInv, TypeInv, TypeOK, Conns, Procs
  <2>6. CASE BecomeReady(c)
    BY <2>6 DEF BecomeReady, OwnerInv, TypeInv, TypeOK, Conns, Procs
  <2>7. CASE GiveUp(c)
    BY <2>7 DEF GiveUp, OwnerInv, TypeInv, TypeOK, Conns, Procs
  <2>8. CASE GaveUp(c)
    BY <2>8 DEF GaveUp, Return, OwnerInv, TypeInv, TypeOK, Conns, Procs
  <2>9. CASE Own(c)
    BY <2>9 DEF Own, Return, OwnerInv, TypeInv, TypeOK, Conns, Procs
  <2> QED
    BY <1>2, <2>1, <2>2, <2>3, <2>4, <2>5, <2>6, <2>7, <2>8, <2>9
      DEF ConnectTcp
<1>3. ASSUME NEW u \in Users, UserCloses(u) PROVE OwnerInv'
  BY <1>3 DEF UserCloses, OwnerInv, TypeInv, TypeOK, Conns, Procs
<1>4. ASSUME NEW u \in Users, DropUser(u) PROVE OwnerInv'
  BY <1>4 DEF DropUser, LetGo, Awaiting, Idle, OwnerInv, TypeInv, TypeOK, Conns, Procs
<1>5. ASSUME NEW e \in Closers, DropClose(e) PROVE OwnerInv'
  BY <1>5 DEF DropClose, LetGo, Awaiting, Idle, OwnerInv, TypeInv, TypeOK, Conns, Procs
<1>6. ASSUME NEW c \in Active, DropConnect(c) PROVE OwnerInv'
  BY <1>6 DEF DropConnect, LetGo, Return, Awaiting, Idle, OwnerInv, TypeInv, TypeOK, Conns, Procs
<1>7. ASSUME NEW c \in Conns, Task(c) PROVE OwnerInv'
  BY <1>0, <1>7
    DEF Task, Register, RefuseWriter, ReadFails, ReadPanics, WriteBegins, WriteDone,
        FinishTask, ReadEnds, Unregister, WriteEnds
<1>8. CASE Protocol
  BY <1>0, <1>8
    DEF Protocol, Accept, JoinConnection, AcceptFails, BackoffOver, ListenerStops,
        ListenerOver, UdpStops, RelayCancel, RootDone
<1>9. CASE CancelExternal
  BY <1>0, <1>9
    DEF CancelExternal
<1>10. CASE CancelRuntime
  BY <1>0, <1>10
    DEF CancelRuntime
<1>11. ASSUME NEW e \in Closers, CloseAndWait(e) PROVE OwnerInv'
  BY <1>0, <1>11
    DEF CloseAndWait, StartClose, LockEndpoint, CloseWriter, SnapshotActive, TakeReport,
        AwaitRoot
<1>12. CASE UNCHANGED vars
  BY <1>0, <1>12
    DEF vars
<1> QED
  BY <1>1, <1>2, <1>3, <1>4, <1>5, <1>6, <1>7, <1>8, <1>9, <1>10, <1>11, <1>12
    DEF Next

\* Every step keeps what the endpoint's close has passed.
LEMMA CloseStep == TypeInv /\ OwnerInv /\ ListenInv /\ CloseInv /\ [Next]_vars => CloseInv'
<1> SUFFICES ASSUME TypeInv, OwnerInv, ListenInv, CloseInv, [Next]_vars PROVE CloseInv'
  OBVIOUS
<1> USE EndpointAssumption
    DEF taskVars, protoVars, subVars, closeVars, ioVars, callVars, restVars
<1>0. ASSUME UNCHANGED <<epc, ioLock, ioCompleted, cancel, active, pending, root>> PROVE CloseInv'
  BY <1>0 DEF CloseInv
<1>1. CASE Protocol
  <2>1. CASE RelayCancel
    BY <2>1 DEF RelayCancel, CloseInv, OwnerInv, Locking, TypeInv, TypeOK, Conns, Procs
  <2>2. CASE RootDone
    BY <2>2 DEF RootDone, CloseInv, OwnerInv, Locking, TypeInv, TypeOK, Conns, Procs
  <2>3. CASE \/ (\E c \in Inbound : Accept(c)) \/ (\E c \in Inbound : JoinConnection(c))
             \/ AcceptFails \/ BackoffOver \/ ListenerStops \/ ListenerOver \/ UdpStops
    BY <1>0, <2>3
      DEF Accept, JoinConnection, AcceptFails, BackoffOver, ListenerStops, ListenerOver,
          UdpStops
  <2> QED
    BY <1>1, <2>1, <2>2, <2>3
      DEF Protocol
<1>2. CASE CancelRuntime
  BY <1>2 DEF CancelRuntime, CloseInv, OwnerInv, Locking, TypeInv, TypeOK, Conns, Procs
<1>3. ASSUME NEW p \in Procs, Closing(p) PROVE CloseInv'
  <2>1. CASE MergeReport(p)
    BY <2>1 DEF MergeReport, CloseInv, OwnerInv, Locking, TypeInv, TypeOK, Conns, Procs
  <2>2. CASE RemoveConnection(p)
    BY <2>2 DEF RemoveConnection, CloseInv, OwnerInv, Locking, TypeInv, TypeOK, Conns, Procs
  <2>3. CASE \/ LockConnection(p) \/ AwaitTask(p) \/ Finalize(p)
             \/ (\E c \in todo[p] : CloseNext(p, c))
    BY <1>0, <2>3
      DEF LockConnection, AwaitTask, Finalize, CloseNext
  <2> QED
    BY <1>3, <2>1, <2>2, <2>3
      DEF Closing
<1>4. ASSUME NEW c \in Active, ConnectTcp(c) PROVE CloseInv'
  <2>1. CASE Own(c)
    BY <2>1 DEF Own, Return, CloseInv, OwnerInv, Locking, TypeInv, TypeOK, Conns, Procs
  <2>2. CASE \/ Reserve(c) \/ RefuseConnect(c) \/ ReapFinished(c) \/ Connect(c)
             \/ ConnectFails(c) \/ BecomeReady(c) \/ GiveUp(c) \/ GaveUp(c)
    BY <1>0, <2>2
      DEF Reserve, RefuseConnect, ReapFinished, Connect, ConnectFails, Return,
          BecomeReady, GiveUp, GaveUp
  <2> QED
    BY <1>4, <2>1, <2>2
      DEF ConnectTcp
<1>5. ASSUME NEW e \in Closers, CloseAndWait(e) PROVE CloseInv'
  <2>1. CASE StartClose(e)
    BY <2>1 DEF StartClose, CloseInv, OwnerInv, Locking, TypeInv, TypeOK, Conns, Procs
  <2>2. CASE LockEndpoint(e)
    BY <2>2 DEF LockEndpoint, CloseInv, OwnerInv, Locking, TypeInv, TypeOK, Conns, Procs
  <2>3. CASE CloseWriter(e)
    BY <2>3 DEF CloseWriter, CloseInv, OwnerInv, Locking, TypeInv, TypeOK, Conns, Procs
  <2>4. CASE SnapshotActive(e)
    BY <2>4 DEF SnapshotActive, CloseInv, OwnerInv, Locking, TypeInv, TypeOK, Conns, Procs
  <2>5. CASE TakeReport(e)
    BY <2>5 DEF TakeReport, CloseInv, OwnerInv, Locking, TypeInv, TypeOK, Conns, Procs
  <2>6. CASE AwaitRoot(e)
    BY <2>6 DEF AwaitRoot, CloseInv, OwnerInv, Locking, TypeInv, TypeOK, Conns, Procs
  <2> QED
    BY <1>5, <2>1, <2>2, <2>3, <2>4, <2>5, <2>6
      DEF CloseAndWait
<1>6. ASSUME NEW e \in Closers, DropClose(e) PROVE CloseInv'
  BY <1>6
    DEF DropClose, LetGo, Awaiting, Idle, CloseInv, OwnerInv, Locking, TypeInv, TypeOK, Conns,
        Procs
<1>7. ASSUME NEW c \in Conns, Task(c) PROVE CloseInv'
  BY <1>0, <1>7
    DEF Task, Register, RefuseWriter, ReadFails, ReadPanics, WriteBegins, WriteDone,
        FinishTask, ReadEnds, Unregister, WriteEnds
<1>8. CASE CancelExternal
  BY <1>0, <1>8
    DEF CancelExternal
<1>9. ASSUME NEW u \in Users, UserCloses(u) PROVE CloseInv'
  BY <1>0, <1>9
    DEF UserCloses
<1>10. ASSUME NEW u \in Users, DropUser(u) PROVE CloseInv'
  BY <1>0, <1>10
    DEF DropUser, LetGo
<1>11. ASSUME NEW c \in Active, DropConnect(c) PROVE CloseInv'
  BY <1>0, <1>11
    DEF DropConnect, LetGo, Return
<1>12. CASE UNCHANGED vars
  BY <1>0, <1>12
    DEF vars
<1> QED
  BY <1>1, <1>2, <1>3, <1>4, <1>5, <1>6, <1>7, <1>8, <1>9, <1>10, <1>11, <1>12
    DEF Next

\* Every step keeps each connection in one report, once.
LEMMA CountStep == TypeInv /\ OwnerInv /\ ListenInv /\ CloseInv /\ CountInv /\ [Next]_vars => CountInv'
<1> SUFFICES ASSUME TypeInv, OwnerInv, ListenInv, CloseInv, CountInv, [Next]_vars PROVE CountInv'
  OBVIOUS
<1> USE EndpointAssumption
    DEF taskVars, protoVars, subVars, closeVars, ioVars, callVars, restVars
<1>0. ASSUME UNCHANGED <<pending, report, joined, ioCompleted, cpc, owned, sub, at, task>> PROVE CountInv'
  BY <1>0 DEF CountInv, Counted, Merging, Owned
<1>a. ASSUME UNCHANGED <<pending, report, joined, ioCompleted>>,
             \A c \in Active : Counted(c)' <=> Counted(c),
             ioCompleted => \A c \in Conns : Owned(c)' <=> Owned(c)
      PROVE  CountInv'
  BY <1>a DEF CountInv
<1>1. ASSUME NEW c \in Conns, Task(c) PROVE CountInv'
  <2>1. CASE Register(c)
    BY <1>a, <2>1
      DEF Register, Counted, Merging, Owned, CloseInv, ListenInv, TypeInv, TypeOK, Conns
  <2>2. CASE RefuseWriter(c)
    BY <1>a, <2>2
      DEF RefuseWriter, Counted, Merging, Owned, CloseInv, ListenInv, TypeInv, TypeOK, Conns
  <2>3. CASE ReadPanics(c)
    BY <1>a, <2>3
      DEF ReadPanics, Counted, Merging, Owned, CloseInv, ListenInv, TypeInv, TypeOK, Conns
  <2>4. CASE FinishTask(c)
    BY <1>a, <2>4
      DEF FinishTask, Counted, Merging, Owned, CloseInv, ListenInv, TypeInv, TypeOK, Conns
  <2>5. CASE \/ ReadFails(c) \/ WriteBegins(c) \/ WriteDone(c)
             \/ (\E r \in {"ok", "err"} : ReadEnds(c, r))
             \/ (\E r \in {"ok", "err"} : WriteEnds(c, r))
    BY <1>0, <2>5
      DEF ReadFails, WriteBegins, WriteDone, ReadEnds, Unregister, WriteEnds
  <2> QED
    BY <1>1, <2>1, <2>2, <2>3, <2>4, <2>5
      DEF Task
<1>2. CASE Protocol
  <2>1. ASSUME NEW c \in Inbound, Accept(c) PROVE CountInv'
    BY <1>a, <2>1 DEF Accept, Counted, Merging, Owned, CloseInv, ListenInv, TypeInv, TypeOK, Conns
  <2>2. ASSUME NEW c \in Inbound, JoinConnection(c) PROVE CountInv'
    BY <2>2
      DEF JoinConnection, Counted, Merging, Owned, CountInv, CloseInv, ListenInv, TypeInv,
          TypeOK, Conns
  <2>3. CASE \/ AcceptFails \/ BackoffOver \/ ListenerStops \/ ListenerOver \/ UdpStops
             \/ RelayCancel \/ RootDone
    BY <1>0, <2>3
      DEF AcceptFails, BackoffOver, ListenerStops, ListenerOver, UdpStops, RelayCancel,
          RootDone
  <2> QED
    BY <1>2, <2>1, <2>2, <2>3
      DEF Protocol
<1>3. ASSUME NEW p \in Procs, Closing(p) PROVE CountInv'
  <2>1. CASE LockConnection(p)
    BY <1>a, <2>1 DEF LockConnection, Counted, Merging, Owned, OwnerInv, TypeInv, TypeOK, Procs
  <2>2. CASE AwaitTask(p)
    BY <1>a, <2>2 DEF AwaitTask, Counted, Merging, Owned, OwnerInv, TypeInv, TypeOK, Procs
  <2>3. CASE Finalize(p)
    BY <1>a, <2>3 DEF Finalize, Counted, Merging, Owned, OwnerInv, TypeInv, TypeOK, Procs
  <2>4. CASE MergeReport(p)
    BY <2>4
      DEF MergeReport, Counted, Merging, Owned, CountInv, OwnerInv, CloseInv, TypeInv, TypeOK,
          Conns
  <2>5. CASE RemoveConnection(p)
    BY <1>a, <2>5 DEF RemoveConnection, Counted, Merging, Owned, OwnerInv, TypeInv, TypeOK, Procs
  <2>6. ASSUME NEW c \in todo[p], CloseNext(p, c) PROVE CountInv'
    BY <1>a, <2>6 DEF CloseNext, Counted, Merging, Owned, OwnerInv, TypeInv, TypeOK, Procs
  <2> QED
    BY <1>3, <2>1, <2>2, <2>3, <2>4, <2>5, <2>6
      DEF Closing
<1>4. ASSUME NEW c \in Active, ConnectTcp(c) PROVE CountInv'
  <2>1. CASE Reserve(c)
    BY <1>a, <2>1 DEF Reserve, Counted, Merging, Owned, TypeInv, TypeOK, Procs
  <2>2. CASE RefuseConnect(c)
    BY <1>a, <2>2 DEF RefuseConnect, Counted, Merging, Owned, TypeInv, TypeOK, Procs
  <2>3. CASE ReapFinished(c)
    BY <1>a, <2>3 DEF ReapFinished, Counted, Merging, Owned, TypeInv, TypeOK, Procs
  <2>4. CASE Connect(c)
    BY <1>a, <2>4
      DEF Connect, Counted, Merging, Owned, CloseInv, ListenInv, TypeInv, TypeOK, Conns
  <2>5. CASE ConnectFails(c)
    BY <1>a, <2>5 DEF ConnectFails, Return, Counted, Merging, Owned, TypeInv, TypeOK, Procs
  <2>6. CASE BecomeReady(c)
    BY <1>a, <2>6 DEF BecomeReady, Counted, Merging, Owned, TypeInv, TypeOK, Procs
  <2>7. CASE GiveUp(c)
    BY <1>a, <2>7 DEF GiveUp, Counted, Merging, Owned, TypeInv, TypeOK, Procs
  <2>8. CASE GaveUp(c)
    BY <1>a, <2>8 DEF GaveUp, Return, Counted, Merging, Owned, TypeInv, TypeOK, Procs
  <2>9. CASE Own(c)
    BY <1>a, <2>9 DEF Own, Return, Counted, Merging, Owned, TypeInv, TypeOK
  <2> QED
    BY <1>4, <2>1, <2>2, <2>3, <2>4, <2>5, <2>6, <2>7, <2>8, <2>9
      DEF ConnectTcp
<1>5. ASSUME NEW u \in Users, UserCloses(u) PROVE CountInv'
  BY <1>a, <1>5 DEF UserCloses, Counted, Merging, Owned, OwnerInv, TypeInv, TypeOK, Procs
<1>6. ASSUME NEW e \in Closers, CloseAndWait(e) PROVE CountInv'
  <2>1. CASE TakeReport(e)
    <3>1. ~ioCompleted /\ UNCHANGED <<joined, ioCompleted, cpc, owned, sub, at>>
      BY <2>1 DEF TakeReport, CloseInv, Locking
    <3>2. \A c \in Active : Counted(c)' <=> Counted(c)
      BY <3>1 DEF Counted, Merging
    <3>3. \A c \in Conns : pending'[c] + report'[c] = pending[c] + report[c]
      BY <2>1 DEF TakeReport, TypeInv, TypeOK
    <3> QED
      BY <3>1, <3>2, <3>3 DEF CountInv, Conns
  <2>2. CASE AwaitRoot(e)
    <3>1. /\ ~ioCompleted /\ active = {} /\ (\A c \in Conns : pending[c] = 0)
          /\ root = "done" /\ UNCHANGED <<joined, cpc, task>> /\ ioCompleted'
          /\ \A c \in Conns : report'[c] = report[c] + joined[c]
      BY <2>2 DEF AwaitRoot, CloseInv, Locking
    <3>2. \A c \in Active : Counted(c) <=> cpc[c] = "returned"
      BY <3>1 DEF Counted, Merging, OwnerInv
    <3>3. ASSUME NEW c \in Active PROVE report'[c] = IF Owned(c)' THEN 1 ELSE 0
      BY <3>1, <3>2 DEF CountInv, Owned, Conns, TypeInv, TypeOK
    <3>4. ASSUME NEW c \in Inbound PROVE report'[c] = IF Owned(c)' THEN 1 ELSE 0
      BY <3>1 DEF CountInv, ListenInv, Owned, Conns, Over, TypeInv, TypeOK
    <3> QED
      BY <3>1, <3>3, <3>4 DEF CountInv, Conns
  <2>3. CASE StartClose(e) \/ LockEndpoint(e) \/ CloseWriter(e) \/ SnapshotActive(e)
    BY <1>0, <2>3
      DEF StartClose, LockEndpoint, CloseWriter, SnapshotActive
  <2> QED
    BY <1>6, <2>1, <2>2, <2>3
      DEF CloseAndWait
<1>7. ASSUME NEW u \in Users, DropUser(u) PROVE CountInv'
  BY <1>a, <1>7
    DEF DropUser, LetGo, Awaiting, Idle, Counted, Merging, Owned, OwnerInv, TypeInv, TypeOK,
        Procs
<1>8. ASSUME NEW e \in Closers, DropClose(e) PROVE CountInv'
  BY <1>a, <1>8
    DEF DropClose, LetGo, Awaiting, Idle, Counted, Merging, Owned, OwnerInv, TypeInv, TypeOK,
        Procs
<1>9. ASSUME NEW c \in Active, DropConnect(c) PROVE CountInv'
  BY <1>a, <1>9
    DEF DropConnect, LetGo, Return, Awaiting, Idle, Counted, Merging, Owned, TypeInv, TypeOK,
        Procs
<1>10. CASE CancelExternal
  BY <1>0, <1>10
    DEF CancelExternal
<1>11. CASE CancelRuntime
  BY <1>0, <1>11
    DEF CancelRuntime
<1>12. CASE UNCHANGED vars
  BY <1>0, <1>12
    DEF vars
<1> QED
  BY <1>1, <1>2, <1>3, <1>4, <1>5, <1>6, <1>7, <1>8, <1>9, <1>10, <1>11, <1>12
    DEF Next

ReportInv == ListenInv /\ OwnerInv /\ CloseInv /\ CountInv

\* A new endpoint has nothing to report.
LEMMA ReportInit == Init => ReportInv
<1> SUFFICES ASSUME Init PROVE ReportInv
  OBVIOUS
<1> USE EndpointAssumption DEF Init, Conns, Procs
<1>1. ListenInv
  BY DEF ListenInv
<1>2. OwnerInv
  BY DEF OwnerInv
<1>3. CloseInv
  BY DEF CloseInv, Locking
<1>4. CountInv
  BY DEF CountInv, Counted
<1> QED
  BY <1>1, <1>2, <1>3, <1>4 DEF ReportInv

\* Every step keeps the parts of ReportInv, each by its own lemma.
LEMMA ReportStep == SafeInv /\ ReportInv /\ [Next]_vars => ReportInv'
  BY ListenStep, OwnerStep, CloseStep, CountStep DEF SafeInv, ReportInv

\* When close_and_wait has completed, its report holds every connection the
\* endpoint answers for exactly once, whoever closed it and whichever close
\* futures were dropped half-way.
THEOREM ReportsOnce == Spec => []EveryTaskCountedOnce
<1>1. ReportInv => EveryTaskCountedOnce
  BY DEF ReportInv, CountInv, EveryTaskCountedOnce
<1> QED
  BY <1>1, SafeInit, SafeStep, ReportInit, ReportStep, PTL DEF Spec

\* By then every one of their tasks has ended, none is in the table, and no late
\* connect_tcp can add one.
THEOREM ClosedStops == Spec => []ClosedMeansStopped
<1>1. ASSUME SafeInv, ReportInv, ioCompleted PROVE active = {}
  BY <1>1 DEF ReportInv, CloseInv
<1>2. ASSUME SafeInv, ReportInv, ioCompleted, NEW c \in Conns, Owned(c) PROVE task[c] \in Over
  <2>1. CASE c \in Active
    BY <1>1, <1>2, <2>1 DEF ReportInv, OwnerInv, Owned, SafeInv, TaskInv, Conns
  <2>2. CASE c \notin Active
    BY <1>2, <2>2 DEF ReportInv, CloseInv, ListenInv, Owned, Conns
  <2> QED
    BY <2>1, <2>2
<1>3. SafeInv /\ ReportInv => ClosedMeansStopped
  BY <1>1, <1>2 DEF ClosedMeansStopped
<1> QED
  BY <1>3, SafeInit, SafeStep, ReportInit, ReportStep, PTL DEF Spec
==============================================================================
