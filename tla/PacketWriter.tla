---------------------------- MODULE PacketWriter ----------------------------
(***************************************************************************)
(* The writer registry of base/src/net/rw.rs: PacketWriter's table of TCP  *)
(* sinks by peer address with its index by peer IP, the tasks waiting for  *)
(* a peer to register, and the close that close_and_wait performs.         *)
(*                                                                         *)
(* A connection stands for the sink it registers, and for the registration *)
(* (address and writer_id) insert_tcp_sink returns: both are unique to it. *)
(* What happens under tcp_writer_registry_lock is one step; what happens   *)
(* before or after it is a step of its own.  Notify and the cancellation   *)
(* tokens are tokio's.                                                     *)
(***************************************************************************)
EXTENDS Integers, Sequences, FiniteSets

CONSTANTS Conns,       \* connections that register a sink, once each
          Addrs, Ips,
          AddrOf,      \* the peer address of a connection
          IpOf,        \* the IP of an address
          Direct,      \* connections whose sink is a DirectTcpSink
          Owned,       \* connections whose token is a child of the endpoint's
          Waiters,     \* callers of wait_tcp_sink
          UdpWriters,  \* callers of write_to with Protocol::UDP
          MaxAbandons, \* bound: dropped close_and_wait futures
          None

ASSUME WriterAssumption ==
    /\ AddrOf \in [Conns -> Addrs] /\ IpOf \in [Addrs -> Ips]
    /\ Direct \subseteq Conns /\ Owned \subseteq Conns
    /\ MaxAbandons \in Nat
    /\ None \notin Conns

VARIABLES
    writers,      \* PacketWriter.tcp_writers: address -> its connection
    byIp,         \* PacketWriter.tcp_writer_addrs_by_ip: IP -> registrations
    closed,       \* PacketWriter.closed
    ioCancel,     \* ManagedPacketIo.cancel
    token,        \* connections whose own sink token is cancelled
    pc,           \* per connection: where its registration stands
    prev,         \* per connection: the sink its insertion displaced
    dismissed,    \* connections taken out by remove_tcp_writer
    inHand,       \* sinks remove_tcp_writer has taken out and not yet closed
    wpc, target, notified, result,  \* the wait_tcp_sink calls
    upc, udp,     \* the UDP write_to calls; udp_socket holds a socket
    cpc, sinks, abandons            \* PacketWriter::close within close_and_wait

connVars == <<token, pc, prev, dismissed, inHand>>
waitVars == <<wpc, target, notified, result>>
closeVars == <<upc, udp, cpc, sinks, abandons>>
vars == <<writers, byIp, closed, ioCancel, connVars, waitVars, closeVars>>

\* is_cancelled of the sink's token.
Cancelled(c) == c \in token \/ (c \in Owned /\ ioCancel)

ConnSteps == {"idle", "lock", "evict", "notify", "registered", "removing",
              "closing", "gone"}
WaitSteps == {"idle", "check", "arm", "recheck", "parked", "over"}
CloseSteps == {"idle", "cancel", "snapshot", "sinks", "shutdown", "udp", "done"}

Init ==
    /\ writers = [a \in Addrs |-> None] /\ byIp = [i \in Ips |-> <<>>]
    /\ closed = FALSE /\ ioCancel = FALSE
    /\ token = {} /\ pc = [c \in Conns |-> "idle"]
    /\ prev = [c \in Conns |-> None]
    /\ dismissed = {} /\ inHand = {}
    /\ wpc = [w \in Waiters |-> "idle"] /\ target = [w \in Waiters |-> None]
    /\ notified = [w \in Waiters |-> FALSE] /\ result = [w \in Waiters |-> "none"]
    /\ upc = [u \in UdpWriters |-> "idle"] /\ udp = TRUE
    /\ cpc = "idle" /\ sinks = {} /\ abandons = 0

----------------------------------------------------------------------------
(* insert_tcp_sink.                                                        *)

connFrame == <<closed, ioCancel, dismissed, inHand, closeVars>>

Refuse(c) ==
    /\ token' = token \cup {c}
    /\ pc' = [pc EXCEPT ![c] = "gone"]
    /\ UNCHANGED <<writers, byIp, prev>>

\* A closed writer closes the sink; an open one hands out the writer_id.
InsertCheck(c) ==
    /\ pc[c] = "idle"
    /\ \/ closed /\ Refuse(c)
       \/ /\ ~closed
          /\ pc' = [pc EXCEPT ![c] = "lock"]
          /\ UNCHANGED <<writers, byIp, token, prev>>
    /\ UNCHANGED <<connFrame, waitVars>>

\* The sink replaces the one at its address; registrations is the new list of
\* its IP.
Enter(c, registrations) ==
    /\ prev' = [prev EXCEPT ![c] = writers[AddrOf[c]]]
    /\ writers' = [writers EXCEPT ![AddrOf[c]] = c]
    /\ byIp' = [byIp EXCEPT ![IpOf[AddrOf[c]]] = registrations]
    /\ pc' = [pc EXCEPT ![c] = "evict"]
    /\ UNCHANGED token

\* Vec::retain: the elements of list that are in keep, in their order.
Retain(list, keep) ==
    LET kept[n \in 0..Len(list)] ==
            IF n = 0 THEN <<>>
            ELSE IF list[n] \in keep THEN Append(kept[n - 1], list[n]) ELSE kept[n - 1]
    IN  kept[Len(list)]

\* The list without the registrations of c's address, then c's.
Listed(c) ==
    Append(Retain(byIp[IpOf[AddrOf[c]]], {d \in Conns : AddrOf[d] # AddrOf[c]}), c)

\* Mutants of InsertLocked: the second look at closed is missing; the old
\* registration of the address stays in the list.
InsertUnchecked(c) ==
    /\ pc[c] = "lock"
    /\ Enter(c, Listed(c))
    /\ UNCHANGED <<connFrame, waitVars>>

InsertUnpruned(c) ==
    /\ pc[c] = "lock"
    /\ \/ closed /\ Refuse(c)
       \/ ~closed /\ Enter(c, Append(byIp[IpOf[AddrOf[c]]], c))
    /\ UNCHANGED <<connFrame, waitVars>>

\* Under the registry lock: closed is read again before the sink goes in.
InsertLocked(c) ==
    /\ pc[c] = "lock"
    /\ \/ closed /\ Refuse(c)
       \/ ~closed /\ Enter(c, Listed(c))
    /\ UNCHANGED <<connFrame, waitVars>>

\* Mutant of CloseDisplaced: the displaced sink is forgotten.
DisplacedForgotten(c) ==
    /\ pc[c] = "evict"
    /\ pc' = [pc EXCEPT ![c] = "notify"]
    /\ UNCHANGED <<connFrame, writers, byIp, token, prev, waitVars>>

\* The displaced sink is closed outside the lock.
CloseDisplaced(c) ==
    /\ pc[c] = "evict"
    /\ token' = token \cup ({prev[c]} \ {None})
    /\ pc' = [pc EXCEPT ![c] = "notify"]
    /\ UNCHANGED <<connFrame, writers, byIp, prev, waitVars>>

\* notify_waiters: every Notified future created so far is woken.
NotifyWaiters(c) ==
    /\ pc[c] = "notify"
    /\ notified' = [w \in Waiters |-> notified[w] \/ wpc[w] \in {"recheck", "parked"}]
    /\ pc' = [pc EXCEPT ![c] = "registered"]
    /\ UNCHANGED <<connFrame, writers, byIp, token, prev, wpc, target, result>>

----------------------------------------------------------------------------
(* Removal.                                                                *)

\* The connection's tasks end, for whatever reason.
ConnectionEnds(c) ==
    /\ pc[c] = "registered"
    /\ pc' = [pc EXCEPT ![c] = "removing"]
    /\ UNCHANGED <<connFrame, writers, byIp, token, prev, waitVars>>

\* remove_tcp_writer_inner takes d out of the table and of the index.
TakeOut(d) ==
    /\ writers' = [writers EXCEPT ![AddrOf[d]] = None]
    /\ byIp' = [byIp EXCEPT ![IpOf[AddrOf[d]]] = Retain(@, Conns \ {d})]

\* Mutant of RemoveRegistered: whatever the address holds by now is removed.
RemoveAnyGeneration(c) ==
    /\ pc[c] = "removing"
    /\ pc' = [pc EXCEPT ![c] = "gone"]
    /\ \/ /\ writers[AddrOf[c]] # None
          /\ TakeOut(writers[AddrOf[c]])
          /\ inHand' = inHand \cup {writers[AddrOf[c]]}
       \/ writers[AddrOf[c]] = None /\ UNCHANGED <<writers, byIp, inHand>>
    /\ UNCHANGED <<closed, ioCancel, dismissed, closeVars, token, prev, waitVars>>

\* remove_registered_tcp_writer: only while the entry is still its own.
RemoveRegistered(c) ==
    /\ pc[c] = "removing"
    /\ \/ /\ writers[AddrOf[c]] = c
          /\ TakeOut(c)
          /\ pc' = [pc EXCEPT ![c] = "closing"]
       \/ /\ writers[AddrOf[c]] # c
          /\ pc' = [pc EXCEPT ![c] = "gone"]
          /\ UNCHANGED <<writers, byIp>>
    /\ UNCHANGED <<connFrame, token, prev, waitVars>>

CloseRemoved(c) ==
    /\ pc[c] = "closing"
    /\ token' = token \cup {c}
    /\ pc' = [pc EXCEPT ![c] = "gone"]
    /\ UNCHANGED <<connFrame, writers, byIp, prev, waitVars>>

\* remove_tcp_writer: whatever is registered at the address.
RemoveTcpWriter(a) ==
    /\ writers[a] # None
    /\ TakeOut(writers[a])
    /\ dismissed' = dismissed \cup {writers[a]}
    /\ inHand' = inHand \cup {writers[a]}
    /\ UNCHANGED <<closed, ioCancel, token, pc, prev, waitVars, closeVars>>

CloseDismissed(c) ==
    /\ c \in inHand
    /\ inHand' = inHand \ {c}
    /\ token' = token \cup {c}
    /\ UNCHANGED <<writers, byIp, closed, ioCancel, pc, prev, dismissed, waitVars, closeVars>>

----------------------------------------------------------------------------
(* wait_tcp_sink.                                                          *)

waitFrame == <<writers, byIp, closed, ioCancel, connVars, closeVars>>

StartWait(w, a) ==
    /\ wpc[w] = "idle"
    /\ wpc' = [wpc EXCEPT ![w] = "check"]
    /\ target' = [target EXCEPT ![w] = a]
    /\ UNCHANGED <<waitFrame, notified, result>>

Return(w, what) ==
    /\ wpc' = [wpc EXCEPT ![w] = "over"]
    /\ result' = [result EXCEPT ![w] = what]
    /\ UNCHANGED <<waitFrame, target, notified>>

\* ensure_open, then the first look at the table.
WaitCheck(w) ==
    /\ wpc[w] = "check"
    /\ \/ closed /\ Return(w, "closed")
       \/ ~closed /\ writers[target[w]] # None /\ Return(w, "sink")
       \/ /\ ~closed /\ writers[target[w]] = None
          /\ wpc' = [wpc EXCEPT ![w] = "arm"]
          /\ UNCHANGED <<waitFrame, target, notified, result>>

\* The Notified future is created: from here on notify_waiters reaches it.
WaitArm(w) ==
    /\ wpc[w] = "arm"
    /\ wpc' = [wpc EXCEPT ![w] = "recheck"]
    /\ notified' = [notified EXCEPT ![w] = FALSE]
    /\ UNCHANGED <<waitFrame, target, result>>

\* Mutant of WaitRecheck: the table is not looked at again.
WaitUnchecked(w) ==
    /\ wpc[w] = "recheck"
    /\ wpc' = [wpc EXCEPT ![w] = "parked"]
    /\ UNCHANGED <<waitFrame, target, notified, result>>

\* The second look at the table.
WaitRecheck(w) ==
    /\ wpc[w] = "recheck"
    /\ \/ writers[target[w]] # None /\ Return(w, "sink")
       \/ /\ writers[target[w]] = None
          /\ wpc' = [wpc EXCEPT ![w] = "parked"]
          /\ UNCHANGED <<waitFrame, target, notified, result>>

\* The biased select: closed first, then the notification, then the deadline.
WaitWake(w) ==
    /\ wpc[w] = "parked"
    /\ \/ closed /\ Return(w, "closed")
       \/ /\ ~closed /\ notified[w]
          /\ wpc' = [wpc EXCEPT ![w] = "check"]
          /\ UNCHANGED <<waitFrame, target, notified, result>>
       \/ ~closed /\ ~notified[w] /\ Return(w, "timeout")

----------------------------------------------------------------------------
(* A UDP write_to, and the close.                                          *)

udpFrame == <<writers, byIp, closed, ioCancel, connVars, waitVars, cpc, sinks, abandons>>

UdpOpen(u) ==
    /\ upc[u] = "idle" /\ ~closed
    /\ upc' = [upc EXCEPT ![u] = "open"]
    /\ UNCHANGED <<udpFrame, udp>>

\* The read lock; without a socket the call fails.
UdpLock(u) ==
    /\ upc[u] = "open"
    /\ upc' = [upc EXCEPT ![u] = IF udp THEN "sending" ELSE "idle"]
    /\ UNCHANGED <<udpFrame, udp>>

\* send_to returns, which nothing guarantees ...
UdpSent(u) ==
    /\ upc[u] = "sending" /\ ~closed
    /\ upc' = [upc EXCEPT ![u] = "idle"]
    /\ UNCHANGED <<udpFrame, udp>>

\* Mutant of UdpClosed: the send is not raced against closed.
UdpUncancelled(u) ==
    /\ upc[u] = "sending" /\ closed
    /\ UNCHANGED vars

\* ... or the biased select sees closed.
UdpClosed(u) ==
    /\ upc[u] = "sending" /\ closed
    /\ upc' = [upc EXCEPT ![u] = "idle"]
    /\ UNCHANGED <<udpFrame, udp>>

closeFrame == <<pc, prev, dismissed, inHand, waitVars, upc>>

\* close_and_wait cancels the endpoint (as dropping ManagedPacketIo does) ...
CancelEndpoint ==
    /\ cpc = "idle"
    /\ ioCancel' = TRUE
    /\ cpc' = "cancel"
    /\ UNCHANGED <<closeFrame, writers, byIp, closed, token, udp, sinks, abandons>>

DropEndpoint ==
    /\ cpc = "idle"
    /\ ioCancel' = TRUE
    /\ UNCHANGED <<closeFrame, writers, byIp, closed, token, udp, cpc, sinks, abandons>>

\* ... and close cancels closed,
CancelClosed ==
    /\ cpc = "cancel"
    /\ closed' = TRUE
    /\ cpc' = "snapshot"
    /\ UNCHANGED <<closeFrame, writers, byIp, ioCancel, token, udp, sinks, abandons>>

\* takes the sinks out of both maps under the lock,
Snapshot ==
    /\ cpc = "snapshot"
    /\ sinks' = {writers[a] : a \in Addrs} \ {None}
    /\ writers' = [a \in Addrs |-> None]
    /\ byIp' = [i \in Ips |-> <<>>]
    /\ cpc' = "sinks"
    /\ UNCHANGED <<closeFrame, closed, ioCancel, token, udp, abandons>>

\* closes them one by one, awaiting the shutdown of a direct one,
CloseSink(c) ==
    /\ cpc = "sinks"
    /\ c \in sinks
    /\ token' = token \cup {c}
    /\ sinks' = sinks \ {c}
    /\ cpc' = IF c \in Direct THEN "shutdown" ELSE "sinks"
    /\ UNCHANGED <<closeFrame, writers, byIp, closed, ioCancel, udp, abandons>>

ShutdownDone ==
    /\ cpc = "shutdown"
    /\ cpc' = "sinks"
    /\ UNCHANGED <<closeFrame, writers, byIp, closed, ioCancel, token, udp, sinks, abandons>>

SinksClosed ==
    /\ cpc = "sinks" /\ sinks = {}
    /\ cpc' = "udp"
    /\ UNCHANGED <<closeFrame, writers, byIp, closed, ioCancel, token, udp, sinks, abandons>>

\* and takes the UDP socket once no write_to holds it.
TakeUdp ==
    /\ cpc = "udp"
    /\ \A u \in UdpWriters : upc[u] # "sending"
    /\ udp' = FALSE
    /\ cpc' = "done"
    /\ UNCHANGED <<closeFrame, writers, byIp, closed, ioCancel, token, sinks, abandons>>

\* The future is dropped while it awaits; the next call starts over, because
\* writer_closed was not set.
Abandon ==
    /\ cpc \in {"shutdown", "udp"}
    /\ abandons < MaxAbandons
    /\ abandons' = abandons + 1
    /\ sinks' = {}
    /\ cpc' = "idle"
    /\ UNCHANGED <<closeFrame, writers, byIp, closed, ioCancel, token, udp>>

----------------------------------------------------------------------------
ConnNext(c) ==
    \/ InsertCheck(c) \/ InsertLocked(c) \/ CloseDisplaced(c) \/ NotifyWaiters(c)
    \/ ConnectionEnds(c) \/ RemoveRegistered(c) \/ CloseRemoved(c) \/ CloseDismissed(c)

WaitNext(w) ==
    \/ \E a \in Addrs : StartWait(w, a)
    \/ WaitCheck(w) \/ WaitArm(w) \/ WaitRecheck(w) \/ WaitWake(w)

UdpNext(u) == UdpOpen(u) \/ UdpLock(u) \/ UdpSent(u) \/ UdpClosed(u)

CloseStep ==
    \/ CancelClosed \/ Snapshot \/ ShutdownDone \/ SinksClosed \/ TakeUdp
    \/ \E c \in Conns : CloseSink(c)

Next ==
    \/ \E c \in Conns : ConnNext(c)
    \/ \E a \in Addrs : RemoveTcpWriter(a)
    \/ \E w \in Waiters : WaitNext(w)
    \/ \E u \in UdpWriters : UdpNext(u)
    \/ CancelEndpoint \/ DropEndpoint \/ CloseStep \/ Abandon

\* A close that is awaited keeps running, and a select! polls its closed branch.
\* send_to may hang.
Fairness ==
    /\ WF_vars(CloseStep)
    /\ \A u \in UdpWriters : WF_vars(UdpClosed(u))

Spec == Init /\ [][Next]_vars /\ Fairness

----------------------------------------------------------------------------
(* Properties.                                                             *)

TypeOK ==
    /\ writers \in [Addrs -> Conns \cup {None}]
    /\ \A i \in Ips : byIp[i] \in Seq(Conns)
    /\ closed \in BOOLEAN /\ ioCancel \in BOOLEAN
    /\ token \subseteq Conns /\ pc \in [Conns -> ConnSteps]
    /\ prev \in [Conns -> Conns \cup {None}]
    /\ dismissed \subseteq Conns /\ inHand \subseteq Conns
    /\ wpc \in [Waiters -> WaitSteps] /\ target \in [Waiters -> Addrs \cup {None}]
    /\ notified \in [Waiters -> BOOLEAN]
    /\ result \in [Waiters -> {"none", "sink", "closed", "timeout"}]
    /\ upc \in [UdpWriters -> {"idle", "open", "sending"}] /\ udp \in BOOLEAN
    /\ cpc \in CloseSteps /\ sinks \subseteq Conns /\ abandons \in 0..MaxAbandons

\* The sink c has been in the table (or was refused, and then it is closed).
WasRegistered(c) == pc[c] \notin {"idle", "lock"}

\* Somebody has taken c out of the table and is about to close it.
BeingClosed(c) ==
    \/ \E d \in Conns : pc[d] = "evict" /\ prev[d] = c
    \/ c \in inHand \/ c \in sinks \/ pc[c] = "closing"

\* No sink is leaked: one that was registered is still in the table, is closed,
\* or is in the hands of the call that took it out and will close it.  (For a
\* sink with a token of its own this needs that no close was abandoned.)
NoSinkLeaked ==
    \A c \in Conns :
        WasRegistered(c) /\ (c \in Owned \/ abandons = 0) =>
            writers[AddrOf[c]] = c \/ Cancelled(c) \/ BeingClosed(c)

\* The generation check works: a connection that has not ended loses its sink
\* only to a newer registration of its address, to remove_tcp_writer or to
\* the close, never to the late removal of a connection it replaced.
ClosedForAReason ==
    \A c \in Conns :
        c \in token /\ pc[c] \in {"evict", "notify", "registered", "removing"} =>
            \/ c \in dismissed
            \/ \E d \in Conns : prev[d] = c
            \/ closed

\* The index by IP holds exactly the registrations of that IP's addresses, so
\* that tcp_sink_by_ip finds a sink whenever there is one.
IndexExact ==
    /\ TypeOK
    /\ \A i \in Ips :
          LET listed == {byIp[i][k] : k \in 1..Len(byIp[i])}
          IN  /\ listed = {writers[a] : a \in {b \in Addrs : IpOf[b] = i}} \ {None}
              /\ Len(byIp[i]) = Cardinality(listed)

\* Once close has emptied the table nothing gets into it again, however an
\* insertion interleaves with it.
ClosedStaysEmpty ==
    closed /\ cpc \notin {"idle", "cancel", "snapshot"} =>
        /\ \A a \in Addrs : writers[a] = None
        /\ \A i \in Ips : byIp[i] = <<>>

\* No wake-up is lost: a caller of wait_tcp_sink parked while the sink it wants
\* is registered has been notified, or the insertion is about to notify it.
NoLostWakeup ==
    \A w \in Waiters :
        wpc[w] = "parked" /\ ~notified[w] /\ writers[target[w]] # None =>
            pc[writers[target[w]]] \in {"evict", "notify"}

\* A close that is not dropped ends, even while a UDP send never returns.
CloseCompletes == (cpc = "cancel") ~> (cpc = "done" \/ abandons > 0)

\* close_and_wait is documented as idempotent and cancellation-safe: when it
\* has completed, every sink that was registered is closed.
CloseIsResumed ==
    cpc = "done" =>
        \A c \in Conns : WasRegistered(c) => Cancelled(c) \/ BeingClosed(c)
=============================================================================
