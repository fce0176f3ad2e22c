------------------------------ MODULE MpscBus -------------------------------
(***************************************************************************)
(* base/src/bus/mpsc.rs: a bus with one bounded tokio mpsc channel per     *)
(* message type.                                                           *)
(*                                                                         *)
(* The channels live in a DashMap.  publish awaits room in its channel     *)
(* with a shared guard of the map's shard in its hands; sub_type_channel   *)
(* wants the same shard exclusively and, being a plain function, blocks a  *)
(* worker thread of the runtime until it has it.  A waiting subscription   *)
(* does not keep other readers out (dashmap 5).  The messages themselves   *)
(* are left out: a channel is the number of them.                          *)
(***************************************************************************)
EXTENDS Integers, Sequences, FiniteSets

CONSTANTS Types,
          ShardOf,      \* the shard of the DashMap a type falls into
          Publishers,   \* tasks that call publish or try_publish
          Subscribers,  \* tasks that call sub_type_channel
          ChannelSize,  \* DEFAULT_CHANNEL_SIZE
          Workers       \* worker threads of the runtime

\* Subscriptions alone cannot take all the threads.
MpscAssumption ==
    /\ DOMAIN ShardOf = Types
    /\ ChannelSize \in Nat \ {0}
    /\ Workers \in Nat /\ Workers > Cardinality(Subscribers)

VARIABLES
    entry,      \* the types with an entry in the DashMap
    receiver,   \* the types whose TypedReceiver exists
    filled,     \* per type: messages in its channel
    senders,    \* per type: the publishers that wait for room, first come first
    pub,        \* per publisher: "idle", or its step and type
    subs        \* per subscriber: "idle", or the type it waits to insert

vars == <<entry, receiver, filled, senders, pub, subs>>

Init ==
    /\ entry = {} /\ receiver = {}
    /\ filled = [t \in Types |-> 0] /\ senders = [t \in Types |-> <<>>]
    /\ pub = [p \in Publishers |-> [at |-> "idle"]]
    /\ subs = [s \in Subscribers |-> [at |-> "idle"]]

----------------------------------------------------------------------------
(* Threads and guards.                                                     *)

\* The tasks that sit on a worker thread inside the DashMap.
Blocked == {p \in Publishers : pub[p].at = "get"} \cup {s \in Subscribers : subs[s].at = "entry"}

\* A task that is woken runs when a thread is free.
FreeThread == Cardinality(Blocked) < Workers

\* Shared guards are held across the await in publish.
Guards(shard) == {p \in Publishers : pub[p].at = "send" /\ ShardOf[pub[p].type] = shard}

\* Mutant of CanShare: the guard that publish holds is exclusive (get_mut).
CanShareNever(shard) == Guards(shard) = {}

\* get: an exclusive guard is never held across two steps.
CanShare(shard) == TRUE

CanOwn(shard) == Guards(shard) = {}

PubReturns(p) == pub' = [pub EXCEPT ![p] = [at |-> "idle"]]

----------------------------------------------------------------------------
(* publish and try_publish.                                                *)

PublishBegins(p, t, wait) ==
    /\ pub[p].at = "idle" /\ FreeThread
    /\ pub' = [pub EXCEPT ![p] = [at |-> "get", type |-> t, wait |-> wait]]
    /\ UNCHANGED <<entry, receiver, filled, senders, subs>>

HasRoom(t) == senders[t] = <<>> /\ filled[t] < ChannelSize

\* NotFound, ChannelClosed, Full, or the message is taken at once ...
PublishAnswered(p) ==
    LET t == pub[p].type
    IN  /\ pub[p].at = "get" /\ CanShare(ShardOf[t])
        /\ \/ t \notin receiver /\ UNCHANGED filled
           \/ t \in receiver /\ HasRoom(t) /\ filled' = [filled EXCEPT ![t] = @ + 1]
           \/ t \in receiver /\ ~HasRoom(t) /\ ~pub[p].wait /\ UNCHANGED filled
        /\ PubReturns(p)
        /\ UNCHANGED <<entry, receiver, senders, subs>>

\* ... or publish lets the thread go and keeps the guard.
PublishWaits(p) ==
    LET t == pub[p].type
    IN  /\ pub[p].at = "get" /\ CanShare(ShardOf[t])
        /\ t \in receiver /\ ~HasRoom(t) /\ pub[p].wait
        /\ pub' = [pub EXCEPT ![p].at = "send"]
        /\ senders' = [senders EXCEPT ![t] = Append(@, p)]
        /\ UNCHANGED <<entry, receiver, filled, subs>>

\* The first that waits is given the room, all are told of a dropped receiver.
PublishResumes(p) ==
    LET t == pub[p].type
    IN  /\ pub[p].at = "send" /\ FreeThread
        /\ \/ t \notin receiver /\ UNCHANGED filled
           \/ /\ t \in receiver
              /\ Head(senders[t]) = p /\ filled[t] < ChannelSize
              /\ filled' = [filled EXCEPT ![t] = @ + 1]
        /\ senders' = [senders EXCEPT ![t] = SelectSeq(@, LAMBDA q : q # p)]
        /\ PubReturns(p)
        /\ UNCHANGED <<entry, receiver, subs>>

\* The caller drops the future, and the guard with it.
PublishDropped(p) ==
    /\ pub[p].at = "send" /\ FreeThread
    /\ senders' = [senders EXCEPT ![pub[p].type] = SelectSeq(@, LAMBDA q : q # p)]
    /\ PubReturns(p)
    /\ UNCHANGED <<entry, receiver, filled, subs>>

----------------------------------------------------------------------------
(* sub_type_channel and the receiver.                                      *)

SubscribeBegins(s, t) ==
    /\ subs[s].at = "idle" /\ FreeThread
    /\ subs' = [subs EXCEPT ![s] = [at |-> "entry", type |-> t]]
    /\ UNCHANGED <<entry, receiver, filled, senders, pub>>

\* An entry that is there is refused, even if its receiver is gone.
SubscribeEnds(s) ==
    LET t == subs[s].type
    IN  /\ subs[s].at = "entry" /\ CanOwn(ShardOf[t])
        /\ \/ t \in entry /\ UNCHANGED <<entry, receiver>>
           \/ t \notin entry /\ entry' = entry \cup {t} /\ receiver' = receiver \cup {t}
        /\ subs' = [subs EXCEPT ![s] = [at |-> "idle"]]
        /\ UNCHANGED <<filled, senders, pub>>

\* recv, try_recv, recv_with_timeout; on an empty channel they change nothing.
Recv(t) ==
    /\ t \in receiver /\ filled[t] > 0 /\ FreeThread
    /\ filled' = [filled EXCEPT ![t] = @ - 1]
    /\ UNCHANGED <<entry, receiver, senders, pub, subs>>

DropReceiver(t) ==
    /\ t \in receiver /\ FreeThread
    /\ receiver' = receiver \ {t}
    /\ filled' = [filled EXCEPT ![t] = 0]
    /\ UNCHANGED <<entry, senders, pub, subs>>

----------------------------------------------------------------------------
Next ==
    \/ \E p \in Publishers :
          \/ \E t \in Types, wait \in BOOLEAN : PublishBegins(p, t, wait)
          \/ PublishAnswered(p) \/ PublishWaits(p) \/ PublishResumes(p) \/ PublishDropped(p)
    \/ \E s \in Subscribers : (\E t \in Types : SubscribeBegins(s, t)) \/ SubscribeEnds(s)
    \/ \E t \in Types : Recv(t) \/ DropReceiver(t)

\* A DashMap call returns when its shard is free.  Tokio's run queue is first
\* come first served, so a task that is woken gets one of the threads that
\* become free again and again; the owner of a receiver keeps receiving.
Fairness ==
    /\ \A p \in Publishers :
          /\ WF_vars(PublishAnswered(p) \/ PublishWaits(p))
          /\ SF_vars(PublishResumes(p))
    /\ \A t \in Types : SF_vars(Recv(t))

Spec == Init /\ [][Next]_vars /\ Fairness

----------------------------------------------------------------------------
\* A publish that waits for room holds a guard that other calls of the bus may
\* be blocked on, and they in turn hold the threads on which the room would be
\* made.  It still returns, with the message sent or an error, as long as the
\* subscriptions cannot occupy every thread and the receivers are read.
PublisherServed ==
    \A p \in Publishers : (pub[p].at # "idle") ~> (pub[p].at = "idle")
=============================================================================
