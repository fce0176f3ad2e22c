---------------------------- MODULE BroadcastBus ----------------------------
(***************************************************************************)
(* base/src/bus/broadcast.rs: a bus with one tokio broadcast channel per   *)
(* message type, created on demand and removed by a cleanup task when it   *)
(* has no receivers.                                                       *)
(*                                                                         *)
(* DashMap's entry guard makes publish one step; a subscription clones the *)
(* sender under the guard and subscribes after it; the cleanup looks at    *)
(* the channels one by one and removes them later by their type.  Channels *)
(* are numbered, so that one that replaces another is told apart from it.  *)
(***************************************************************************)
EXTENDS Integers, Sequences, FiniteSets

CONSTANTS Types, Subscribers,
          TypeOf,       \* the type a subscriber subscribes to
          ChannelSize,  \* DEFAULT_CHANNEL_SIZE
          MaxChannels, MaxMessages,   \* bounds
          NoChannel

BroadcastAssumption ==
    /\ TypeOf \in [Subscribers -> Types]
    /\ ChannelSize \in Nat \ {0} /\ MaxChannels \in Nat /\ MaxMessages \in Nat
    /\ NoChannel \notin Nat

VARIABLES
    channels,  \* the DashMap: the channel of a type, or NoChannel
    made,      \* channels created so far
    sub,       \* per subscriber: "idle", "cloned", "live" or "told"
    tx,        \* per subscriber: the sender its call holds
    rx,        \* per subscriber: the channel its receiver belongs to
    queue,     \* per subscriber: messages it can still receive
    lagged,    \* per subscriber: older ones were overwritten
    next,      \* per subscriber: the first message it knows nothing of
    last,      \* per type: the last message published
    cleaner    \* the cleanup's pass: types looked at, types to remove

busVars == <<channels, made, sub, tx, rx, queue, lagged, next, last, cleaner>>

BusInit ==
    /\ channels = [t \in Types |-> NoChannel] /\ made = 0
    /\ sub = [s \in Subscribers |-> "idle"]
    /\ tx = [s \in Subscribers |-> NoChannel] /\ rx = [s \in Subscribers |-> NoChannel]
    /\ queue = [s \in Subscribers |-> <<>>]
    /\ lagged = [s \in Subscribers |-> FALSE]
    /\ next = [s \in Subscribers |-> 0]
    /\ last = [t \in Types |-> 0]
    /\ cleaner = [looked |-> {}, remove |-> {}]

Receivers(ch) == {s \in Subscribers : rx[s] = ch}

\* A channel is closed when the map and the calls in progress hold no sender.
Closed(ch) ==
    /\ \A t \in Types : channels[t] # ch
    /\ \A s \in Subscribers : tx[s] # ch

\* entry(..).or_insert_with(..)
OrInsert(t) ==
    \/ channels[t] # NoChannel /\ UNCHANGED <<channels, made>>
    \/ /\ channels[t] = NoChannel /\ made < MaxChannels
       /\ channels' = [channels EXCEPT ![t] = made + 1]
       /\ made' = made + 1

\* What a receiver has when m is sent: the oldest message is overwritten.
Push(q, m) == Append(IF Len(q) < ChannelSize THEN q ELSE Tail(q), m)

\* publish, publish_ref: an error without receivers, and the message is lost.
Publish(t) ==
    /\ last[t] < MaxMessages
    /\ OrInsert(t)
    /\ last' = [last EXCEPT ![t] = @ + 1]
    /\ LET to == Receivers(channels'[t])
       IN  /\ queue' = [s \in Subscribers |->
                            IF s \in to THEN Push(queue[s], last'[t]) ELSE queue[s]]
           /\ lagged' = [s \in Subscribers |->
                            lagged[s] \/ (s \in to /\ Len(queue[s]) = ChannelSize)]
    /\ UNCHANGED <<sub, tx, rx, next, cleaner>>

\* sub_type_channel clones the sender under the guard ...
CloneSender(s) ==
    /\ sub[s] = "idle"
    /\ OrInsert(TypeOf[s])
    /\ tx' = [tx EXCEPT ![s] = channels'[TypeOf[s]]]
    /\ sub' = [sub EXCEPT ![s] = "cloned"]
    /\ UNCHANGED <<rx, queue, lagged, next, last, cleaner>>

\* Mutant of Subscribe: the receiver keeps the sender.
SubscribeKeepingSender(s) ==
    /\ sub[s] = "cloned"
    /\ rx' = [rx EXCEPT ![s] = tx[s]]
    /\ sub' = [sub EXCEPT ![s] = "live"]
    /\ next' = [next EXCEPT ![s] = last[TypeOf[s]] + 1]
    /\ UNCHANGED <<channels, made, tx, queue, lagged, last, cleaner>>

\* ... and subscribes without it; the clone is dropped on return.
Subscribe(s) ==
    /\ sub[s] = "cloned"
    /\ rx' = [rx EXCEPT ![s] = tx[s]]
    /\ tx' = [tx EXCEPT ![s] = NoChannel]
    /\ sub' = [sub EXCEPT ![s] = "live"]
    /\ next' = [next EXCEPT ![s] = last[TypeOf[s]] + 1]
    /\ UNCHANGED <<channels, made, queue, lagged, last, cleaner>>

\* recv, try_recv, recv_with_timeout.  Overwritten messages are told first.
RecvLagged(s) ==
    /\ sub[s] = "live" /\ lagged[s]
    /\ lagged' = [lagged EXCEPT ![s] = FALSE]
    /\ next' = [next EXCEPT ![s] = Head(queue[s])]
    /\ UNCHANGED <<channels, made, sub, tx, rx, queue, last, cleaner>>

Recv(s) ==
    /\ sub[s] = "live" /\ ~lagged[s] /\ queue[s] # <<>>
    /\ next' = [next EXCEPT ![s] = Head(queue[s]) + 1]
    /\ queue' = [queue EXCEPT ![s] = Tail(@)]
    /\ UNCHANGED <<channels, made, sub, tx, rx, lagged, last, cleaner>>

\* ChannelClosed; on a channel that is open and empty the call only waits.
RecvClosed(s) ==
    /\ sub[s] = "live" /\ ~lagged[s] /\ queue[s] = <<>>
    /\ Closed(rx[s])
    /\ sub' = [sub EXCEPT ![s] = "told"]
    /\ UNCHANGED <<channels, made, tx, rx, queue, lagged, next, last, cleaner>>

DropReceiver(s) ==
    /\ sub[s] \in {"live", "told"}
    /\ sub' = [sub EXCEPT ![s] = "idle"]
    /\ rx' = [rx EXCEPT ![s] = NoChannel]
    /\ queue' = [queue EXCEPT ![s] = <<>>]
    /\ lagged' = [lagged EXCEPT ![s] = FALSE]
    /\ next' = [next EXCEPT ![s] = 0]
    /\ UNCHANGED <<channels, made, tx, last, cleaner>>

\* The cleanup task looks at the channels ...
CleanupLooks(t) ==
    /\ t \notin cleaner.looked
    /\ cleaner' = [looked |-> cleaner.looked \cup {t},
                   remove |-> IF channels[t] # NoChannel /\ Receivers(channels[t]) = {}
                              THEN cleaner.remove \cup {t} ELSE cleaner.remove]
    /\ UNCHANGED <<channels, made, sub, tx, rx, queue, lagged, next, last>>

\* ... removes the ones it found without receivers, whatever they have now,
CleanupRemoves(t) ==
    /\ cleaner.looked = Types /\ t \in cleaner.remove
    /\ channels' = [channels EXCEPT ![t] = NoChannel]
    /\ cleaner' = [cleaner EXCEPT !.remove = @ \ {t}]
    /\ UNCHANGED <<made, sub, tx, rx, queue, lagged, next, last>>

\* ... and sleeps for a minute.
CleanupSleeps ==
    /\ cleaner.looked = Types /\ cleaner.remove = {}
    /\ cleaner' = [cleaner EXCEPT !.looked = {}]
    /\ UNCHANGED <<channels, made, sub, tx, rx, queue, lagged, next, last>>

BusNext ==
    \/ \E t \in Types : Publish(t) \/ CleanupLooks(t) \/ CleanupRemoves(t)
    \/ \E s \in Subscribers :
          \/ CloneSender(s) \/ Subscribe(s) \/ DropReceiver(s)
          \/ RecvLagged(s) \/ Recv(s) \/ RecvClosed(s)
    \/ CleanupSleeps

BusSpec == BusInit /\ [][BusNext]_busVars

----------------------------------------------------------------------------
\* Nobody but a subscription in progress holds a sender of s's channel, so
\* that s is about to be told ChannelClosed.
Orphaned(s) ==
    /\ channels[TypeOf[s]] # rx[s]
    /\ \A x \in Subscribers : tx[x] = rx[s] => sub[x] = "cloned"

\* A subscriber misses nothing silently.  Its queue is what was published to
\* its type since the last message it received or was told to have skipped; if
\* that is no longer so because the cleanup removed its channel between two
\* steps of its subscription, the channel is closed and recv says so.
DeliveredOrTold ==
    \A s \in Subscribers : sub[s] = "live" =>
        \/ Orphaned(s)
        \/ /\ \A i \in 1..Len(queue[s]) :
                 queue[s][i] = last[TypeOf[s]] - Len(queue[s]) + i
           /\ lagged[s] \/ next[s] + Len(queue[s]) = last[TypeOf[s]] + 1
=============================================================================
