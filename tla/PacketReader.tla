---------------------------- MODULE PacketReader ----------------------------
(***************************************************************************)
(* The unmanaged readers of base/src/net/rw.rs: reader, owned_reader and   *)
(* what they spawn, a listener that survives accept errors, a task per TCP *)
(* connection (handle_tcp, handle_tcp_owned) and the UDP loop.             *)
(*                                                                         *)
(* The byte streams are the network's (`arrived', `fin'); <<p, k>> is the  *)
(* k-th byte of frame p.  The splitter is the application's: it takes      *)
(* whole frames off the front of the buffer, whose length it reads in      *)
(* their first byte.  Between two awaits the tasks run undisturbed, so a   *)
(* read, the check of the buffer and the dispatching are one step.         *)
(***************************************************************************)
EXTENDS Integers, Sequences, SequencesExt

CONSTANTS Conns,
          MaxBuf,           \* MAX_BUF_SIZE
          ReadMax,          \* the most the buffer's spare capacity takes
          BackoffMin, BackoffMax,   \* TCP_ACCEPT_ERROR_BACKOFF_MIN, _MAX
          MaxDatagrams      \* bound

ReaderAssumption ==
    /\ {MaxBuf, ReadMax, BackoffMin, BackoffMax} \subseteq Nat \ {0}
    /\ MaxDatagrams \in Nat

VARIABLES
    arrived, fin,   \* per connection: the peer's bytes, and whether it ends them
    frameLen,       \* per frame the peers send: its length
    token,          \* the CancellationToken
    listener,       \* "accepting", "backoff" or "stopped"
    backoff,        \* accept_error_backoff
    conn,           \* per connection: "none", "reading" or how it ended
    taken,          \* per connection: bytes read from the socket
    buffer,         \* per connection: buf
    dispatched,     \* per connection: the frames given to the dispatcher
    announced,      \* per connection: frames before dispatcher.close was called
    udp,            \* the UDP task: "receiving" or "stopped"
    datagrams       \* datagrams dispatched

connVars == <<conn, taken, buffer, dispatched, announced>>
readerVars == <<arrived, fin, frameLen, token, listener, backoff, connVars, udp, datagrams>>

ReaderInit ==
    /\ token = FALSE /\ listener = "accepting" /\ backoff = 0
    /\ conn = [c \in Conns |-> "none"]
    /\ taken = [c \in Conns |-> 0] /\ buffer = [c \in Conns |-> <<>>]
    /\ dispatched = [c \in Conns |-> <<>>] /\ announced = [c \in Conns |-> <<>>]
    /\ udp = "receiving" /\ datagrams = 0

\* What the network may bring: any bytes of frames that are not empty.
Streams ==
    /\ \A p \in DOMAIN frameLen : frameLen[p] \in Nat \ {0}
    /\ arrived \in [Conns -> Seq((DOMAIN frameLen) \X Nat)]
    /\ fin \in [Conns -> BOOLEAN]

Ends == {"eof", "overflow", "error", "cancelled", "refused"}

----------------------------------------------------------------------------
(* The splitter.                                                           *)

FrameLen(byte) == frameLen[byte[1]]

\* The whole frames at the front of the buffer.
Frames(buf) ==
    LET from[i \in 0..Len(buf)] ==
            IF i < Len(buf) /\ i + FrameLen(buf[i + 1]) <= Len(buf)
            THEN <<SubSeq(buf, i + 1, i + FrameLen(buf[i + 1]))>> \o from[i + FrameLen(buf[i + 1])]
            ELSE <<>>
    IN  from[0]

Total(frames) == Len(FlattenSeq(frames))

Rest(buf, frames) == SubSeq(buf, Total(frames) + 1, Len(buf))

----------------------------------------------------------------------------
(* The listener: spawn_tcp, spawn_tcp_owned.                               *)

listenFrame == <<arrived, fin, frameLen, token, taken, buffer, dispatched, announced, udp, datagrams>>

Accept(c) ==
    /\ listener = "accepting" /\ conn[c] = "none"
    /\ conn' = [conn EXCEPT ![c] = "reading"]
    /\ backoff' = 0
    /\ UNCHANGED <<listenFrame, listener>>

\* next_accept_error_backoff
NextBackoff(b) ==
    IF b = 0 THEN BackoffMin ELSE IF 2 * b < BackoffMax THEN 2 * b ELSE BackoffMax

AcceptFails ==
    /\ listener = "accepting"
    /\ backoff' = NextBackoff(backoff)
    /\ listener' = "backoff"
    /\ UNCHANGED <<listenFrame, conn>>

BackoffOver ==
    /\ listener = "backoff"
    /\ listener' = "accepting"
    /\ UNCHANGED <<listenFrame, conn, backoff>>

\* accept is polled before the token, but a ready accept uses up the task's
\* budget, and the token is seen at the latest then.
ListenerStops ==
    /\ token /\ listener # "stopped"
    /\ listener' = "stopped"
    /\ UNCHANGED <<listenFrame, conn, backoff>>

----------------------------------------------------------------------------
(* A connection: handle_tcp, handle_tcp_owned.                             *)

connFrame == <<arrived, fin, frameLen, token, listener, backoff, udp, datagrams>>

\* Mutant of Overflows: the limit itself is too much.
OverflowsEarly(buf) == Len(buf) >= MaxBuf

Overflows(buf) == Len(buf) > MaxBuf

\* Mutant of KeepRest: the buffer is cleared after the splitter has seen it.
KeepNothing(buf, frames) == <<>>

KeepRest(buf, frames) == Rest(buf, frames)

Incoming(c, n) == buffer[c] \o SubSeq(arrived[c], taken[c] + 1, taken[c] + n)

Take(c, n) ==
    /\ conn[c] = "reading" /\ n \in 1..ReadMax /\ taken[c] + n <= Len(arrived[c])
    /\ taken' = [taken EXCEPT ![c] = @ + n]

\* dispatcher.close is called when the loop is left by a break.
EndLoop(c, how) ==
    /\ conn' = [conn EXCEPT ![c] = how]
    /\ announced' = [announced EXCEPT ![c] = Append(@, Len(dispatched[c]))]

\* Some bytes are read and what is whole is dispatched ...
ReadSome(c, n) ==
    LET buf == Incoming(c, n)
    IN  /\ Take(c, n)
        /\ \/ /\ Overflows(buf)
              /\ buffer' = [buffer EXCEPT ![c] = buf]
              /\ EndLoop(c, "overflow")
              /\ UNCHANGED dispatched
           \/ /\ ~Overflows(buf)
              /\ dispatched' = [dispatched EXCEPT ![c] = @ \o Frames(buf)]
              /\ buffer' = [buffer EXCEPT ![c] = KeepRest(buf, Frames(buf))]
              /\ UNCHANGED <<conn, announced>>
        /\ UNCHANGED connFrame

\* ... or the dispatcher refuses one, and the task returns without close.
DispatchFails(c, n) ==
    LET buf == Incoming(c, n)
    IN  /\ Take(c, n) /\ ~Overflows(buf)
        /\ \E k \in 1..Len(Frames(buf)) :
              LET done == SubSeq(Frames(buf), 1, k - 1)
              IN  /\ dispatched' = [dispatched EXCEPT ![c] = @ \o done]
                  /\ buffer' = [buffer EXCEPT ![c] = Rest(buf, done)]
        /\ conn' = [conn EXCEPT ![c] = "refused"]
        /\ UNCHANGED <<connFrame, announced>>

ReadEof(c) ==
    /\ conn[c] = "reading" /\ fin[c] /\ taken[c] = Len(arrived[c])
    /\ EndLoop(c, "eof")
    /\ UNCHANGED <<connFrame, taken, buffer, dispatched>>

ReadFails(c) ==
    /\ conn[c] = "reading"
    /\ EndLoop(c, "error")
    /\ UNCHANGED <<connFrame, taken, buffer, dispatched>>

\* Mutant of ReadCancelled: only the listener looks at the token.
ReadOn(c) ==
    /\ conn[c] = "reading" /\ token
    /\ UNCHANGED readerVars

ReadCancelled(c) ==
    /\ conn[c] = "reading" /\ token
    /\ EndLoop(c, "cancelled")
    /\ UNCHANGED <<connFrame, taken, buffer, dispatched>>

----------------------------------------------------------------------------
(* The UDP task: spawn_udp_owned.                                          *)

udpFrame == <<arrived, fin, frameLen, token, listener, backoff, connVars>>

\* An empty datagram is passed over, an error of the dispatcher too.
UdpReceives(size) ==
    /\ udp = "receiving" /\ datagrams < MaxDatagrams
    /\ datagrams' = IF size = 0 THEN datagrams ELSE datagrams + 1
    /\ UNCHANGED <<udpFrame, udp>>

UdpFails ==
    /\ udp = "receiving"
    /\ udp' = "stopped"
    /\ UNCHANGED <<udpFrame, datagrams>>

UdpCancelled ==
    /\ udp = "receiving" /\ token
    /\ udp' = "stopped"
    /\ UNCHANGED <<udpFrame, datagrams>>

----------------------------------------------------------------------------
Cancel ==
    /\ ~token
    /\ token' = TRUE
    /\ UNCHANGED <<arrived, fin, frameLen, listener, backoff, connVars, udp, datagrams>>

ConnNext(c) ==
    \/ \E n \in 1..ReadMax : ReadSome(c, n) \/ DispatchFails(c, n)
    \/ ReadEof(c) \/ ReadFails(c) \/ ReadCancelled(c)

ReaderNext ==
    \/ \E c \in Conns : Accept(c) \/ ConnNext(c)
    \/ AcceptFails \/ BackoffOver \/ ListenerStops
    \/ UdpReceives(0) \/ UdpReceives(1) \/ UdpFails \/ UdpCancelled
    \/ Cancel

\* Select polls its branches in random order, so no task overlooks the token
\* for ever.
ReaderFairness ==
    /\ WF_readerVars(ListenerStops) /\ WF_readerVars(UdpCancelled)
    /\ \A c \in Conns : WF_readerVars(ReadCancelled(c))

ReaderSpec == ReaderInit /\ Streams /\ [][ReaderNext]_readerVars /\ ReaderFairness

----------------------------------------------------------------------------
(* Properties.                                                             *)

\* However the network cuts the stream into pieces, what a peer sent reaches
\* the dispatcher whole and in order, with nothing lost between two reads; its
\* end is announced exactly once and after the last frame (never, if the
\* dispatcher itself refused a frame); after the peer's own end nothing whole
\* is left over; and a peer is not cut off for the size of its frames while
\* every one fits the buffer beside a full read.
DispatchedAsSent ==
    \A c \in Conns :
        /\ FlattenSeq(dispatched[c]) \o buffer[c] = SubSeq(arrived[c], 1, taken[c])
        /\ \A i \in 1..Len(dispatched[c]) :
              Len(dispatched[c][i]) = FrameLen(dispatched[c][i][1])
        /\ announced[c] = IF conn[c] \in Ends \ {"refused"}
                          THEN <<Len(dispatched[c])>> ELSE <<>>
        /\ conn[c] \in {"reading", "eof"} => Frames(buffer[c]) = <<>>
        /\ conn[c] = "overflow" =>
              \E i \in 1..Len(arrived[c]) : FrameLen(arrived[c][i]) > MaxBuf - ReadMax + 1

\* Cancelling the token stops the listener, every connection accepted before or
\* after, and the UDP task, even if no peer ever sends another byte.
CancelStopsReader ==
    token ~> (listener = "stopped" /\ udp = "stopped" /\ \A c \in Conns : conn[c] # "reading")
=============================================================================
