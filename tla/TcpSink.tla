------------------------------ MODULE TcpSink -------------------------------
(***************************************************************************)
(* The write side of one TCP connection of base/src/net/rw.rs: callers     *)
(* that share a QueuedTcpSink or a DirectTcpSink, the encoder, the task    *)
(* handle_tcp_write behind the queue, and write_all_vectored_2, which puts *)
(* a packet on the socket in as many pieces as the kernel takes.           *)
(*                                                                         *)
(* Bytes are tokens <<w, k>>: the k-th byte of the packet of caller w.     *)
(* The stream's Mutex, the mpsc channel, the token and the socket are      *)
(* tokio's.  A socket write is non-blocking: it takes some bytes, fails,   *)
(* or would block, and then the future is polled again later.              *)
(***************************************************************************)
EXTENDS Integers, Sequences, FiniteSets

CONSTANTS Writers,     \* callers of write or try_write, one packet each
          PayloadLen,  \* the length of a caller's payload
          TooLong,     \* callers whose payload exceeds u16::MAX
          PrefixLen,   \* bytes of the length prefix
          QueueSize,   \* TcpWriteMode::Queued's queue_size
          MaxDrops,    \* bound: dropped write futures
          None

ASSUME SinkAssumption ==
    /\ PayloadLen \in [Writers -> Nat \ {0}] /\ TooLong \subseteq Writers
    /\ PrefixLen \in Nat /\ QueueSize \in Nat /\ MaxDrops \in Nat
    /\ None \notin Writers

VARIABLES
    mode,      \* the sink of this connection: "queued" or "direct"
    encoder,   \* "raw" or "u16be"
    cancel,    \* the sink's token, which the connection's tasks share
    pc,        \* per caller: where its write stands
    result,    \* per caller: what it was told
    queue,     \* the mpsc channel: the callers whose packets wait in it
    holder,    \* who holds the Mutex around the stream
    out,       \* what write_all_vectored_2 has left: <<first, second>>
    wire,      \* the bytes the socket has taken
    fin,       \* the stream has been shut down
    task,      \* handle_tcp_write
    shut,      \* a call of DirectTcpSink::shutdown
    dropped    \* callers whose write future was dropped

callVars == <<pc, result, dropped>>
vars == <<mode, encoder, cancel, callVars, queue, holder, out, wire, fin, task, shut>>

CallSteps == {"idle", "lock", "poll", "writing", "send", "sending", "try", "over"}
TaskSteps == {"select", "writing", "cancel", "shutdown", "over"}

Init ==
    /\ mode \in {"queued", "direct"} /\ encoder \in {"raw", "u16be"}
    /\ cancel = FALSE
    /\ pc = [w \in Writers |-> "idle"] /\ result = [w \in Writers |-> "none"]
    /\ queue = <<>> /\ holder = None /\ out = <<<<>>, <<>>>>
    /\ wire = <<>> /\ fin = FALSE
    /\ task = IF mode = "queued" THEN "select" ELSE "over"
    /\ shut = "idle" /\ dropped = {}

----------------------------------------------------------------------------
(* Packets.                                                                *)

Bytes(w, from, to) == [k \in 1..(to - from + 1) |-> <<w, from + k - 1>>]

\* encode_tcp: the slices of w's packet, and when there is none.
EncodeFails(w) == encoder = "u16be" /\ w \in TooLong

PacketLen(w) == PayloadLen[w] + (IF encoder = "raw" THEN 0 ELSE PrefixLen)

Slices(w) ==
    IF encoder = "raw" THEN <<Bytes(w, 1, PayloadLen[w]), <<>>>>
    ELSE <<Bytes(w, 1, PrefixLen), Bytes(w, PrefixLen + 1, PacketLen(w))>>

Left(slices) == Len(slices[1]) + Len(slices[2])

Rest(s, n) == SubSeq(s, n + 1, Len(s))

\* write_all_vectored_2 after the socket took n bytes.
Advance(slices, n) ==
    IF n < Len(slices[1]) THEN <<Rest(slices[1], n), slices[2]>>
    ELSE <<<<>>, Rest(slices[2], n - Len(slices[1]))>>

\* One write or write_vectored call of the socket takes n bytes.
SocketTakes(n) ==
    /\ n \in 1..Left(out)
    /\ wire' = wire \o SubSeq(out[1] \o out[2], 1, n)
    /\ out' = Advance(out, n)

Return(w, what) ==
    /\ pc' = [pc EXCEPT ![w] = "over"]
    /\ result' = [result EXCEPT ![w] = what]

GoOn(w, where) == pc' = [pc EXCEPT ![w] = where] /\ UNCHANGED result

----------------------------------------------------------------------------
(* The calls.                                                              *)

callFrame == <<mode, encoder, dropped, fin, task, shut>>

\* write: the sink must be open and the packet encodable.
StartWrite(w) ==
    /\ pc[w] = "idle"
    /\ \/ (cancel \/ EncodeFails(w)) /\ Return(w, "err")
       \/ ~cancel /\ ~EncodeFails(w) /\ GoOn(w, IF mode = "direct" THEN "lock" ELSE "send")
    /\ UNCHANGED <<callFrame, cancel, queue, holder, out, wire>>

\* try_write, which a direct sink refuses.
StartTryWrite(w) ==
    /\ pc[w] = "idle"
    /\ \/ (mode = "direct" \/ cancel \/ EncodeFails(w)) /\ Return(w, "err")
       \/ mode = "queued" /\ ~cancel /\ ~EncodeFails(w) /\ GoOn(w, "try")
    /\ UNCHANGED <<callFrame, cancel, queue, holder, out, wire>>

Capacity == IF QueueSize > 1 THEN QueueSize ELSE 1

Receiving == task # "over"

\* QueuedTcpSink::write's biased select polls the token first ...
PollSend(w) ==
    /\ pc[w] = "send"
    /\ \/ cancel /\ Return(w, "err")
       \/ ~cancel /\ GoOn(w, "sending")
    /\ UNCHANGED <<callFrame, cancel, queue, holder, out, wire>>

Enqueue(w) == queue' = Append(queue, w) /\ Return(w, "ok")

\* ... and then the channel.
Send(w) ==
    /\ pc[w] = "sending"
    /\ \/ ~Receiving /\ Return(w, "err") /\ UNCHANGED queue
       \/ Receiving /\ Len(queue) < Capacity /\ Enqueue(w)
       \/ Receiving /\ Len(queue) >= Capacity /\ GoOn(w, "send") /\ UNCHANGED queue
    /\ UNCHANGED <<callFrame, cancel, holder, out, wire>>

TrySend(w) ==
    /\ pc[w] = "try"
    /\ \/ (~Receiving \/ Len(queue) >= Capacity) /\ Return(w, "err") /\ UNCHANGED queue
       \/ Receiving /\ Len(queue) < Capacity /\ Enqueue(w)
    /\ UNCHANGED <<callFrame, cancel, holder, out, wire>>

\* DirectTcpSink::write has the stream and looks at the token again.
LockStream(w) ==
    /\ pc[w] = "lock" /\ holder = None
    /\ \/ cancel /\ Return(w, "err") /\ UNCHANGED <<holder, out>>
       \/ ~cancel /\ GoOn(w, "poll") /\ holder' = w /\ out' = Slices(w)
    /\ UNCHANGED <<callFrame, cancel, queue, wire>>

\* Mutant of PollWrite: the write is not raced against the token.
PollWriteOnly(w) ==
    /\ pc[w] = "poll"
    /\ GoOn(w, "writing")
    /\ UNCHANGED <<callFrame, cancel, queue, holder, out, wire>>

\* Its biased select polls the token, then the socket.
PollWrite(w) ==
    /\ pc[w] = "poll"
    /\ \/ cancel /\ Return(w, "err") /\ holder' = None
       \/ ~cancel /\ GoOn(w, "writing") /\ UNCHANGED holder
    /\ UNCHANGED <<callFrame, cancel, queue, out, wire>>

\* Mutant of WriteSome: a finished write is noticed at the next poll.
WriteSomeLate(w) ==
    /\ pc[w] = "writing"
    /\ \/ \E n \in 1..Left(out) : SocketTakes(n) /\ GoOn(w, "poll") /\ UNCHANGED holder
       \/ Left(out) = 0 /\ Return(w, "ok") /\ holder' = None /\ UNCHANGED <<out, wire>>
    /\ UNCHANGED <<callFrame, cancel, queue>>

WriteSome(w) ==
    /\ pc[w] = "writing"
    /\ \E n \in 1..Left(out) :
          /\ SocketTakes(n)
          /\ \/ n = Left(out) /\ Return(w, "ok") /\ holder' = None
             \/ n < Left(out) /\ GoOn(w, "writing") /\ UNCHANGED holder
    /\ UNCHANGED <<callFrame, cancel, queue>>

WouldBlock(w) ==
    /\ pc[w] = "writing"
    /\ GoOn(w, "poll")
    /\ UNCHANGED <<callFrame, cancel, queue, holder, out, wire>>

\* Mutant of WriteFails: the sink stays open after a failed write.
WriteFailsOpen(w) ==
    /\ pc[w] = "writing"
    /\ Return(w, "err")
    /\ holder' = None
    /\ UNCHANGED <<callFrame, cancel, queue, out, wire>>

\* An error of the socket, or a write of zero bytes, closes the sink.
WriteFails(w) ==
    /\ pc[w] = "writing"
    /\ Return(w, "err")
    /\ cancel' = TRUE
    /\ holder' = None
    /\ UNCHANGED <<callFrame, queue, out, wire>>

\* The caller drops the future where it waits.
DropWrite(w) ==
    /\ pc[w] \in {"lock", "poll", "send"}
    /\ Cardinality(dropped) < MaxDrops
    /\ dropped' = dropped \cup {w}
    /\ Return(w, "none")
    /\ holder' = IF holder = w THEN None ELSE holder
    /\ UNCHANGED <<mode, encoder, fin, task, shut, cancel, queue, out, wire>>

\* close of either sink, or the end of the read half: they share the token.
Close ==
    /\ ~cancel
    /\ cancel' = TRUE
    /\ UNCHANGED <<callFrame, pc, result, queue, holder, out, wire>>

StartShutdown ==
    /\ mode = "direct" /\ shut = "idle"
    /\ cancel' = TRUE
    /\ shut' = "lock"
    /\ UNCHANGED <<mode, encoder, callVars, queue, holder, out, wire, fin, task>>

ShutdownStream ==
    /\ shut = "lock" /\ holder = None
    /\ fin' = TRUE
    /\ shut' = "over"
    /\ UNCHANGED <<mode, encoder, cancel, callVars, queue, holder, out, wire, task>>

----------------------------------------------------------------------------
(* handle_tcp_write.                                                       *)

taskFrame == <<mode, encoder, callVars, holder, shut>>

TaskReceives ==
    /\ task = "select" /\ queue # <<>>
    /\ out' = Slices(Head(queue))
    /\ queue' = Tail(queue)
    /\ task' = "writing"
    /\ UNCHANGED <<taskFrame, cancel, wire, fin>>

\* The token is not polled while the packet is written.
TaskWrites ==
    /\ task = "writing"
    /\ \E n \in 1..Left(out) :
          /\ SocketTakes(n)
          /\ task' = IF n = Left(out) THEN "select" ELSE "writing"
    /\ UNCHANGED <<taskFrame, cancel, queue, fin>>

TaskFails ==
    /\ task = "writing"
    /\ task' = "cancel"
    /\ UNCHANGED <<taskFrame, cancel, queue, out, wire, fin>>

\* The token, or a channel that is empty and whose senders are all gone.
TaskStops ==
    /\ task = "select"
    /\ cancel \/ (queue = <<>> /\ \A w \in Writers : pc[w] = "over")
    /\ task' = "cancel"
    /\ UNCHANGED <<taskFrame, cancel, queue, out, wire, fin>>

TaskCancels ==
    /\ task = "cancel"
    /\ cancel' = TRUE
    /\ task' = "shutdown"
    /\ UNCHANGED <<taskFrame, queue, out, wire, fin>>

\* The stream is shut down, and the receiver is dropped with what it holds.
TaskEnds ==
    /\ task = "shutdown"
    /\ fin' = TRUE
    /\ queue' = <<>>
    /\ task' = "over"
    /\ UNCHANGED <<taskFrame, cancel, out, wire>>

----------------------------------------------------------------------------
CallNext(w) ==
    \/ StartWrite(w) \/ StartTryWrite(w) \/ PollSend(w) \/ Send(w) \/ TrySend(w)
    \/ LockStream(w) \/ PollWrite(w) \/ WriteSome(w) \/ WouldBlock(w) \/ WriteFails(w)
    \/ DropWrite(w)

TaskNext ==
    TaskReceives \/ TaskWrites \/ TaskFails \/ TaskStops \/ TaskCancels \/ TaskEnds

Next ==
    \/ \E w \in Writers : CallNext(w)
    \/ Close \/ StartShutdown \/ ShutdownStream \/ TaskNext

\* A future that is awaited is polled, a Mutex that is free is handed on, and
\* a non-blocking socket call returns.  Nothing makes the peer read.
Fairness ==
    /\ WF_vars(ShutdownStream)
    /\ \A w \in Writers :
          /\ WF_vars(PollSend(w) \/ Send(w) \/ TrySend(w))
          /\ WF_vars(LockStream(w))
          /\ WF_vars(PollWrite(w) \/ WriteSome(w) \/ WouldBlock(w) \/ WriteFails(w))

Spec == Init /\ [][Next]_vars /\ Fairness

----------------------------------------------------------------------------
(* Properties.                                                             *)

TypeOK ==
    /\ cancel \in BOOLEAN /\ fin \in BOOLEAN
    /\ pc \in [Writers -> CallSteps] /\ result \in [Writers -> {"none", "ok", "err"}]
    /\ queue \in Seq(Writers) /\ Len(queue) <= Capacity
    /\ holder \in Writers \cup {None}
    /\ task \in TaskSteps /\ shut \in {"idle", "lock", "over"}
    /\ dropped \subseteq Writers

\* The bytes of w on the wire, and whether they are its whole packet.
Positions(w) == {i \in 1..Len(wire) : wire[i][1] = w}
Whole(w) == Cardinality(Positions(w)) = PacketLen(w)

\* The peer can tell the packets apart whatever the callers, the socket and
\* the token do: the bytes of a packet leave in order and with nothing between
\* them, and nothing follows a packet that was cut short.  (A caller that drops
\* its future in the middle of a direct write breaks the stream.)
FramesWhole ==
    \A w \in Writers \ dropped : Positions(w) # {} =>
        LET from == CHOOSE i \in Positions(w) : \A j \in Positions(w) : i <= j
            count == Cardinality(Positions(w))
        IN  /\ SubSeq(wire, from, from + count - 1) = Bytes(w, 1, count)
            /\ Whole(w) \/ from + count - 1 = Len(wire)

\* What a caller is told is true: after Ok its packet is on the wire, or it
\* was queued on a connection that still has it or has been cancelled; after
\* Err the peer does not have the packet, so that sending it again elsewhere
\* does not repeat it.
AnswersHold ==
    \A w \in Writers :
        /\ result[w] = "ok" =>
              \/ Whole(w)
              \/ /\ mode = "queued"
                 /\ \/ cancel \/ task = "cancel"
                    \/ \E i \in 1..Len(queue) : queue[i] = w
                    \/ out[1] \o out[2] # <<>> /\ (out[1] \o out[2])[1][1] = w
        /\ result[w] = "err" => ~Whole(w) /\ (mode = "queued" => Positions(w) = {})

\* shutdown of a direct sink gets the stream and shuts it down, even if the
\* peer never reads again.
ShutdownEnds == (shut = "lock") ~> fin
=============================================================================
