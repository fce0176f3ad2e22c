------------------------------ MODULE TcpLink -------------------------------
(***************************************************************************)
(* The two ends of one TCP connection: the write side of TcpSink, and a    *)
(* peer that reads with handle_tcp of PacketReader.  The socket the sink   *)
(* writes to is the stream the reader gets, shut down by the one and seen  *)
(* as the end of the stream by the other.                                  *)
(***************************************************************************)
EXTENDS TcpSink, SequencesExt

CONSTANTS ReadMax, MaxBuf   \* of the reader

VARIABLES
    peerCancel,   \* the reader's token
    peer,         \* its connection's task
    peerTaken, peerBuffer, peerDispatched, peerAnnounced

readerVars == <<peerCancel, peer, peerTaken, peerBuffer, peerDispatched, peerAnnounced>>
linkVars == <<vars, readerVars>>

\* The splitter reads a packet's length in its prefix, or in a raw payload.
Reader == INSTANCE PacketReader WITH
    Conns <- {1}, frameLen <- [w \in Writers |-> PacketLen(w)],
    BackoffMin <- 1, BackoffMax <- 1, MaxDatagrams <- 0,
    arrived <- <<wire>>, fin <- <<fin>>, token <- peerCancel,
    listener <- "accepting", backoff <- 0, udp <- "stopped", datagrams <- 0,
    conn <- peer, taken <- peerTaken, buffer <- peerBuffer,
    dispatched <- peerDispatched, announced <- peerAnnounced

LinkInit ==
    /\ Init
    /\ peerCancel = FALSE /\ peer = <<"reading">>
    /\ peerTaken = <<0>> /\ peerBuffer = <<<<>>>>
    /\ peerDispatched = <<<<>>>> /\ peerAnnounced = <<<<>>>>

PeerReads == \E n \in 1..ReadMax : Reader!ReadSome(1, n)

PeerStep == UNCHANGED vars /\ Reader!ConnNext(1)

PeerCancels == UNCHANGED vars /\ Reader!Cancel

LinkNext ==
    \/ Next /\ UNCHANGED readerVars
    \/ PeerStep
    \/ PeerCancels

\* The sink's fairness, and a peer that keeps reading while it has not ended.
LinkSpec ==
    /\ LinkInit /\ [][LinkNext]_linkVars
    /\ Fairness
    /\ WF_linkVars(UNCHANGED vars /\ (PeerReads \/ Reader!ReadEof(1)))

----------------------------------------------------------------------------
(* Properties.                                                             *)

\* The packet a frame is, as seen from the caller that wrote it.
PacketOf(w) == Bytes(w, 1, PacketLen(w))

\* From the callers of one side to the dispatcher of the other, packets arrive
\* whole, at most once, and in the order they were put on the wire, whatever
\* the sink, the socket, the pieces the reader gets and the tokens do.  A
\* packet whose caller was told Err is not among them.  (A caller that drops
\* its future in the middle of a direct write breaks the stream.)
PacketsArriveWhole ==
    LET got == peerDispatched[1]
    IN  /\ TypeOK
        /\ FlattenSeq(got) \o peerBuffer[1] = SubSeq(wire, 1, peerTaken[1])
        /\ mode = "queued" \/ dropped = {} =>
              /\ FramesWhole
              /\ \A i \in 1..Len(got) : \E w \in Writers : got[i] = PacketOf(w) /\ result[w] # "err"
              /\ \A i, j \in 1..Len(got) : got[i] = got[j] => i = j

\* A packet that is on the wire reaches the dispatcher, or the peer has ended
\* its connection; in particular the peer does not wait for bytes it has.
SentIsDispatched ==
    \A w \in Writers :
        (Whole(w) /\ dropped = {}) ~>
            \/ peer[1] # "reading" \/ dropped # {}
            \/ \E i \in 1..Len(peerDispatched[1]) : peerDispatched[1][i] = PacketOf(w)
=============================================================================
