----------------------------- MODULE MCServices -----------------------------
(***************************************************************************)
(* Small instances of the components that stand by themselves, each with   *)
(* its own constants: a behaviour chooses one of them (`part') and runs it *)
(* while the others keep their initial state.  Fairness is that of the     *)
(* component's own Spec, for the part that runs.  Five of the components   *)
(* are extended, the other two instantiated.                               *)
(***************************************************************************)
EXTENDS StreamSupervisor, FailureEpisode, SchemaMigrations, BroadcastBus, PacketReader

CONSTANTS c1, c2, a1, u1   \* connections, their address, a UDP writer

VARIABLES part,
    \* MpscBus
    entry, receiver, filled, senders, pub, subs,
    \* PacketWriter
    writers, byIp, closed, ioCancel, writerToken, pc, prev, dismissed, inHand, wpc,
    target, notified, result, upc, writerUdp, cpc, sinks, abandons

----------------------------------------------------------------------------
(* The parts.                                                              *)

\* With a limit and growing pauses; with a multiplier below one; with a zero
\* initial pause, an f64 that overflows and a jitter that is clamped.
Limited == [max |-> 2, initial |-> 1, cap |-> 3, multiplier |-> 2, jitter |-> 50]
Flat == [max |-> None, initial |-> 2, cap |-> 5, multiplier |-> 0, jitter |-> 0]
Jittery == [max |-> None, initial |-> 0, cap |-> 3, multiplier |-> 2, jitter |-> 200]

MCPolicies == {Limited, Flat, Jittery}

\* Two subscribers of one type.
MCTypeOf == [s \in {1, 2} |-> 1]

\* Two types in one shard of the map.
Mpsc == INSTANCE MpscBus WITH
    Types <- {1, 2}, ShardOf <- [t \in {1, 2} |-> 1], Publishers <- {1, 2},
    Subscribers <- {3}, ChannelSize <- 1, Workers <- 2

\* Runner 3 knows the second migration by another name.
MCNameOf == [r \in 1..3 |-> [v \in 1..3 |-> IF r = 3 /\ v = 2 THEN "other" ELSE "name"]]

\* The first peer sends a frame longer than the buffer, the second one that only
\* just fits.
FrameSizes == <<6, 1, 4>>
Sent(frames) ==
    FlattenSeq([i \in 1..Len(frames) |-> [k \in 1..FrameSizes[frames[i]] |-> <<frames[i], k>>]])

WriterClose == INSTANCE PacketWriter WITH
    Conns <- {c1, c2}, Addrs <- {a1}, Ips <- {1}, AddrOf <- [c \in {c1, c2} |-> a1],
    IpOf <- [a \in {a1} |-> 1], Direct <- {c1}, Owned <- {c1}, Waiters <- {},
    UdpWriters <- {u1}, MaxAbandons <- 1, token <- writerToken, udp <- writerUdp

ASSUME ServicesAssumption ==
    /\ SupervisorAssumption /\ BroadcastAssumption
    /\ Mpsc!MpscAssumption /\ EpisodeAssumption
    /\ MigrationsAssumption
    /\ ReaderAssumption

----------------------------------------------------------------------------
Parts == {"supervisor", "broadcast", "mpsc", "episode", "migrations", "reader",
          "writer"}

\* What a part may start with is chosen for the part that runs only.
ServicesInit ==
    /\ part \in Parts
    /\ Init /\ (part = "supervisor" \/ policy = Flat)
    /\ BusInit /\ Mpsc!Init /\ EpisodeInit
    /\ MigrationsInit /\ (part = "migrations" \/ database = "sqlite")
    /\ WriterClose!Init
    /\ ReaderInit
    /\ frameLen = FrameSizes /\ arrived = <<Sent(<<1>>), Sent(<<3, 2>>)>>
    /\ fin \in {<<FALSE, TRUE>>, <<FALSE, part # "reader">>}
    /\ Streams

sv == vars
bv == busVars
mv == <<entry, receiver, filled, senders, pub, subs>>
ev == episodeVars
gv == migrationVars
rv == readerVars
wv == <<writers, byIp, closed, ioCancel, writerToken, pc, prev, dismissed, inHand, wpc,
        target, notified, result, upc, writerUdp, cpc, sinks, abandons>>

ServicesNext ==
    /\ UNCHANGED part
    /\ \/ part = "supervisor" /\ Next /\ UNCHANGED <<bv, mv, ev, gv, rv, wv>>
       \/ part = "broadcast" /\ BusNext /\ UNCHANGED <<sv, mv, ev, gv, rv, wv>>
       \/ part = "mpsc" /\ Mpsc!Next /\ UNCHANGED <<sv, bv, ev, gv, rv, wv>>
       \/ part = "episode" /\ EpisodeNext /\ UNCHANGED <<sv, bv, mv, gv, rv, wv>>
       \/ part = "migrations" /\ MigrationsNext /\ UNCHANGED <<sv, bv, mv, ev, rv, wv>>
       \/ part = "reader" /\ ReaderNext /\ UNCHANGED <<sv, bv, mv, ev, gv, wv>>
       \/ part = "writer" /\ WriterClose!Next /\ UNCHANGED <<sv, bv, mv, ev, gv, rv>>

ServicesFairness ==
    /\ WF_sv(part = "supervisor" /\ TaskNext)
    /\ WF_sv(part = "supervisor" /\ Joined)
    /\ WF_sv(part = "supervisor" /\ cancelled /\ (ConnectorReturns \/ ConnectorPanics))
    /\ \A p \in {1, 2} :
          /\ WF_mv(part = "mpsc" /\ (Mpsc!PublishAnswered(p) \/ Mpsc!PublishWaits(p)))
          /\ SF_mv(part = "mpsc" /\ Mpsc!PublishResumes(p))
    /\ \A t \in {1, 2} : SF_mv(part = "mpsc" /\ Mpsc!Recv(t))
    /\ WF_rv(part = "reader" /\ ListenerStops)
    /\ WF_rv(part = "reader" /\ UdpCancelled)
    /\ \A c \in {1, 2} : WF_rv(part = "reader" /\ ReadCancelled(c))
    /\ WF_wv(part = "writer" /\ WriterClose!CloseStep)
    /\ WF_wv(part = "writer" /\ WriterClose!UdpClosed(u1))

ServicesSpec ==
    /\ ServicesInit /\ [][ServicesNext]_<<part, sv, bv, mv, ev, gv, rv, wv>>
    /\ ServicesFairness

----------------------------------------------------------------------------
(* The properties of the instantiated components.                          *)

\* A publish that waits with a guard in its hands returns (mpsc.rs).
PublisherServed == Mpsc!PublisherServed

\* A PacketWriter::close that is not dropped ends, even while a UDP send hangs.
WriterCloseCompletes == WriterClose!CloseCompletes
=============================================================================
