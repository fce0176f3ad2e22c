---------------------------- MODULE TcpLinkProofs ----------------------------
(***************************************************************************)
(* The two ends of a TCP connection, for any callers, lengths, queue, read *)
(* size and buffer limit.  First the write side by itself (TcpSink): what  *)
(* a caller is told is true, and packets keep together on the wire.  Then  *)
(* the link: what is on the wire reaches the peer's dispatcher as packets. *)
(*                                                                         *)
(* The invariant of the sink keeps every packet a block of the wire; all   *)
(* of it, or as far as it is written, and then it is in hand, or nothing   *)
(* follows it.  That of the link adds what the reader has taken, kept and  *)
(* dispatched of the wire.                                                 *)
(***************************************************************************)
EXTENDS TcpLink, SequenceLemmas, FiniteSetTheorems

Tokens == Writers \X Nat

\* The bytes that write_all_vectored_2 still has to write.
Remaining(slices) == slices[1] \o slices[2]

pending == Remaining(out)

Sent(w) == Cardinality(Positions(w))

\* The n bytes of w on the wire are its first ones, in a row that starts at f.
Block(w, f, n) ==
    /\ f + n - 1 <= Len(wire)
    /\ Positions(w) = f..(f + n - 1)
    /\ \A k \in 1..n : wire[f + k - 1] = <<w, k>>

\* The packet that is being written.
InHand(w) ==
    \/ mode = "direct" /\ holder = w
    \/ mode = "queued" /\ task = "writing" /\ pending # <<>> /\ pending[1][1] = w

SinkTypes ==
    /\ TypeOK
    /\ mode \in {"queued", "direct"} /\ encoder \in {"raw", "u16be"}
    /\ wire \in Seq(Tokens) /\ out \in Seq(Tokens) \X Seq(Tokens)
    /\ \A w \in Writers : Sent(w) \in 0..PacketLen(w)

\* Every packet is a block on the wire, as far as it is there.
Blocks == \A w \in Writers : \E f \in Nat \ {0} : Block(w, f, Sent(w))

AtEnd(w) == Block(w, Len(wire) - Sent(w) + 1, Sent(w))

\* What is left of the packet in hand continues the block at the end of the wire.
Continues(w) ==
    /\ AtEnd(w) /\ Sent(w) < PacketLen(w)
    /\ Len(pending) = PacketLen(w) - Sent(w)
    /\ \A k \in 1..Len(pending) : pending[k] = <<w, Sent(w) + k>>

HandContinues ==
    /\ \A w \in Writers : InHand(w) => Continues(w)
    /\ mode = "queued" /\ task = "writing" => \E w \in Writers : InHand(w)

\* Nothing will be written any more.
Broken ==
    \/ mode = "direct" /\ cancel /\ holder = None
    \/ mode = "queued" /\ task \notin {"select", "writing"}

\* A packet is cut short only while it is in hand, or at the end of everything.
CutAtEnd ==
    \A w \in Writers : Sent(w) > 0 /\ Sent(w) < PacketLen(w) =>
        InHand(w) \/ (Broken /\ AtEnd(w)) \/ (mode = "direct" /\ w \in dropped)

InQueue(w) == \E i \in 1..Len(queue) : queue[i] = w

\* What holds of a caller of a direct sink, and of a queued one.
DirectCall(w) ==
    /\ pc[w] \in {"idle", "lock", "poll", "writing", "over"}
    /\ pc[w] \in {"poll", "writing"} <=> holder = w
    /\ pc[w] \in {"idle", "lock"} => Sent(w) = 0
    /\ result[w] # "none" => pc[w] = "over"
    /\ result[w] = "ok" => Sent(w) = PacketLen(w)
    /\ result[w] = "err" => Sent(w) < PacketLen(w)

QueuedCall(w) ==
    /\ pc[w] \in {"idle", "send", "sending", "try", "over"}
    /\ result[w] # "none" => pc[w] = "over"
    /\ Sent(w) > 0 \/ InQueue(w) \/ InHand(w) => result[w] = "ok"
    /\ InQueue(w) => Sent(w) = 0 /\ ~InHand(w)
    /\ result[w] = "ok" =>
          Sent(w) = PacketLen(w) \/ cancel \/ task = "cancel" \/ InQueue(w) \/ InHand(w)

DirectCalls ==
    mode = "direct" =>
        /\ queue = <<>> /\ task = "over"
        /\ \A w \in Writers : DirectCall(w)

QueuedCalls ==
    mode = "queued" =>
        /\ holder = None
        /\ task \in {"shutdown", "over"} => cancel
        /\ \A i, j \in 1..Len(queue) : queue[i] = queue[j] => i = j
        /\ \A w \in Writers : QueuedCall(w)

SinkInv == SinkTypes /\ Blocks /\ HandContinues /\ CutAtEnd /\ DirectCalls /\ QueuedCalls

\* A packet is not empty.
LEMMA PacketLens ==
    ASSUME SinkAssumption, NEW w \in Writers
    PROVE  /\ PacketLen(w) \in Nat \ {0} /\ PayloadLen[w] \in Nat \ {0} /\ PrefixLen \in Nat
           /\ PacketLen(w) = PayloadLen[w] + (IF encoder = "raw" THEN 0 ELSE PrefixLen)
BY DEF SinkAssumption, PacketLen

\* The number of positions in a block.
LEMMA RunLength ==
    ASSUME NEW f \in Int, NEW n \in Nat
    PROVE  Cardinality(f..(f + n - 1)) = n
<1>1. f + n - 1 \in Int
  OBVIOUS
<1>2. Cardinality(f..(f + n - 1)) = IF f > f + n - 1 THEN 0 ELSE (f + n - 1) - f + 1
  BY <1>1, FS_Interval
<1> QED
  BY <1>2

\* A sequence without its first m elements.
LEMMA Cut ==
    ASSUME NEW S, NEW s \in Seq(S), NEW m \in Nat, m <= Len(s)
    PROVE  /\ Rest(s, m) \in Seq(S) /\ Len(Rest(s, m)) = Len(s) - m
           /\ \A k \in 1..(Len(s) - m) : Rest(s, m)[k] = s[m + k]
<1>1. Len(s) \in Nat /\ \A i \in 1..Len(s) : s[i] \in S
  BY LenProperties
<1>2. m + 1 \in Int /\ Len(s) \in Int /\ \A i \in (m + 1)..Len(s) : s[i] \in S
  BY <1>1
<1> DEFINE c == Rest(s, m)
<1>3. c = SubSeq(s, m + 1, Len(s))
  BY DEF Rest
<1> HIDE DEF c
<1>4. /\ c \in Seq(S)
      /\ Len(c) = IF m + 1 <= Len(s) THEN Len(s) - (m + 1) + 1 ELSE 0
      /\ \A i \in 1 .. Len(s) - (m + 1) + 1 : c[i] = s[(m + 1) + i - 1]
  BY <1>2, <1>3, SubSeqProperties
<1>5. Len(s) - (m + 1) + 1 = Len(s) - m /\ \A i \in Nat : (m + 1) + i - 1 = m + i
  BY <1>1
<1>6. Len(c) = Len(s) - m
  BY <1>1, <1>4
<1>7. ASSUME NEW k \in 1..(Len(s) - m) PROVE c[k] = s[m + k]
  <2>1. k \in Nat /\ k \in 1 .. Len(s) - (m + 1) + 1
    BY <1>1
  <2>2. (m + 1) + k - 1 = m + k
    BY <1>5, <2>1
  <2>3. c[k] = s[(m + 1) + k - 1]
    BY <1>4, <2>1
  <2> QED
    BY <2>2, <2>3
<1> QED
  BY <1>4, <1>6, <1>7 DEF c

\* The bytes m + 1 to m + n of a packet.
LEMMA BytesAre ==
    ASSUME NEW w \in Writers, NEW m \in Nat, NEW n \in Nat
    PROVE  /\ Bytes(w, m + 1, m + n) \in Seq(Tokens) /\ Len(Bytes(w, m + 1, m + n)) = n
           /\ \A k \in 1..n : Bytes(w, m + 1, m + n)[k] = <<w, m + k>>
<1> DEFINE b == Bytes(w, m + 1, m + n)
<1>1. (m + n) - (m + 1) + 1 = n
  OBVIOUS
<1>2. b = [k \in 1..n |-> <<w, (m + 1) + k - 1>>]
  BY <1>1 DEF Bytes
<1> HIDE DEF b
<1>3. \A k \in 1..n : (m + 1) + k - 1 = m + k /\ m + k \in Nat
  OBVIOUS
<1>4. \A k \in 1..n : <<w, (m + 1) + k - 1>> \in Tokens
  BY <1>3 DEF Tokens
<1>5. [k \in 1..n |-> <<w, (m + 1) + k - 1>>] \in Seq(Tokens)
  BY <1>4
<1>6. Len([k \in 1..n |-> <<w, (m + 1) + k - 1>>]) = n
  OBVIOUS
<1>7. ASSUME NEW k \in 1..n PROVE b[k] = <<w, m + k>>
  BY <1>2, <1>3
<1> QED
  BY <1>2, <1>5, <1>6, <1>7 DEF b

\* encode_tcp: the two slices are the packet.
LEMMA SlicesWhole ==
    ASSUME SinkAssumption, NEW w \in Writers
    PROVE  /\ Slices(w) \in Seq(Tokens) \X Seq(Tokens)
           /\ Remaining(Slices(w)) \in Seq(Tokens) /\ Len(Remaining(Slices(w))) = PacketLen(w)
           /\ \A k \in 1..PacketLen(w) : Remaining(Slices(w))[k] = <<w, k>>
<1> DEFINE s == Slices(w)
<1> HIDE DEF s
<1>0. /\ PacketLen(w) \in Nat \ {0} /\ PayloadLen[w] \in Nat \ {0} /\ PrefixLen \in Nat
      /\ PacketLen(w) = PayloadLen[w] + (IF encoder = "raw" THEN 0 ELSE PrefixLen)
  BY PacketLens
<1>1. CASE encoder = "raw"
  <2>1. PICK p : p = Bytes(w, 1, PayloadLen[w])
    OBVIOUS
  <2>2. 0 \in Nat /\ PayloadLen[w] \in Nat /\ p = Bytes(w, 0 + 1, 0 + PayloadLen[w])
    BY <1>0, <2>1
  <2>3. /\ p \in Seq(Tokens) /\ Len(p) = PayloadLen[w]
        /\ \A k \in 1..PayloadLen[w] : p[k] = <<w, 0 + k>>
    BY <2>2, BytesAre
  <2>4. s = <<p, <<>>>>
    BY <1>1, <2>1 DEF Slices, s
  <2>5. p \o <<>> = p /\ <<>> \in Seq(Tokens)
    BY <2>3, ConcatEmptySeq, EmptySeq
  <2>6. s[1] = p /\ s[2] = <<>> /\ PacketLen(w) = PayloadLen[w]
    BY <1>0, <1>1, <2>4
  <2>7. s \in Seq(Tokens) \X Seq(Tokens)
    BY <2>3, <2>4, <2>5
  <2>8. \A k \in 1..PayloadLen[w] : 0 + k = k
    BY <1>0
  <2> QED
    BY <2>3, <2>5, <2>6, <2>7, <2>8 DEF s, Remaining
<1>2. CASE encoder # "raw"
  <2>1. PICK a, b : a = Bytes(w, 1, PrefixLen) /\ b = Bytes(w, PrefixLen + 1, PacketLen(w))
    OBVIOUS
  <2>2. /\ PrefixLen \in Nat /\ PayloadLen[w] \in Nat
        /\ PacketLen(w) = PrefixLen + PayloadLen[w]
    BY <1>0, <1>2
  <2>a. 0 \in Nat /\ a = Bytes(w, 0 + 1, 0 + PrefixLen)
    BY <2>1, <2>2
  <2>b. b = Bytes(w, PrefixLen + 1, PrefixLen + PayloadLen[w])
    BY <2>1, <2>2
  <2>3. /\ a \in Seq(Tokens) /\ Len(a) = PrefixLen
        /\ \A k \in 1..PrefixLen : a[k] = <<w, 0 + k>>
    <3>1. PICK o \in Nat, p \in Nat : o = 0 /\ p = PrefixLen
      BY <2>2
    <3>2. /\ Bytes(w, o + 1, o + p) \in Seq(Tokens) /\ Len(Bytes(w, o + 1, o + p)) = p
          /\ \A k \in 1..p : Bytes(w, o + 1, o + p)[k] = <<w, o + k>>
      BY BytesAre
    <3> QED
      BY <2>a, <3>1, <3>2, Zenon
  <2>4. /\ b \in Seq(Tokens) /\ Len(b) = PayloadLen[w]
        /\ \A k \in 1..PayloadLen[w] : b[k] = <<w, PrefixLen + k>>
    <3>1. PICK m \in Nat, n \in Nat : m = PrefixLen /\ n = PayloadLen[w]
      BY <2>2
    <3>2. /\ Bytes(w, m + 1, m + n) \in Seq(Tokens) /\ Len(Bytes(w, m + 1, m + n)) = n
          /\ \A k \in 1..n : Bytes(w, m + 1, m + n)[k] = <<w, m + k>>
      BY BytesAre
    <3> QED
      BY <2>b, <3>1, <3>2
  <2>5. s = <<a, b>>
    BY <1>2, <2>1 DEF Slices, s
  <2>c. a \in Seq(Tokens) /\ b \in Seq(Tokens)
    BY <2>3, <2>4
  <2>6. /\ a \o b \in Seq(Tokens) /\ Len(a \o b) = Len(a) + Len(b)
        /\ \A k \in 1..Len(a) : (a \o b)[k] = a[k]
        /\ \A k \in 1..Len(b) : (a \o b)[Len(a) + k] = b[k]
    BY <2>c, Join
  <2>7. ASSUME NEW k \in 1..PacketLen(w) PROVE (a \o b)[k] = <<w, k>>
    <3>1. CASE k <= PrefixLen
      <4>1. k \in 1..PrefixLen /\ 0 + k = k
        BY <1>0, <3>1
      <4> QED
        BY <2>3, <2>6, <4>1
    <3>2. CASE k > PrefixLen
      <4>1. PICK i \in 1..PayloadLen[w] : k = PrefixLen + i
        <5>1. k - PrefixLen \in 1..PayloadLen[w] /\ k = PrefixLen + (k - PrefixLen)
          BY <1>0, <2>2, <3>2
        <5> QED
          BY <5>1
      <4> QED
        BY <2>3, <2>4, <2>6, <4>1
    <3>3. k <= PrefixLen \/ k > PrefixLen
      BY <1>0
    <3> QED
      BY <3>1, <3>2, <3>3
  <2>8. s[1] = a /\ s[2] = b /\ s \in Seq(Tokens) \X Seq(Tokens)
    BY <2>3, <2>4, <2>5
  <2> QED
    BY <2>2, <2>3, <2>4, <2>6, <2>7, <2>8 DEF s, Remaining
<1> QED
  BY <1>1, <1>2

\* write_all_vectored_2: what is left after n bytes is the packet without them.
WithoutFirst(r, a, b, n) ==
    /\ r \in Seq(Tokens) \X Seq(Tokens)
    /\ Len(Remaining(r)) = (Len(a) + Len(b)) - n
    /\ \A k \in 1..((Len(a) + Len(b)) - n) : Remaining(r)[k] = (a \o b)[n + k]

\* What write_all_vectored_2 has left after the socket took n bytes.
LEMMA Advanced ==
    ASSUME NEW a \in Seq(Tokens), NEW b \in Seq(Tokens), NEW n \in 1..(Len(a) + Len(b))
    PROVE  WithoutFirst(Advance(<<a, b>>, n), a, b, n)
<1> DEFINE r == Advance(<<a, b>>, n)
<1> HIDE DEF r
<1>0. /\ Len(a) \in Nat /\ Len(b) \in Nat
      /\ \A k \in 1..Len(a) : (a \o b)[k] = a[k]
      /\ \A k \in 1..Len(b) : (a \o b)[Len(a) + k] = b[k]
  BY Join
<1>00. n \in Nat /\ n >= 1 /\ n <= Len(a) + Len(b)
  BY <1>0
<1>1. CASE n < Len(a)
  <2>1. PICK c : c = Rest(a, n)
    OBVIOUS
  <2>2. n <= Len(a)
    BY <1>0, <1>00, <1>1
  <2>3. /\ c \in Seq(Tokens) /\ Len(c) = Len(a) - n
        /\ \A k \in 1..(Len(a) - n) : c[k] = a[n + k]
    BY <1>00, <2>1, <2>2, Cut
  <2>4. r = <<c, b>>
    BY <1>1, <2>1 DEF Advance, r
  <2>c. c \in Seq(Tokens)
    BY <2>3
  <2>5. /\ c \o b \in Seq(Tokens) /\ Len(c \o b) = Len(c) + Len(b)
        /\ \A k \in 1..Len(c) : (c \o b)[k] = c[k]
        /\ \A k \in 1..Len(b) : (c \o b)[Len(c) + k] = b[k]
    BY <2>c, Join
  <2>6. ASSUME NEW k \in 1..((Len(a) + Len(b)) - n) PROVE (c \o b)[k] = (a \o b)[n + k]
    <3>1. CASE k <= Len(a) - n
      <4>1. k \in 1..Len(c) /\ k \in 1..(Len(a) - n) /\ n + k \in 1..Len(a)
        BY <1>0, <1>00, <1>1, <2>3, <3>1
      <4> QED
        BY <1>0, <2>3, <2>5, <4>1
    <3>2. CASE k > Len(a) - n
      <4> DEFINE i == k - (Len(a) - n)
      <4>2. i \in 1..Len(b) /\ k = Len(c) + i /\ n + k = Len(a) + i
        BY <1>0, <1>00, <2>3, <3>2
      <4> HIDE DEF i
      <4> QED
        BY <1>0, <2>5, <4>2
    <3>3. k <= Len(a) - n \/ k > Len(a) - n
      BY <1>0, <1>00
    <3> QED
      BY <3>1, <3>2, <3>3
  <2>7. Len(c) + Len(b) = (Len(a) + Len(b)) - n
    BY <1>0, <1>00, <2>3
  <2>8. r[1] = c /\ r[2] = b /\ r \in Seq(Tokens) \X Seq(Tokens)
    BY <2>3, <2>4
  <2> QED
    BY <2>5, <2>6, <2>7, <2>8 DEF r, Remaining, WithoutFirst
<1>2. CASE n >= Len(a)
  <2>0. n - Len(a) \in Nat
    BY <1>0, <1>00, <1>2
  <2>1. PICK m \in Nat : m = n - Len(a)
    BY <2>0
  <2>2. PICK c : c = Rest(b, m)
    OBVIOUS
  <2>3. m <= Len(b)
    BY <1>0, <1>00, <2>1
  <2>4. /\ c \in Seq(Tokens) /\ Len(c) = Len(b) - m
        /\ \A k \in 1..(Len(b) - m) : c[k] = b[m + k]
    BY <2>2, <2>3, Cut
  <2>5. ~(n < Len(a))
    BY <1>0, <1>00, <1>2
  <2>6. r = <<<<>>, c>>
    BY <2>1, <2>2, <2>5 DEF Advance, r
  <2>7. <<>> \o c = c /\ <<>> \in Seq(Tokens)
    BY <2>4, ConcatEmptySeq, EmptySeq
  <2>8. Len(b) - m = (Len(a) + Len(b)) - n
    BY <1>0, <1>00, <2>1
  <2>9. ASSUME NEW k \in 1..(Len(b) - m) PROVE c[k] = (a \o b)[n + k]
    <3>1. m + k \in 1..Len(b) /\ n + k = Len(a) + (m + k)
      BY <1>0, <1>00, <2>1
    <3> QED
      BY <1>0, <2>4, <3>1
  <2>10. r[1] = <<>> /\ r[2] = c /\ r \in Seq(Tokens) \X Seq(Tokens)
    BY <2>4, <2>6, <2>7
  <2> QED
    BY <2>4, <2>7, <2>8, <2>9, <2>10 DEF r, Remaining, WithoutFirst
<1>3. n < Len(a) \/ n >= Len(a)
  BY <1>0, <1>00
<1> QED
  BY <1>1, <1>2, <1>3


----------------------------------------------------------------------------
(* The wire.                                                               *)

Still == UNCHANGED <<mode, encoder, wire, out>>

\* While the wire stays, so does what is counted on it.
LEMMA WireStays ==
    ASSUME wire' = wire, encoder' = encoder, NEW w \in Writers
    PROVE  /\ Positions(w)' = Positions(w) /\ Sent(w)' = Sent(w)
           /\ PacketLen(w)' = PacketLen(w)
           /\ AtEnd(w) <=> AtEnd(w)'
           /\ \A f, n : Block(w, f, n) <=> Block(w, f, n)'
BY DEF Positions, Sent, PacketLen, AtEnd, Block

\* A step that neither writes nor takes a packet in hand.
LEMMA StillKept ==
    ASSUME SinkInv, Still,
           \A w \in Writers : InHand(w)' => InHand(w),
           mode = "queued" /\ task' = "writing" => task = "writing",
           \A w \in Writers :
               InHand(w) => InHand(w)' \/ Broken' \/ (mode = "direct" /\ w \in dropped'),
           Broken => Broken', dropped \subseteq dropped'
    PROVE  Blocks' /\ HandContinues' /\ CutAtEnd'
<1>0. mode' = mode /\ encoder' = encoder /\ wire' = wire /\ out' = out /\ pending' = pending
  BY DEF Still, pending
<1>1. ASSUME NEW w \in Writers
      PROVE  /\ Sent(w)' = Sent(w) /\ PacketLen(w)' = PacketLen(w)
             /\ AtEnd(w) <=> AtEnd(w)'
             /\ \A f, n : Block(w, f, n) <=> Block(w, f, n)'
  BY <1>0, WireStays
<1>2. Blocks'
  BY <1>1 DEF SinkInv, Blocks
<1>3. ASSUME NEW w \in Writers, InHand(w)' PROVE Continues(w)'
  <2>1. Continues(w)
    BY <1>3 DEF SinkInv, HandContinues
  <2> QED
    BY <1>0, <1>1, <2>1 DEF Continues
<1>4. ASSUME mode' = "queued", task' = "writing"
      PROVE  \E w \in Writers : InHand(w)'
  <2>1. PICK w \in Writers : InHand(w)
    BY <1>0, <1>4 DEF SinkInv, HandContinues
  <2>2. InHand(w)'
    BY <1>0, <1>4, <2>1 DEF InHand
  <2> QED
    BY <2>2
<1>5. HandContinues'
  BY <1>3, <1>4 DEF HandContinues
<1>6. CutAtEnd'
  <2> SUFFICES ASSUME NEW w \in Writers, Sent(w)' > 0, Sent(w)' < PacketLen(w)'
               PROVE  InHand(w)' \/ (Broken' /\ AtEnd(w)') \/ (mode' = "direct" /\ w \in dropped')
    BY DEF CutAtEnd
  <2>1. InHand(w) \/ (Broken /\ AtEnd(w)) \/ (mode = "direct" /\ w \in dropped)
    BY <1>1 DEF SinkInv, CutAtEnd
  <2>2. InHand(w) => AtEnd(w)
    BY DEF SinkInv, HandContinues, Continues
  <2> QED
    BY <1>0, <1>1, <2>1, <2>2
<1> QED
  BY <1>2, <1>5, <1>6

\* The socket takes n bytes of what is left.
Taken(n) ==
    /\ wire \in Seq(Tokens) /\ out \in Seq(Tokens) \X Seq(Tokens)
    /\ n \in 1..Left(out) /\ SocketTakes(n)

\* What the socket takes is the beginning of what is pending.
LEMMA Takes ==
    ASSUME NEW n, Taken(n)
    PROVE  /\ Left(out) = Len(pending) /\ Len(pending) \in Nat /\ Len(wire) \in Nat
           /\ out' \in Seq(Tokens) \X Seq(Tokens) /\ wire' \in Seq(Tokens)
           /\ Len(wire') = Len(wire) + n
           /\ \A i \in 1..Len(wire) : wire'[i] = wire[i]
           /\ \A k \in 1..n : wire'[Len(wire) + k] = pending[k]
           /\ Len(pending') = Len(pending) - n
           /\ \A k \in 1..(Len(pending) - n) : pending'[k] = pending[n + k]
<1>1. PICK a \in Seq(Tokens), b \in Seq(Tokens) : out = <<a, b>>
  BY DEF Taken
<1>2. pending = a \o b /\ Left(out) = Len(a) + Len(b)
  BY <1>1 DEF pending, Remaining, Left
<1>3. a \o b \in Seq(Tokens) /\ Len(a \o b) = Len(a) + Len(b) /\ Len(a) \in Nat /\ Len(b) \in Nat
  BY Join
<1>4. n \in 1..(Len(a) + Len(b)) /\ n \in Nat /\ n <= Len(pending)
  BY <1>2, <1>3 DEF Taken
<1>5. out' = Advance(<<a, b>>, n) /\ wire' = wire \o SubSeq(pending, 1, n)
  BY <1>1 DEF Taken, SocketTakes, pending, Remaining
<1>6. /\ out' \in Seq(Tokens) \X Seq(Tokens)
      /\ Len(pending') = (Len(a) + Len(b)) - n
      /\ \A k \in 1..((Len(a) + Len(b)) - n) : pending'[k] = (a \o b)[n + k]
  <2>1. n \in 1..(Len(a) + Len(b))
    BY <1>4
  <2>2. WithoutFirst(Advance(<<a, b>>, n), a, b, n)
    BY <2>1, Advanced
  <2>3. /\ Advance(<<a, b>>, n) \in Seq(Tokens) \X Seq(Tokens)
        /\ Len(Remaining(Advance(<<a, b>>, n))) = (Len(a) + Len(b)) - n
        /\ \A k \in 1..((Len(a) + Len(b)) - n) :
              Remaining(Advance(<<a, b>>, n))[k] = (a \o b)[n + k]
    BY <2>2 DEF WithoutFirst
  <2> QED
    BY <1>5, <2>3 DEF pending
<1> DEFINE t == SubSeq(pending, 1, n)
<1>7. \A i \in 1..n : pending[i] \in Tokens
  BY <1>2, <1>3, <1>4, ElementOfSeq
<1>8. t \in Seq(Tokens) /\ Len(t) = n /\ \A i \in 1..n : t[i] = pending[i]
  <2>1. /\ t \in Seq(Tokens) /\ Len(t) = IF 1 <= n THEN n - 1 + 1 ELSE 0
        /\ \A i \in 1 .. n - 1 + 1 : t[i] = pending[1 + i - 1]
    BY <1>4, <1>7, SubSeqProperties
  <2> HIDE DEF t
  <2>2. Len(t) = n
    BY <1>4, <2>1
  <2>3. ASSUME NEW i \in 1..n PROVE t[i] = pending[i]
    <3>1. i \in 1 .. n - 1 + 1 /\ 1 + i - 1 = i
      BY <1>4
    <3> QED
      BY <2>1, <3>1
  <2> QED
    BY <2>1, <2>2, <2>3
<1> HIDE DEF t
<1>9. t \in Seq(Tokens) /\ wire \in Seq(Tokens)
  BY <1>8 DEF Taken
<1>10. /\ wire \o t \in Seq(Tokens) /\ Len(wire \o t) = Len(wire) + Len(t) /\ Len(wire) \in Nat
       /\ \A k \in 1..Len(wire) : (wire \o t)[k] = wire[k]
       /\ \A k \in 1..Len(t) : (wire \o t)[Len(wire) + k] = t[k]
  BY <1>9, Join
<1>11. wire' = wire \o t
  BY <1>5 DEF t
<1>12. /\ wire' \in Seq(Tokens) /\ Len(wire') = Len(wire) + n
       /\ \A i \in 1..Len(wire) : wire'[i] = wire[i]
       /\ \A k \in 1..n : wire'[Len(wire) + k] = pending[k]
  BY <1>8, <1>10, <1>11
<1>13. /\ Len(pending') = Len(pending) - n
       /\ \A k \in 1..(Len(pending) - n) : pending'[k] = pending[n + k]
  BY <1>2, <1>3, <1>6
<1>14. Left(out) = Len(pending) /\ Len(pending) \in Nat /\ Len(wire) \in Nat
  BY <1>2, <1>3, <1>10
<1> QED
  BY <1>6, <1>12, <1>13, <1>14

\* The n bytes that come are the next ones of c.
Grown(c, n) ==
    /\ wire \in Seq(Tokens) /\ wire' \in Seq(Tokens)
    /\ Len(wire') = Len(wire) + n /\ \A i \in 1..Len(wire) : wire'[i] = wire[i]
    /\ \A k \in 1..n : wire'[Len(wire) + k] = <<c, Sent(c) + k>>

\* How the positions on the wire grow when the socket takes n bytes.
LEMMA WireGrows ==
    ASSUME NEW c \in Writers, NEW n \in Nat \ {0}, Grown(c, n), AtEnd(c), Sent(c) \in Nat
    PROVE  /\ Sent(c)' = Sent(c) + n /\ AtEnd(c)'
           /\ \E f \in Nat \ {0} : Block(c, f, Sent(c))'
           /\ \A w \in Writers \ {c} : /\ Positions(w)' = Positions(w) /\ Sent(w)' = Sent(w)
                                       /\ \A f, m \in Int : Block(w, f, m) => Block(w, f, m)'
<1>1. PICK len \in Nat : len = Len(wire)
  BY LenProperties DEF Grown
<1>2. PICK s \in Nat : s = Sent(c)
  OBVIOUS
<1>a. /\ Len(wire') = len + n /\ \A i \in 1..len : wire'[i] = wire[i]
      /\ \A k \in 1..n : wire'[len + k] = <<c, s + k>>
  BY <1>1, <1>2 DEF Grown
<1>3. PICK f \in Int : f = (len - s) + 1
  OBVIOUS
<1>4. Positions(c) = f..(f + s - 1) /\ \A k \in 1..s : wire[f + k - 1] = <<c, k>>
  BY <1>1, <1>2, <1>3 DEF AtEnd, Block
<1>5. f + s - 1 = len
  BY <1>3
<1>6. f \in Nat \ {0}
  <2>1. CASE s = 0
    BY <1>3, <2>1
  <2>2. CASE s > 0
    <3>1. f \in f..(f + s - 1)
      BY <2>2
    <3>2. f \in Positions(c)
      BY <1>4, <3>1
    <3> QED
      BY <1>1, <3>2 DEF Positions
  <2> QED
    BY <2>1, <2>2
<1>7. /\ \A i \in 1..(len + n) : i \in 1..len \/ \E k \in 1..n : i = len + k
      /\ \A k \in 1..n : len + k \in 1..(len + n)
      /\ \A i \in 1..len : i \in 1..(len + n)
  <2>1. ASSUME NEW i \in 1..(len + n), i \notin 1..len PROVE \E k \in 1..n : i = len + k
    <3>1. i - len \in 1..n /\ i = len + (i - len)
      BY <2>1
    <3> QED
      BY <3>1
  <2> QED
    BY <2>1
<1>8. \A k \in 1..n : wire'[len + k][1] = c
  BY <1>a
<1>9. /\ \A w : Positions(w) = {i \in 1..len : wire[i][1] = w}
      /\ \A w : Positions(w)' = {i \in 1..(len + n) : wire'[i][1] = w}
  BY <1>1, <1>a DEF Positions
<1>10. ASSUME NEW w \in Writers, w # c PROVE Positions(w)' = Positions(w)
  <2>1. ASSUME NEW i \in 1..(len + n), wire'[i][1] = w PROVE i \in 1..len /\ wire[i][1] = w
    BY <1>7, <1>8, <1>10, <1>a, <2>1
  <2>2. ASSUME NEW i \in 1..len, wire[i][1] = w PROVE i \in 1..(len + n) /\ wire'[i][1] = w
    BY <1>7, <1>a, <2>2
  <2> QED
    BY <1>9, <2>1, <2>2
<1>11. Positions(c)' = Positions(c) \cup (len + 1)..(len + n)
  <2>1. ASSUME NEW i \in 1..(len + n), wire'[i][1] = c
        PROVE  (i \in 1..len /\ wire[i][1] = c) \/ i \in (len + 1)..(len + n)
    <3>1. i \in 1..len \/ i \in (len + 1)..(len + n)
      OBVIOUS
    <3> QED
      BY <1>a, <2>1, <3>1
  <2>2. ASSUME NEW i \in 1..len, wire[i][1] = c PROVE i \in 1..(len + n) /\ wire'[i][1] = c
    BY <1>7, <1>a, <2>2
  <2>3. ASSUME NEW i \in (len + 1)..(len + n) PROVE i \in 1..(len + n) /\ wire'[i][1] = c
    <3>1. i \in 1..(len + n) /\ i \notin 1..len
      OBVIOUS
    <3> QED
      BY <1>7, <1>8, <3>1
  <2> QED
    BY <1>9, <2>1, <2>2, <2>3
<1>12. Positions(c)' = f..(f + (s + n) - 1)
  <2>1. f..len \cup (len + 1)..(len + n) = f..(len + n)
    BY <1>3, <1>6
  <2>2. f + (s + n) - 1 = len + n
    BY <1>3
  <2> QED
    BY <1>4, <1>5, <1>11, <2>1, <2>2
<1>13. Cardinality(f..(f + (s + n) - 1)) = s + n
  <2>1. s + n \in Nat
    OBVIOUS
  <2> QED
    BY <2>1, RunLength
<1>14. Sent(c)' = s + n
  BY <1>12, <1>13 DEF Sent
<1>15. ASSUME NEW k \in 1..(s + n) PROVE wire'[f + k - 1] = <<c, k>>
  <2>1. CASE k <= s
    <3>1. k \in 1..s
      BY <2>1
    <3>2. f + k - 1 \in 1..len
      BY <1>3, <1>6, <2>1
    <3> QED
      BY <1>4, <1>a, <3>1, <3>2
  <2>2. CASE k > s
    <3>1. k - s \in 1..n /\ f + k - 1 = len + (k - s) /\ s + (k - s) = k
      BY <1>3, <2>2
    <3>2. wire'[len + (k - s)] = <<c, s + (k - s)>>
      BY <1>a, <3>1
    <3> QED
      BY <3>1, <3>2
  <2>3. k <= s \/ k > s
    OBVIOUS
  <2> QED
    BY <2>1, <2>2, <2>3
<1>16. f + (s + n) - 1 <= Len(wire')
  BY <1>3, <1>a
<1>17. Block(c, f, s + n)'
  BY <1>12, <1>15, <1>16 DEF Block
<1>18. (Len(wire') - (s + n)) + 1 = f
  BY <1>3, <1>a
<1>19. AtEnd(c)'
  BY <1>14, <1>17, <1>18 DEF AtEnd
<1>20. ASSUME NEW w \in Writers, w # c, NEW g \in Int, NEW m \in Int, Block(w, g, m)
       PROVE  Block(w, g, m)'
  <2>1. /\ g + m - 1 <= Len(wire) /\ Positions(w) = g..(g + m - 1)
        /\ \A k \in 1..m : wire[g + k - 1] = <<w, k>>
    BY <1>20 DEF Block
  <2>2. ASSUME NEW k \in 1..m PROVE wire'[g + k - 1] = <<w, k>>
    <3>1. g + k - 1 \in Positions(w)
      BY <2>1
    <3>2. g + k - 1 \in 1..len
      BY <1>1, <3>1 DEF Positions
    <3> QED
      BY <1>a, <2>1, <3>2
  <2>3. g + m - 1 <= Len(wire')
    BY <1>1, <1>a, <2>1
  <2> QED
    BY <1>10, <1>20, <2>1, <2>2, <2>3 DEF Block
<1>21. ASSUME NEW w \in Writers \ {c}
       PROVE  /\ Positions(w)' = Positions(w) /\ Sent(w)' = Sent(w)
              /\ \A g, m \in Int : Block(w, g, m) => Block(w, g, m)'
  BY <1>10, <1>20 DEF Sent
<1>22. \E g \in Nat \ {0} : Block(c, g, Sent(c))'
  BY <1>6, <1>14, <1>17
<1> QED
  BY <1>2, <1>14, <1>19, <1>21, <1>22

\* Some bytes of the packet in hand are written.
LEMMA HandWrites ==
    ASSUME SinkAssumption, SinkInv, NEW c \in Writers, InHand(c), NEW n, n \in 1..Left(out),
           SocketTakes(n), encoder' = encoder
    PROVE  /\ wire' \in Seq(Tokens) /\ out' \in Seq(Tokens) \X Seq(Tokens)
           /\ \A w \in Writers : Sent(w)' \in 0..PacketLen(w)'
           /\ \A w \in Writers : PacketLen(w)' = PacketLen(w)
           /\ \A w \in Writers \ {c} : Sent(w)' = Sent(w)
           /\ n = Left(out) => Sent(c)' = PacketLen(c)
           /\ n < Left(out) => Sent(c)' < PacketLen(c)
           /\ Sent(c)' > 0 /\ Blocks'
           /\ n < Left(out) => Continues(c)' /\ pending' # <<>> /\ pending'[1][1] = c
<1>1. Continues(c)
  BY DEF SinkInv, HandContinues
<1>2. /\ AtEnd(c) /\ Sent(c) < PacketLen(c) /\ Len(pending) = PacketLen(c) - Sent(c)
      /\ \A k \in 1..Len(pending) : pending[k] = <<c, Sent(c) + k>>
  BY <1>1 DEF Continues
<1>3. /\ wire \in Seq(Tokens) /\ out \in Seq(Tokens) \X Seq(Tokens)
      /\ \A w \in Writers : Sent(w) \in 0..PacketLen(w)
  BY DEF SinkInv, SinkTypes
<1>4. \A w \in Writers : PacketLen(w) \in Nat \ {0}
  BY PacketLens
<1>5. \A w \in Writers : PacketLen(w)' = PacketLen(w)
  BY DEF PacketLen
<1>6. Taken(n)
  BY <1>3 DEF Taken
<1>7. /\ Left(out) = Len(pending) /\ Len(pending) \in Nat /\ Len(wire) \in Nat
      /\ out' \in Seq(Tokens) \X Seq(Tokens) /\ wire' \in Seq(Tokens)
      /\ Len(wire') = Len(wire) + n
      /\ \A i \in 1..Len(wire) : wire'[i] = wire[i]
      /\ \A k \in 1..n : wire'[Len(wire) + k] = pending[k]
      /\ Len(pending') = Len(pending) - n
      /\ \A k \in 1..(Len(pending) - n) : pending'[k] = pending[n + k]
  BY <1>6, Takes
<1>8. n \in Nat \ {0} /\ n <= Len(pending)
  BY <1>7
<1>9. PICK s \in Nat : s = Sent(c)
  BY <1>3, <1>4
<1>10. PICK p \in Nat : p = PacketLen(c)
  BY <1>4
<1>11. \A k \in 1..n : k \in 1..Len(pending)
  BY <1>7, <1>8
<1>12. Grown(c, n)
  BY <1>2, <1>3, <1>7, <1>11 DEF Grown
<1>13. /\ Sent(c)' = Sent(c) + n /\ AtEnd(c)'
       /\ \E f \in Nat \ {0} : Block(c, f, Sent(c))'
       /\ \A w \in Writers \ {c} : /\ Positions(w)' = Positions(w) /\ Sent(w)' = Sent(w)
                                   /\ \A f, m \in Int : Block(w, f, m) => Block(w, f, m)'
  BY <1>2, <1>8, <1>9, <1>12, WireGrows
<1>14. Blocks'
  <2> SUFFICES ASSUME NEW w \in Writers PROVE \E f \in Nat \ {0} : Block(w, f, Sent(w))'
    BY DEF Blocks
  <2>1. CASE w = c
    BY <1>13, <2>1
  <2>2. CASE w # c
    <3>1. PICK f \in Nat \ {0} : Block(w, f, Sent(w))
      BY DEF SinkInv, Blocks
    <3>2. f \in Int /\ Sent(w) \in Int
      BY <1>3, <1>4
    <3>3. PICK m \in Int : m = Sent(w)
      BY <3>2
    <3>4. Block(w, f, m)' /\ Sent(w)' = m
      BY <1>13, <2>2, <3>1, <3>2, <3>3
    <3>5. Block(w, f, Sent(w))'
      BY <3>4 DEF Block
    <3> QED
      BY <3>5
  <2> QED
    BY <2>1, <2>2
<1>15. s + n <= p /\ s + n > 0 /\ Len(pending) = p - s
  <2>1. Len(pending) = p - s
    BY <1>2, <1>9, <1>10
  <2> QED
    BY <1>8, <2>1
<1>16. Sent(c)' = s + n /\ PacketLen(c)' = p
  BY <1>5, <1>9, <1>10, <1>13
<1>17. ASSUME NEW w \in Writers PROVE Sent(w)' \in 0..PacketLen(w)'
  <2>1. CASE w = c
    BY <1>8, <1>15, <1>16, <2>1
  <2>2. CASE w # c
    BY <1>3, <1>5, <1>13, <2>2
  <2> QED
    BY <2>1, <2>2
<1>18. ASSUME n < Left(out)
       PROVE  Continues(c)' /\ pending' # <<>> /\ pending'[1][1] = c /\ s + n < p
  <2>0. Left(out) = p - s
    BY <1>7, <1>15
  <2>1. s + n < p /\ Len(pending') = p - (s + n) /\ Len(pending') \in Nat \ {0}
    BY <1>7, <1>8, <1>15, <1>18, <2>0
  <2>2. ASSUME NEW k \in 1..Len(pending') PROVE pending'[k] = <<c, (s + n) + k>>
    <3>1. k \in 1..(Len(pending) - n) /\ n + k \in 1..Len(pending) /\ s + (n + k) = (s + n) + k
      BY <1>7, <1>8, <1>15, <2>1
    <3>2. pending'[k] = pending[n + k]
      BY <1>7, <3>1
    <3>3. pending[n + k] = <<c, s + (n + k)>>
      BY <1>2, <1>9, <3>1
    <3> QED
      BY <3>1, <3>2, <3>3
  <2>3. Continues(c)'
    BY <1>13, <1>16, <2>1, <2>2 DEF Continues
  <2>4. 1 \in 1..Len(pending')
    BY <2>1
  <2>5. pending'[1][1] = c
    BY <2>2, <2>4
  <2>6. pending' # <<>>
    BY <2>1
  <2> QED
    BY <2>1, <2>3, <2>5, <2>6
<1>19. n = Left(out) => s + n = p
  BY <1>7, <1>15
<1> QED
  BY <1>5, <1>7, <1>10, <1>13, <1>14, <1>15, <1>16, <1>17, <1>18, <1>19

----------------------------------------------------------------------------
(* The steps.                                                              *)

\* A caller that goes on.
LEMMA Moves ==
    ASSUME TypeOK, NEW w \in Writers, NEW where \in CallSteps, GoOn(w, where)
    PROVE  /\ pc' \in [Writers -> CallSteps] /\ result' = result
           /\ pc'[w] = where /\ \A v \in Writers \ {w} : pc'[v] = pc[v]
BY DEF TypeOK, GoOn

\* A caller that returns.
LEMMA Returns ==
    ASSUME TypeOK, NEW w \in Writers, NEW what \in {"none", "ok", "err"}, Return(w, what)
    PROVE  /\ pc' \in [Writers -> CallSteps] /\ result' \in [Writers -> {"none", "ok", "err"}]
           /\ pc'[w] = "over" /\ \A v \in Writers \ {w} : pc'[v] = pc[v]
           /\ result'[w] = what /\ \A v \in Writers \ {w} : result'[v] = result[v]
BY DEF TypeOK, Return, CallSteps

\* What the steps of one caller, or of the token, leave as it is.
Apart == UNCHANGED <<queue, holder, task, dropped>>

\* The packets, where neither the wire nor what is left of a packet changes hands.
LEMMA ApartKept ==
    ASSUME SinkInv, Still, Apart, cancel => cancel'
    PROVE  /\ Blocks' /\ HandContinues' /\ CutAtEnd'
           /\ \A w \in Writers : /\ Sent(w)' = Sent(w) /\ PacketLen(w)' = PacketLen(w)
                                 /\ InHand(w)' <=> InHand(w)
                                 /\ InQueue(w)' <=> InQueue(w)
<1>1. \A w \in Writers : (InHand(w)' <=> InHand(w)) /\ (InQueue(w)' <=> InQueue(w))
  BY DEF Still, Apart, InHand, InQueue, pending
<1>2. Broken => Broken'
  BY DEF Still, Apart, Broken
<1>3. Blocks' /\ HandContinues' /\ CutAtEnd'
  BY <1>1, <1>2, StillKept DEF Apart
<1>4. \A w \in Writers : Sent(w)' = Sent(w) /\ PacketLen(w)' = PacketLen(w)
  BY WireStays DEF Still
<1> QED
  BY <1>1, <1>3, <1>4

\* A caller goes on, or is refused, without touching what is shared.
LEMMA CallerMoves ==
    ASSUME SinkAssumption, SinkInv, NEW w \in Writers, Still, Apart, cancel' = cancel, fin' = fin,
           shut' = shut, pc' \in [Writers -> CallSteps],
           result' \in [Writers -> {"none", "ok", "err"}],
           \A v \in Writers \ {w} : pc'[v] = pc[v] /\ result'[v] = result[v],
           pc[w] # "over",
           \/ /\ result'[w] = result[w]
              /\ mode = "direct" =>
                    \/ pc[w] \in {"idle", "lock"} /\ pc'[w] = "lock"
                    \/ pc[w] \in {"poll", "writing"} /\ pc'[w] \in {"poll", "writing"}
              /\ mode = "queued" => pc'[w] \in {"send", "sending", "try"}
           \/ /\ result'[w] = "err" /\ pc'[w] = "over"
              /\ mode = "direct" => pc[w] \in {"idle", "lock"}
    PROVE  SinkInv'
<1>1. /\ Blocks' /\ HandContinues' /\ CutAtEnd'
      /\ \A v \in Writers : /\ Sent(v)' = Sent(v) /\ PacketLen(v)' = PacketLen(v)
                            /\ InHand(v)' <=> InHand(v)
                            /\ InQueue(v)' <=> InQueue(v)
  BY ApartKept
<1>2. SinkTypes'
  <2>1. TypeOK'
    BY DEF SinkInv, SinkTypes, TypeOK, Apart, Capacity
  <2> QED
    BY <1>1, <2>1 DEF SinkInv, SinkTypes, Still
<1>3. \A v \in Writers : Sent(v) \in 0..PacketLen(v) /\ PacketLen(v) \in Nat \ {0}
  BY PacketLens DEF SinkInv, SinkTypes
<1>4. ASSUME mode = "direct" PROVE DirectCalls'
  <2>1. queue' = <<>> /\ task' = "over"
    BY <1>4 DEF SinkInv, DirectCalls, Apart
  <2>2. ASSUME NEW v \in Writers PROVE DirectCall(v)'
    <3>1. DirectCall(v)
      BY <1>4 DEF SinkInv, DirectCalls
    <3>2. CASE v = w
      BY <1>1, <1>3, <1>4, <3>1, <3>2 DEF DirectCall, Apart
    <3>3. CASE v # w
      BY <1>1, <3>1, <3>3 DEF DirectCall, Apart
    <3> QED
      BY <3>2, <3>3
  <2> QED
    BY <2>1, <2>2 DEF DirectCalls
<1>5. ASSUME mode = "queued" PROVE QueuedCalls'
  <2>1. /\ holder' = None
        /\ task' \in {"shutdown", "over"} => cancel'
        /\ \A i, j \in 1..Len(queue') : queue'[i] = queue'[j] => i = j
    BY <1>5 DEF SinkInv, QueuedCalls, Apart
  <2>2. ASSUME NEW v \in Writers PROVE QueuedCall(v)'
    <3>1. QueuedCall(v)
      BY <1>5 DEF SinkInv, QueuedCalls
    <3>2. CASE v = w
      BY <1>1, <1>5, <3>1, <3>2 DEF QueuedCall, Apart
    <3>3. CASE v # w
      BY <1>1, <3>1, <3>3 DEF QueuedCall, Apart
    <3> QED
      BY <3>2, <3>3
  <2> QED
    BY <2>1, <2>2 DEF QueuedCalls
<1> QED
  BY <1>1, <1>2, <1>4, <1>5 DEF SinkInv, DirectCalls, QueuedCalls, Still

\* Where a caller may stand.
LEMMA ModeOf ==
    ASSUME SinkInv, NEW w \in Writers
    PROVE  /\ mode = "direct" \/ mode = "queued"
           /\ mode = "direct" => pc[w] \in {"idle", "lock", "poll", "writing", "over"}
           /\ mode = "queued" => pc[w] \in {"idle", "send", "sending", "try", "over"}
           /\ TypeOK
BY DEF SinkInv, SinkTypes, DirectCalls, DirectCall, QueuedCalls, QueuedCall

Direct(w, where) ==
    \/ pc[w] \in {"idle", "lock"} /\ where = "lock"
    \/ pc[w] \in {"poll", "writing"} /\ where \in {"poll", "writing"}

Easy(w) ==
    /\ Still /\ Apart /\ UNCHANGED <<cancel, fin, shut>> /\ pc[w] # "over"
    /\ \/ Return(w, "err") /\ (mode = "direct" => pc[w] \in {"idle", "lock"})
       \/ \E where \in CallSteps :
             /\ GoOn(w, where)
             /\ mode = "direct" => Direct(w, where)
             /\ mode = "queued" => where \in {"send", "sending", "try"}

\* Steps of a caller that leave the wire and the packet in hand alone.
LEMMA EasyMoves ==
    ASSUME SinkAssumption, SinkInv, NEW w \in Writers, Easy(w)
    PROVE  SinkInv'
<1>0. TypeOK
  BY ModeOf
<1>1. Still /\ Apart /\ cancel' = cancel /\ fin' = fin /\ shut' = shut /\ pc[w] # "over"
  BY DEF Easy
<1>2. CASE Return(w, "err") /\ (mode = "direct" => pc[w] \in {"idle", "lock"})
  <2>1. /\ pc' \in [Writers -> CallSteps] /\ result' \in [Writers -> {"none", "ok", "err"}]
        /\ pc'[w] = "over" /\ \A v \in Writers \ {w} : pc'[v] = pc[v]
        /\ result'[w] = "err" /\ \A v \in Writers \ {w} : result'[v] = result[v]
    BY <1>0, <1>2, Returns
  <2> QED
    BY <1>1, <1>2, <2>1, CallerMoves
<1>3. ASSUME NEW where \in CallSteps, GoOn(w, where), mode = "direct" => Direct(w, where),
             mode = "queued" => where \in {"send", "sending", "try"}
      PROVE  SinkInv'
  <2>1. /\ pc' \in [Writers -> CallSteps] /\ result' = result
        /\ pc'[w] = where /\ \A v \in Writers \ {w} : pc'[v] = pc[v]
    BY <1>0, <1>3, Moves
  <2>2. result' \in [Writers -> {"none", "ok", "err"}]
    BY <1>0, <2>1 DEF TypeOK
  <2>3. mode = "direct" => \/ pc[w] \in {"idle", "lock"} /\ pc'[w] = "lock"
                           \/ pc[w] \in {"poll", "writing"} /\ pc'[w] \in {"poll", "writing"}
    BY <1>3, <2>1 DEF Direct
  <2> QED
    BY <1>1, <1>3, <2>1, <2>2, <2>3, CallerMoves
<1> QED
  BY <1>2, <1>3 DEF Easy

\* The steps of a call that only move its caller.
LEMMA EasySteps ==
    ASSUME SinkAssumption, SinkInv, NEW w \in Writers,
           \/ StartWrite(w) \/ StartTryWrite(w) \/ PollSend(w) \/ WouldBlock(w)
           \/ (Send(w) \/ TrySend(w)) /\ ~Enqueue(w)
           \/ LockStream(w) /\ cancel
           \/ PollWrite(w) /\ ~cancel
    PROVE  SinkInv'
<1>0. /\ mode = "direct" \/ mode = "queued"
      /\ mode = "direct" => pc[w] \in {"idle", "lock", "poll", "writing", "over"}
      /\ mode = "queued" => pc[w] \in {"idle", "send", "sending", "try", "over"}
  BY ModeOf
<1>1. StartWrite(w) => Easy(w)
  BY <1>0 DEF StartWrite, Easy, Still, Apart, callFrame, Direct, CallSteps
<1>2. StartTryWrite(w) => Easy(w)
  BY <1>0 DEF StartTryWrite, Easy, Still, Apart, callFrame, Direct, CallSteps
<1>3. PollSend(w) => Easy(w)
  BY <1>0 DEF PollSend, Easy, Still, Apart, callFrame, Direct, CallSteps
<1>4. WouldBlock(w) => Easy(w)
  BY <1>0 DEF WouldBlock, Easy, Still, Apart, callFrame, Direct, CallSteps
<1>5. Send(w) /\ ~Enqueue(w) => Easy(w)
  BY <1>0 DEF Send, Easy, Still, Apart, callFrame, Direct, CallSteps
<1>6. TrySend(w) /\ ~Enqueue(w) => Easy(w)
  BY <1>0 DEF TrySend, Easy, Still, Apart, callFrame, Direct, CallSteps
<1>7. LockStream(w) /\ cancel => Easy(w)
  BY <1>0 DEF LockStream, Easy, Still, Apart, callFrame, Direct, CallSteps
<1>8. PollWrite(w) /\ ~cancel => Easy(w)
  BY <1>0 DEF PollWrite, Easy, Still, Apart, callFrame, Direct, CallSteps
<1> QED
  BY <1>1, <1>2, <1>3, <1>4, <1>5, <1>6, <1>7, <1>8, EasyMoves

\* What every step may use.
LEMMA Known ==
    ASSUME SinkAssumption, SinkInv
    PROVE  /\ TypeOK /\ wire \in Seq(Tokens) /\ out \in Seq(Tokens) \X Seq(Tokens)
           /\ mode \in {"queued", "direct"} /\ encoder \in {"raw", "u16be"}
           /\ \A w \in Writers : Sent(w) \in 0..PacketLen(w) /\ PacketLen(w) \in Nat \ {0}
BY PacketLens DEF SinkInv, SinkTypes

\* A packet enters the queue.
LEMMA EnqueueKeeps ==
    ASSUME SinkAssumption, SinkInv, NEW w \in Writers, Send(w) \/ TrySend(w), Enqueue(w)
    PROVE  SinkInv'
<1>0. /\ Still /\ UNCHANGED <<holder, task, dropped, cancel, fin, shut>>
      /\ pc[w] \in {"sending", "try"}
  BY DEF Send, TrySend, callFrame, Still
<1>1. TypeOK /\ mode = "queued"
  BY <1>0, ModeOf
<1>2. \A v \in Writers : Sent(v) \in 0..PacketLen(v) /\ PacketLen(v) \in Nat \ {0}
  BY Known
<1>3. /\ pc' \in [Writers -> CallSteps] /\ result' \in [Writers -> {"none", "ok", "err"}]
      /\ pc'[w] = "over" /\ \A v \in Writers \ {w} : pc'[v] = pc[v]
      /\ result'[w] = "ok" /\ \A v \in Writers \ {w} : result'[v] = result[v]
  BY <1>1, Returns DEF Enqueue
<1>4. queue \in Seq(Writers) /\ Len(queue) \in Nat
  BY <1>1 DEF TypeOK
<1>5. /\ queue' \in Seq(Writers) /\ Len(queue') = Len(queue) + 1
      /\ \A i \in 1..Len(queue) : queue'[i] = queue[i]
      /\ queue'[Len(queue) + 1] = w
  BY <1>4, AppendProperties DEF Enqueue
<1>6. Len(queue) < Capacity /\ Capacity \in Nat
  <2>1. Capacity \in Nat
    BY DEF SinkAssumption, Capacity
  <2>2. ASSUME Len(queue) >= Capacity PROVE FALSE
    <3>1. ~(Len(queue) < Capacity)
      BY <1>4, <2>1, <2>2
    <3>2. queue' = queue \/ Return(w, "err")
      BY <3>1 DEF Send, TrySend
    <3>3. result'[w] # "err"
      BY <1>3
    <3>4. Return(w, "err") => result'[w] = "err"
      BY <1>1 DEF Return, TypeOK
    <3>5. queue' # queue
      BY <1>4, <1>5
    <3> QED
      BY <3>2, <3>3, <3>4, <3>5
  <2> QED
    BY <1>4, <2>1, <2>2
<1>7. \A v \in Writers : InHand(v)' <=> InHand(v)
  BY <1>0 DEF Still, InHand, pending
<1>8. Broken => Broken'
  BY <1>0 DEF Still, Broken
<1>9. Blocks' /\ HandContinues' /\ CutAtEnd'
  BY <1>0, <1>7, <1>8, StillKept
<1>10. \A v \in Writers : Sent(v)' = Sent(v) /\ PacketLen(v)' = PacketLen(v)
  BY <1>0, WireStays DEF Still
<1>11. SinkTypes'
  <2>1. Len(queue') <= Capacity' /\ Capacity' = Capacity
    BY <1>4, <1>5, <1>6 DEF Capacity
  <2>2. TypeOK'
    BY <1>0, <1>1, <1>3, <1>5, <2>1 DEF TypeOK
  <2> QED
    BY <1>0, <1>2, <1>10, <2>2 DEF SinkInv, SinkTypes, Still
<1>12. \A v \in Writers : InQueue(v)' <=> InQueue(v) \/ v = w
  <2>1. ASSUME NEW v \in Writers, InQueue(v)' PROVE InQueue(v) \/ v = w
    <3>1. PICK i \in 1..Len(queue') : queue'[i] = v
      BY <2>1 DEF InQueue
    <3>2. i \in 1..Len(queue) \/ i = Len(queue) + 1
      BY <1>4, <1>5
    <3> QED
      BY <1>5, <3>1, <3>2 DEF InQueue
  <2>2. ASSUME NEW v \in Writers, InQueue(v) PROVE InQueue(v)'
    <3>1. PICK i \in 1..Len(queue) : queue[i] = v
      BY <2>2 DEF InQueue
    <3>2. i \in 1..Len(queue')
      BY <1>4, <1>5
    <3> QED
      BY <1>5, <3>1, <3>2 DEF InQueue
  <2>3. InQueue(w)'
    <3>1. Len(queue) + 1 \in 1..Len(queue')
      BY <1>4, <1>5
    <3> QED
      BY <1>5, <3>1 DEF InQueue
  <2> QED
    BY <2>1, <2>2, <2>3
<1>13. \A v \in Writers : QueuedCall(v)
  BY <1>1 DEF SinkInv, QueuedCalls
<1>14. ~InQueue(w) /\ ~InHand(w) /\ Sent(w) = 0
  <2>1. result[w] # "ok"
    BY <1>0, <1>13 DEF QueuedCall
  <2>2. ~(Sent(w) > 0 \/ InQueue(w) \/ InHand(w))
    BY <1>13, <2>1 DEF QueuedCall
  <2> QED
    BY <1>2, <2>2
<1>15. ASSUME NEW i \in 1..Len(queue'), NEW j \in 1..Len(queue'), queue'[i] = queue'[j]
       PROVE  i = j
  <2>1. \A k \in 1..Len(queue) : queue[k] # w
    BY <1>14 DEF InQueue
  <2>2. \A k, m \in 1..Len(queue) : queue[k] = queue[m] => k = m
    BY <1>1 DEF SinkInv, QueuedCalls
  <2>3. /\ i \in 1..Len(queue) \/ i = Len(queue) + 1
        /\ j \in 1..Len(queue) \/ j = Len(queue) + 1
    BY <1>4, <1>5
  <2> QED
    BY <1>5, <1>15, <2>1, <2>2, <2>3
<1>16. ASSUME NEW v \in Writers PROVE QueuedCall(v)'
  <2>1. CASE v = w
    BY <1>3, <1>7, <1>10, <1>12, <1>14, <2>1 DEF QueuedCall
  <2>2. CASE v # w
    BY <1>0, <1>3, <1>7, <1>10, <1>12, <1>13, <2>2 DEF QueuedCall
  <2> QED
    BY <2>1, <2>2
<1>17. mode' = "queued" /\ holder' = None /\ (task' \in {"shutdown", "over"} => cancel')
  BY <1>0, <1>1 DEF SinkInv, QueuedCalls, Still
<1>18. DirectCalls' /\ QueuedCalls'
  BY <1>15, <1>16, <1>17 DEF DirectCalls, QueuedCalls
<1> QED
  BY <1>9, <1>11, <1>18 DEF SinkInv

\* A packet none of which is on the wire continues at its end.
LEMMA NothingSent ==
    ASSUME SinkAssumption, SinkInv, NEW w \in Writers, Sent(w) = 0
    PROVE  AtEnd(w)
<1>1. PICK f \in Nat \ {0} : Block(w, f, Sent(w))
  BY DEF SinkInv, Blocks
<1>2. Positions(w) = f..(f + 0 - 1)
  BY <1>1 DEF Block
<1>3. wire \in Seq(Tokens) /\ Len(wire) \in Nat
  BY Known, LenProperties
<1>4. f..(f + 0 - 1) = {} /\ ((Len(wire) - 0) + 1)..(((Len(wire) - 0) + 1) + 0 - 1) = {}
  BY <1>3
<1>5. ((Len(wire) - 0) + 1) + 0 - 1 <= Len(wire) /\ 1..0 = {}
  BY <1>3
<1> QED
  BY <1>2, <1>4, <1>5 DEF AtEnd, Block

\* A caller of a direct sink takes the stream.
LEMMA LockKeeps ==
    ASSUME SinkAssumption, SinkInv, NEW w \in Writers, LockStream(w), ~cancel
    PROVE  SinkInv'
<1>0. /\ UNCHANGED <<mode, encoder, dropped, fin, task, shut, cancel, queue, wire>>
      /\ pc[w] = "lock" /\ holder = None /\ GoOn(w, "poll") /\ holder' = w /\ out' = Slices(w)
  BY DEF LockStream, callFrame
<1>1. TypeOK /\ mode = "direct" /\ mode' = "direct"
  BY <1>0, ModeOf
<1>2. \A v \in Writers : Sent(v) \in 0..PacketLen(v) /\ PacketLen(v) \in Nat \ {0}
  BY Known
<1>3. /\ pc' \in [Writers -> CallSteps] /\ result' = result
      /\ pc'[w] = "poll" /\ \A v \in Writers \ {w} : pc'[v] = pc[v]
  BY <1>0, <1>1, Moves DEF CallSteps
<1>4. \A v \in Writers : DirectCall(v)
  BY <1>1 DEF SinkInv, DirectCalls
<1>5. Sent(w) = 0
  BY <1>0, <1>4 DEF DirectCall
<1>6. \A v \in Writers : /\ Sent(v)' = Sent(v) /\ PacketLen(v)' = PacketLen(v)
                         /\ AtEnd(v) <=> AtEnd(v)'
                         /\ \A f, n : Block(v, f, n) <=> Block(v, f, n)'
  BY <1>0, WireStays
<1>7. Blocks'
  BY <1>6 DEF SinkInv, Blocks
<1>8. out' \in Seq(Tokens) \X Seq(Tokens) /\ Len(pending') = PacketLen(w)
      /\ \A k \in 1..PacketLen(w) : pending'[k] = <<w, k>>
  BY <1>0, SlicesWhole DEF pending
<1>9. AtEnd(w)
  BY <1>5, NothingSent
<1>10. Continues(w)'
  <2>1. \A k \in 1..PacketLen(w) : 0 + k = k
    BY <1>2
  <2>2. 0 < PacketLen(w) /\ PacketLen(w) - 0 = PacketLen(w)
    BY <1>2
  <2> QED
    BY <1>5, <1>6, <1>8, <1>9, <2>1, <2>2 DEF Continues
<1>11. HandContinues'
  <2>1. \A v \in Writers : InHand(v)' => v = w
    BY <1>0, <1>1 DEF InHand
  <2> QED
    BY <1>1, <1>10, <2>1 DEF HandContinues
<1>12. CutAtEnd'
  <2> SUFFICES ASSUME NEW v \in Writers, Sent(v)' > 0, Sent(v)' < PacketLen(v)'
               PROVE  mode' = "direct" /\ v \in dropped'
    BY DEF CutAtEnd
  <2>1. InHand(v) \/ (Broken /\ AtEnd(v)) \/ (mode = "direct" /\ v \in dropped)
    BY <1>6 DEF SinkInv, CutAtEnd
  <2>2. ~InHand(v) /\ ~Broken
    BY <1>0, <1>1 DEF InHand, Broken, SinkAssumption
  <2> QED
    BY <1>0, <1>1, <2>1, <2>2
<1>13. SinkTypes'
  <2>1. TypeOK'
    BY <1>0, <1>1, <1>3 DEF TypeOK, Capacity
  <2> QED
    BY <1>0, <1>2, <1>6, <1>8, <2>1 DEF SinkInv, SinkTypes
<1>14. ASSUME NEW v \in Writers PROVE DirectCall(v)'
  <2>1. CASE v = w
    BY <1>0, <1>3, <1>4, <1>6, <2>1 DEF DirectCall
  <2>2. CASE v # w
    <3>1. holder # v /\ holder' # v
      BY <1>0, <2>2 DEF SinkAssumption
    <3> QED
      BY <1>0, <1>3, <1>4, <1>6, <2>2, <3>1 DEF DirectCall
  <2> QED
    BY <2>1, <2>2
<1>15. DirectCalls' /\ QueuedCalls'
  BY <1>0, <1>1, <1>14 DEF SinkInv, DirectCalls, QueuedCalls
<1> QED
  BY <1>7, <1>11, <1>12, <1>13, <1>15 DEF SinkInv

\* A direct write is given up by the token or by an error of the socket.
LEMMA GiveUpKeeps ==
    ASSUME SinkAssumption, SinkInv, NEW w \in Writers, (PollWrite(w) /\ cancel) \/ WriteFails(w)
    PROVE  SinkInv'
<1>0. TypeOK
  BY Known
<1>1. /\ Still /\ UNCHANGED <<dropped, fin, task, shut, queue>> /\ pc[w] \in {"poll", "writing"}
      /\ Return(w, "err") /\ cancel' = TRUE /\ holder' = None
  BY <1>0 DEF PollWrite, WriteFails, callFrame, Still, TypeOK
<1>2. mode = "direct" /\ mode' = "direct"
  BY <1>1, ModeOf DEF Still
<1>3. /\ pc' \in [Writers -> CallSteps] /\ result' \in [Writers -> {"none", "ok", "err"}]
      /\ pc'[w] = "over" /\ \A v \in Writers \ {w} : pc'[v] = pc[v]
      /\ result'[w] = "err" /\ \A v \in Writers \ {w} : result'[v] = result[v]
  BY <1>0, <1>1, Returns
<1>4. \A v \in Writers : Sent(v) \in 0..PacketLen(v) /\ PacketLen(v) \in Nat \ {0}
  BY Known
<1>5. \A v \in Writers : DirectCall(v)
  BY <1>2 DEF SinkInv, DirectCalls
<1>6. holder = w
  BY <1>1, <1>5 DEF DirectCall
<1>7. \A v \in Writers : ~InHand(v)'
  BY <1>1, <1>2 DEF InHand, SinkAssumption
<1>8. Broken'
  BY <1>1, <1>2 DEF Broken
<1>9. Blocks' /\ HandContinues' /\ CutAtEnd'
  BY <1>1, <1>2, <1>7, <1>8, StillKept
<1>10. \A v \in Writers : Sent(v)' = Sent(v) /\ PacketLen(v)' = PacketLen(v)
  BY <1>1, WireStays DEF Still
<1>11. Sent(w) < PacketLen(w)
  BY <1>2, <1>6 DEF SinkInv, HandContinues, Continues, InHand
<1>12. SinkTypes'
  <2>1. TypeOK'
    BY <1>0, <1>1, <1>3 DEF TypeOK, Capacity
  <2> QED
    BY <1>1, <1>4, <1>10, <2>1 DEF SinkInv, SinkTypes, Still
<1>13. ASSUME NEW v \in Writers PROVE DirectCall(v)'
  <2>0. holder' # v
    BY <1>1 DEF SinkAssumption
  <2>1. CASE v = w
    BY <1>3, <1>10, <1>11, <2>0, <2>1 DEF DirectCall
  <2>2. CASE v # w
    BY <1>3, <1>5, <1>6, <1>10, <2>0, <2>2 DEF DirectCall
  <2> QED
    BY <2>1, <2>2
<1>14. DirectCalls' /\ QueuedCalls'
  BY <1>1, <1>2, <1>13 DEF SinkInv, DirectCalls, QueuedCalls
<1> QED
  BY <1>9, <1>12, <1>14 DEF SinkInv

\* A write future is dropped where it waits.
LEMMA DropKeeps ==
    ASSUME SinkAssumption, SinkInv, NEW w \in Writers, DropWrite(w)
    PROVE  SinkInv'
<1>0. TypeOK /\ mode \in {"queued", "direct"}
  BY Known
<1>1. /\ Still /\ UNCHANGED <<fin, task, shut, cancel, queue>> /\ pc[w] \in {"lock", "poll", "send"}
      /\ Return(w, "none") /\ dropped' = dropped \cup {w}
      /\ holder' = IF holder = w THEN None ELSE holder
  BY DEF DropWrite, Still
<1>2. mode' = mode
  BY <1>1 DEF Still
<1>3. /\ pc' \in [Writers -> CallSteps] /\ result' \in [Writers -> {"none", "ok", "err"}]
      /\ pc'[w] = "over" /\ \A v \in Writers \ {w} : pc'[v] = pc[v]
      /\ result'[w] = "none" /\ \A v \in Writers \ {w} : result'[v] = result[v]
  BY <1>0, <1>1, Returns
<1>4. \A v \in Writers : Sent(v) \in 0..PacketLen(v) /\ PacketLen(v) \in Nat \ {0}
  BY Known
<1>5. holder' \in Writers \cup {None} /\ (holder = None => holder' = None)
  BY <1>0, <1>1 DEF TypeOK
<1>6. \A v \in Writers : InHand(v)' => InHand(v)
  BY <1>1, <1>2 DEF InHand, Still, pending, SinkAssumption
<1>7. \A v \in Writers : InHand(v) => InHand(v)' \/ (mode = "direct" /\ v \in dropped')
  BY <1>1, <1>2 DEF InHand, Still, pending
<1>8. Broken => Broken'
  BY <1>1, <1>2, <1>5 DEF Broken
<1>9. Blocks' /\ HandContinues' /\ CutAtEnd'
  BY <1>1, <1>2, <1>6, <1>7, <1>8, StillKept
<1>10. \A v \in Writers : Sent(v)' = Sent(v) /\ PacketLen(v)' = PacketLen(v)
  BY <1>1, WireStays DEF Still
<1>11. SinkTypes'
  <2>1. TypeOK'
    BY <1>0, <1>1, <1>3, <1>5 DEF TypeOK, Capacity
  <2> QED
    BY <1>1, <1>4, <1>10, <2>1 DEF SinkInv, SinkTypes, Still
<1>12. ASSUME mode = "direct" PROVE DirectCalls'
  <2>1. \A v \in Writers : DirectCall(v)
    BY <1>12 DEF SinkInv, DirectCalls
  <2>2. ASSUME NEW v \in Writers PROVE DirectCall(v)'
    <3>1. CASE v = w
      <4>1. holder' # w
        BY <1>1 DEF SinkAssumption
      <4> QED
        BY <1>3, <3>1, <4>1 DEF DirectCall
    <3>2. CASE v # w
      <4>1. holder' = v <=> holder = v
        BY <1>1, <3>2 DEF SinkAssumption
      <4> QED
        BY <1>3, <1>10, <2>1, <3>2, <4>1 DEF DirectCall
    <3> QED
      BY <3>1, <3>2
  <2> QED
    BY <1>1, <1>12, <2>2 DEF SinkInv, DirectCalls
<1>13. ASSUME mode = "queued" PROVE QueuedCalls'
  <2>1. \A v \in Writers : QueuedCall(v)
    BY <1>13 DEF SinkInv, QueuedCalls
  <2>2. holder = None /\ holder' = None /\ (task' \in {"shutdown", "over"} => cancel')
        /\ \A i, j \in 1..Len(queue') : queue'[i] = queue'[j] => i = j
    BY <1>1, <1>5, <1>13 DEF SinkInv, QueuedCalls
  <2>3. \A v \in Writers : (InHand(v)' <=> InHand(v)) /\ (InQueue(v)' <=> InQueue(v))
    BY <1>1, <1>2, <1>13 DEF InHand, Still, pending, InQueue
  <2>4. ASSUME NEW v \in Writers PROVE QueuedCall(v)'
    <3>1. CASE v = w
      <4>1. result[w] # "ok"
        BY <1>1, <2>1 DEF QueuedCall
      <4>2. ~(Sent(w) > 0 \/ InQueue(w) \/ InHand(w))
        BY <2>1, <4>1 DEF QueuedCall
      <4> QED
        BY <1>3, <1>10, <2>3, <3>1, <4>2 DEF QueuedCall
    <3>2. CASE v # w
      BY <1>1, <1>3, <1>10, <2>1, <2>3, <3>2 DEF QueuedCall
    <3> QED
      BY <3>1, <3>2
  <2> QED
    BY <2>2, <2>4 DEF QueuedCalls
<1>14. DirectCalls' /\ QueuedCalls'
  BY <1>0, <1>2, <1>12, <1>13 DEF DirectCalls, QueuedCalls
<1> QED
  BY <1>9, <1>11, <1>14 DEF SinkInv

\* A direct write puts bytes on the socket.
LEMMA WriteKeeps ==
    ASSUME SinkAssumption, SinkInv, NEW w \in Writers, WriteSome(w)
    PROVE  SinkInv'
<1>0. TypeOK
  BY Known
<1>1. PICK n \in 1..Left(out) :
         /\ SocketTakes(n)
         /\ \/ n = Left(out) /\ Return(w, "ok") /\ holder' = None
            \/ n < Left(out) /\ GoOn(w, "writing") /\ UNCHANGED holder
  BY DEF WriteSome
<1>2. UNCHANGED <<mode, encoder, dropped, fin, task, shut, cancel, queue>> /\ pc[w] = "writing"
  BY DEF WriteSome, callFrame
<1>3. mode = "direct" /\ mode' = "direct"
  BY <1>2, ModeOf
<1>4. \A v \in Writers : Sent(v) \in 0..PacketLen(v) /\ PacketLen(v) \in Nat \ {0}
  BY Known
<1>5. \A v \in Writers : DirectCall(v)
  BY <1>3 DEF SinkInv, DirectCalls
<1>6. holder = w /\ InHand(w)
  BY <1>2, <1>3, <1>5 DEF DirectCall, InHand
<1>7. /\ wire' \in Seq(Tokens) /\ out' \in Seq(Tokens) \X Seq(Tokens)
      /\ \A v \in Writers : Sent(v)' \in 0..PacketLen(v)'
      /\ \A v \in Writers : PacketLen(v)' = PacketLen(v)
      /\ \A v \in Writers \ {w} : Sent(v)' = Sent(v)
      /\ n = Left(out) => Sent(w)' = PacketLen(w)
      /\ n < Left(out) => Sent(w)' < PacketLen(w)
      /\ Sent(w)' > 0 /\ Blocks'
      /\ n < Left(out) => Continues(w)' /\ pending' # <<>> /\ pending'[1][1] = w
  BY <1>1, <1>2, <1>6, HandWrites
<1>8. \/ /\ n = Left(out) /\ pc'[w] = "over" /\ result'[w] = "ok" /\ holder' = None
         /\ \A v \in Writers \ {w} : result'[v] = result[v]
      \/ n < Left(out) /\ pc'[w] = "writing" /\ result' = result /\ holder' = w
  BY <1>0, <1>1, <1>6 DEF Return, GoOn, TypeOK
<1>9. /\ pc' \in [Writers -> CallSteps] /\ result' \in [Writers -> {"none", "ok", "err"}]
      /\ \A v \in Writers \ {w} : pc'[v] = pc[v] /\ result'[v] = result[v]
  <2>1. CASE Return(w, "ok")
    BY <1>0, <2>1, Returns
  <2>2. CASE GoOn(w, "writing")
    <3>1. /\ pc' \in [Writers -> CallSteps] /\ result' = result
          /\ \A v \in Writers \ {w} : pc'[v] = pc[v]
      BY <1>0, <2>2, Moves DEF CallSteps
    <3> QED
      BY <1>0, <3>1 DEF TypeOK
  <2> QED
    BY <1>1, <2>1, <2>2
<1>10. result[w] = "none"
  BY <1>0, <1>2, <1>5 DEF DirectCall, TypeOK
<1>11. HandContinues'
  <2>1. ASSUME NEW v \in Writers, InHand(v)' PROVE Continues(v)'
    <3>1. v = w /\ n < Left(out)
      BY <1>3, <1>8, <2>1 DEF InHand, SinkAssumption
    <3> QED
      BY <1>7, <3>1
  <2> QED
    BY <1>3, <2>1 DEF HandContinues
<1>12. CutAtEnd'
  <2> SUFFICES ASSUME NEW v \in Writers, Sent(v)' > 0, Sent(v)' < PacketLen(v)'
               PROVE  InHand(v)' \/ (mode' = "direct" /\ v \in dropped')
    BY DEF CutAtEnd
  <2>1. CASE v = w
    <3>1. PacketLen(w) \in Nat /\ PacketLen(w)' = PacketLen(w)
      BY <1>4, <1>7
    <3>2. Sent(w)' # PacketLen(w)
      BY <2>1, <3>1
    <3>3. holder' = w
      BY <1>7, <1>8, <3>2
    <3> QED
      BY <1>3, <2>1, <3>3 DEF InHand
  <2>2. CASE v # w
    <3>1. InHand(v) \/ (Broken /\ AtEnd(v)) \/ (mode = "direct" /\ v \in dropped)
      BY <1>7, <2>2 DEF SinkInv, CutAtEnd
    <3>2. ~InHand(v) /\ ~Broken
      BY <1>3, <1>6, <2>2 DEF InHand, Broken, SinkAssumption
    <3> QED
      BY <1>2, <1>3, <3>1, <3>2
  <2> QED
    BY <2>1, <2>2
<1>13. SinkTypes'
  <2>1. TypeOK'
    BY <1>0, <1>2, <1>8, <1>9 DEF TypeOK, Capacity
  <2> QED
    BY <1>2, <1>7, <2>1 DEF SinkInv, SinkTypes
<1>14. ASSUME NEW v \in Writers PROVE DirectCall(v)'
  <2>1. CASE v = w /\ n = Left(out)
    <3>1. holder' # w /\ pc'[w] = "over" /\ result'[w] = "ok" /\ Sent(w)' = PacketLen(w)'
      BY <1>0, <1>1, <1>6, <1>7, <2>1 DEF SinkAssumption, Return, TypeOK
    <3> QED
      BY <2>1, <3>1 DEF DirectCall
  <2>2. CASE v = w /\ n < Left(out)
    <3>1. holder' = w /\ pc'[w] = "writing" /\ result'[w] = "none"
      BY <1>0, <1>1, <1>6, <1>10, <2>2 DEF GoOn, TypeOK
    <3> QED
      BY <2>2, <3>1 DEF DirectCall
  <2>3. CASE v # w
    <3>1. holder # v /\ holder' # v
      BY <1>6, <1>8, <2>3 DEF SinkAssumption
    <3> QED
      BY <1>5, <1>7, <1>9, <2>3, <3>1 DEF DirectCall
  <2> QED
    BY <1>8, <2>1, <2>2, <2>3
<1>15. DirectCalls' /\ QueuedCalls'
  BY <1>2, <1>3, <1>14 DEF SinkInv, DirectCalls, QueuedCalls
<1> QED
  BY <1>7, <1>11, <1>12, <1>13, <1>15 DEF SinkInv

\* The token is cancelled, and a direct sink is shut down.
LEMMA TokenKeeps ==
    ASSUME SinkAssumption, SinkInv, Close \/ StartShutdown \/ ShutdownStream
    PROVE  SinkInv'
<1>0. TypeOK /\ mode \in {"queued", "direct"}
  BY Known
<1>1. /\ Still /\ Apart /\ pc' = pc /\ result' = result /\ cancel' \in BOOLEAN /\ fin' \in BOOLEAN
      /\ cancel => cancel'
      /\ shut' \in {"idle", "lock", "over"}
  BY <1>0 DEF Close, StartShutdown, ShutdownStream, Still, Apart, callFrame, callVars, TypeOK
<1>2. /\ Blocks' /\ HandContinues' /\ CutAtEnd'
      /\ \A v \in Writers : /\ Sent(v)' = Sent(v) /\ PacketLen(v)' = PacketLen(v)
                            /\ InHand(v)' <=> InHand(v)
                            /\ InQueue(v)' <=> InQueue(v)
  BY <1>1, ApartKept
<1>3. \A v \in Writers : Sent(v) \in 0..PacketLen(v) /\ PacketLen(v) \in Nat \ {0}
  BY Known
<1>4. SinkTypes'
  <2>1. TypeOK'
    BY <1>0, <1>1 DEF TypeOK, Capacity, Apart
  <2> QED
    BY <1>1, <1>2, <1>3, <2>1 DEF SinkInv, SinkTypes, Still
<1>5. ASSUME mode = "direct" PROVE DirectCalls'
  <2>1. ASSUME NEW v \in Writers PROVE DirectCall(v)'
    <3>1. DirectCall(v)
      BY <1>5 DEF SinkInv, DirectCalls
    <3> QED
      BY <1>1, <1>2, <3>1 DEF DirectCall, Apart
  <2> QED
    BY <1>1, <1>5, <2>1 DEF SinkInv, DirectCalls, Apart
<1>6. ASSUME mode = "queued" PROVE QueuedCalls'
  <2>1. ASSUME NEW v \in Writers PROVE QueuedCall(v)'
    <3>1. QueuedCall(v)
      BY <1>6 DEF SinkInv, QueuedCalls
    <3> QED
      BY <1>1, <1>2, <3>1 DEF QueuedCall, Apart
  <2>2. /\ holder' = None
        /\ task' \in {"shutdown", "over"} => cancel'
        /\ \A i, j \in 1..Len(queue') : queue'[i] = queue'[j] => i = j
    BY <1>1, <1>6 DEF SinkInv, QueuedCalls, Apart
  <2> QED
    BY <2>1, <2>2 DEF QueuedCalls
<1>7. DirectCalls' /\ QueuedCalls'
  BY <1>0, <1>1, <1>5, <1>6 DEF DirectCalls, QueuedCalls, Still
<1> QED
  BY <1>2, <1>4, <1>7 DEF SinkInv

\* handle_tcp_write takes a packet off the queue.
LEMMA ReceiveKeeps ==
    ASSUME SinkAssumption, SinkInv, TaskReceives
    PROVE  SinkInv'
<1>0. /\ UNCHANGED <<mode, encoder, pc, result, dropped, holder, shut, cancel, wire, fin>>
      /\ task = "select" /\ queue # <<>> /\ out' = Slices(Head(queue)) /\ queue' = Tail(queue)
      /\ task' = "writing"
  BY DEF TaskReceives, taskFrame, callVars
<1>1. TypeOK /\ mode = "queued" /\ mode' = "queued"
  BY <1>0, Known DEF SinkInv, DirectCalls
<1>2. \A v \in Writers : Sent(v) \in 0..PacketLen(v) /\ PacketLen(v) \in Nat \ {0}
  BY Known
<1>3. queue \in Seq(Writers)
  BY <1>1 DEF TypeOK
<1>4. PICK h \in Writers : h = Head(queue)
  BY <1>0, <1>3, HeadTailProperties
<1>5. /\ queue' \in Seq(Writers) /\ Len(queue') = Len(queue) - 1
      /\ \A i \in 1..Len(queue') : queue'[i] = queue[i + 1]
  BY <1>0, <1>3, HeadTailProperties
<1>6. Len(queue) \in Nat \ {0} /\ queue[1] = h
  BY <1>0, <1>3, <1>4, EmptySeq
<1>7. \A i, j \in 1..Len(queue) : queue[i] = queue[j] => i = j
  BY <1>1 DEF SinkInv, QueuedCalls
<1>8. \A v \in Writers : QueuedCall(v)
  BY <1>1 DEF SinkInv, QueuedCalls
<1>9. ASSUME NEW v \in Writers PROVE InQueue(v) <=> InQueue(v)' \/ v = h
  <2>1. ASSUME InQueue(v) PROVE InQueue(v)' \/ v = h
    <3>1. PICK i \in 1..Len(queue) : queue[i] = v
      BY <2>1 DEF InQueue
    <3>2. CASE i = 1
      BY <1>6, <3>1, <3>2
    <3>3. CASE i # 1
      <4>1. i - 1 \in 1..Len(queue') /\ (i - 1) + 1 = i
        BY <1>5, <1>6, <3>3
      <4>2. queue'[i - 1] = v
        BY <1>5, <3>1, <4>1
      <4> QED
        BY <4>1, <4>2 DEF InQueue
    <3> QED
      BY <3>2, <3>3
  <2>2. ASSUME InQueue(v)' PROVE InQueue(v)
    <3>1. PICK i \in 1..Len(queue') : queue'[i] = v
      BY <2>2 DEF InQueue
    <3>2. i + 1 \in 1..Len(queue)
      BY <1>5, <1>6
    <3> QED
      BY <1>5, <3>1, <3>2 DEF InQueue
  <2>3. InQueue(h)
    <3>1. 1 \in 1..Len(queue)
      BY <1>6
    <3> QED
      BY <1>6, <3>1 DEF InQueue
  <2> QED
    BY <2>1, <2>2, <2>3
<1>10. ~InQueue(h)'
  <2> SUFFICES ASSUME NEW i \in 1..Len(queue'), queue'[i] = h PROVE FALSE
    BY DEF InQueue
  <2>1. i + 1 \in 1..Len(queue) /\ 1 \in 1..Len(queue) /\ i + 1 # 1
    BY <1>5, <1>6
  <2> QED
    BY <1>5, <1>6, <1>7, <2>1
<1>11. ASSUME NEW i \in 1..Len(queue'), NEW j \in 1..Len(queue'), queue'[i] = queue'[j]
       PROVE  i = j
  <2>1. i + 1 \in 1..Len(queue) /\ j + 1 \in 1..Len(queue)
    BY <1>5, <1>6
  <2>2. i + 1 = j + 1
    BY <1>5, <1>7, <1>11, <2>1
  <2> QED
    BY <1>5, <1>6, <2>2
<1>12. Sent(h) = 0 /\ result[h] = "ok"
  <2>1. InQueue(h)
    BY <1>9
  <2> QED
    BY <1>8, <2>1 DEF QueuedCall
<1>13. \A v \in Writers : /\ Sent(v)' = Sent(v) /\ PacketLen(v)' = PacketLen(v)
                          /\ AtEnd(v) <=> AtEnd(v)'
                          /\ \A f, n : Block(v, f, n) <=> Block(v, f, n)'
  BY <1>0, WireStays
<1>14. Blocks'
  BY <1>13 DEF SinkInv, Blocks
<1>15. out' \in Seq(Tokens) \X Seq(Tokens) /\ Len(pending') = PacketLen(h)
       /\ \A k \in 1..PacketLen(h) : pending'[k] = <<h, k>>
  BY <1>0, <1>4, SlicesWhole DEF pending
<1>16. AtEnd(h)
  BY <1>12, NothingSent
<1>17. Continues(h)'
  <2>1. \A k \in 1..PacketLen(h) : 0 + k = k
    BY <1>2
  <2>2. 0 < PacketLen(h) /\ PacketLen(h) - 0 = PacketLen(h)
    BY <1>2
  <2> QED
    BY <1>12, <1>13, <1>15, <1>16, <2>1, <2>2 DEF Continues
<1>18. pending' # <<>> /\ pending'[1][1] = h
  <2>1. 1 \in 1..PacketLen(h) /\ Len(pending') # 0
    BY <1>2, <1>15
  <2> QED
    BY <1>15, <2>1
<1>19. \A v \in Writers : (InHand(v)' <=> v = h) /\ ~InHand(v)
  BY <1>0, <1>1, <1>18 DEF InHand
<1>20. HandContinues'
  BY <1>17, <1>19 DEF HandContinues
<1>21. CutAtEnd'
  <2> SUFFICES ASSUME NEW v \in Writers, Sent(v)' > 0, Sent(v)' < PacketLen(v)'
               PROVE  FALSE
    BY DEF CutAtEnd
  <2>1. InHand(v) \/ (Broken /\ AtEnd(v)) \/ (mode = "direct" /\ v \in dropped)
    BY <1>13 DEF SinkInv, CutAtEnd
  <2> QED
    BY <1>0, <1>1, <1>19, <2>1 DEF Broken
<1>22. SinkTypes'
  <2>1. Len(queue) <= Capacity /\ Capacity \in Nat
    BY <1>1 DEF TypeOK, SinkAssumption, Capacity
  <2>2. Len(queue') <= Capacity' /\ task' \in TaskSteps
    <3>1. Len(queue') <= Capacity
      BY <1>5, <1>6, <2>1
    <3> QED
      BY <1>0, <3>1 DEF Capacity, TaskSteps
  <2>3. TypeOK'
    BY <1>0, <1>1, <1>5, <2>2 DEF TypeOK
  <2> QED
    BY <1>0, <1>2, <1>13, <1>15, <2>3 DEF SinkInv, SinkTypes
<1>23. ASSUME NEW v \in Writers PROVE QueuedCall(v)'
  <2>1. CASE v = h
    BY <1>0, <1>8, <1>10, <1>12, <1>13, <1>19, <2>1 DEF QueuedCall
  <2>2. CASE v # h
    BY <1>0, <1>8, <1>9, <1>13, <1>19, <2>2 DEF QueuedCall
  <2> QED
    BY <2>1, <2>2
<1>24. DirectCalls' /\ QueuedCalls'
  <2>1. holder' = None /\ task' \notin {"shutdown", "over"}
    BY <1>0, <1>1 DEF SinkInv, QueuedCalls
  <2> QED
    BY <1>1, <1>11, <1>23, <2>1 DEF DirectCalls, QueuedCalls
<1> QED
  BY <1>14, <1>20, <1>21, <1>22, <1>24 DEF SinkInv

\* handle_tcp_write puts bytes on the socket.
LEMMA TaskWriteKeeps ==
    ASSUME SinkAssumption, SinkInv, TaskWrites
    PROVE  SinkInv'
<1>0. /\ UNCHANGED <<mode, encoder, pc, result, dropped, holder, shut, cancel, queue, fin>>
      /\ task = "writing"
  BY DEF TaskWrites, taskFrame, callVars
<1>1. TypeOK /\ mode = "queued" /\ mode' = "queued"
  BY <1>0, Known DEF SinkInv, DirectCalls
<1>2. PICK n \in 1..Left(out) :
         SocketTakes(n) /\ task' = IF n = Left(out) THEN "select" ELSE "writing"
  BY DEF TaskWrites
<1>3. PICK c \in Writers : InHand(c)
  BY <1>0, <1>1 DEF SinkInv, HandContinues
<1>4. /\ wire' \in Seq(Tokens) /\ out' \in Seq(Tokens) \X Seq(Tokens)
      /\ \A v \in Writers : Sent(v)' \in 0..PacketLen(v)'
      /\ \A v \in Writers : PacketLen(v)' = PacketLen(v)
      /\ \A v \in Writers \ {c} : Sent(v)' = Sent(v)
      /\ n = Left(out) => Sent(c)' = PacketLen(c)
      /\ n < Left(out) => Sent(c)' < PacketLen(c)
      /\ Sent(c)' > 0 /\ Blocks'
      /\ n < Left(out) => Continues(c)' /\ pending' # <<>> /\ pending'[1][1] = c
  BY <1>0, <1>2, <1>3, HandWrites
<1>5. Left(out) \in Nat
  <2>1. wire \in Seq(Tokens) /\ out \in Seq(Tokens) \X Seq(Tokens)
    BY Known
  <2>2. Taken(n)
    BY <1>2, <2>1 DEF Taken
  <2> QED
    BY <2>2, Takes
<1>6. (n = Left(out) /\ task' = "select") \/ (n < Left(out) /\ task' = "writing")
  BY <1>2, <1>5
<1>7. \A v \in Writers : QueuedCall(v)
  BY <1>1 DEF SinkInv, QueuedCalls
<1>8. \A v \in Writers : InHand(v) => v = c
  BY <1>1, <1>3 DEF InHand
<1>9. /\ \A v \in Writers : InHand(v)' => v = c
      /\ n < Left(out) <=> InHand(c)'
  BY <1>1, <1>4, <1>5, <1>6 DEF InHand
<1>10. HandContinues'
  <2>1. \A v \in Writers : InHand(v)' => Continues(v)'
    BY <1>4, <1>9
  <2>2. task' = "writing" => \E v \in Writers : InHand(v)'
    BY <1>5, <1>6, <1>9
  <2> QED
    BY <2>1, <2>2 DEF HandContinues
<1>11. CutAtEnd'
  <2> SUFFICES ASSUME NEW v \in Writers, Sent(v)' > 0, Sent(v)' < PacketLen(v)'
               PROVE  InHand(v)'
    BY DEF CutAtEnd
  <2>1. CASE v = c
    <3>1. PacketLen(c) \in Nat /\ PacketLen(c)' = PacketLen(c)
      BY <1>4, Known
    <3>2. Sent(c)' # PacketLen(c)
      BY <2>1, <3>1
    <3> QED
      BY <1>4, <1>6, <1>9, <2>1, <3>2
  <2>2. CASE v # c
    <3>1. InHand(v) \/ (Broken /\ AtEnd(v)) \/ (mode = "direct" /\ v \in dropped)
      BY <1>4, <2>2 DEF SinkInv, CutAtEnd
    <3> QED
      BY <1>0, <1>1, <1>8, <2>2, <3>1 DEF Broken
  <2> QED
    BY <2>1, <2>2
<1>12. SinkTypes'
  <2>1. TypeOK'
    BY <1>0, <1>1, <1>6 DEF TypeOK, Capacity, TaskSteps
  <2> QED
    BY <1>0, <1>4, <2>1 DEF SinkInv, SinkTypes
<1>13. \A v \in Writers : InQueue(v)' <=> InQueue(v)
  BY <1>0 DEF InQueue
<1>14. ASSUME NEW v \in Writers PROVE QueuedCall(v)'
  <2>1. CASE v = c
    <3>1. result[c] = "ok" /\ ~InQueue(c) /\ pc[c] = "over"
      BY <1>3, <1>7 DEF QueuedCall
    <3>2. Sent(c)' = PacketLen(c)' \/ InHand(c)'
      BY <1>4, <1>6, <1>9
    <3> QED
      BY <1>0, <1>13, <2>1, <3>1, <3>2 DEF QueuedCall
  <2>2. CASE v # c
    <3>1. ~InHand(v) /\ ~InHand(v)'
      BY <1>8, <1>9, <2>2
    <3>2. task # "cancel"
      BY <1>0
    <3> QED
      BY <1>0, <1>4, <1>7, <1>13, <2>2, <3>1, <3>2 DEF QueuedCall
  <2> QED
    BY <2>1, <2>2
<1>15. DirectCalls' /\ QueuedCalls'
  <2>1. /\ holder' = None /\ task' \notin {"shutdown", "over"}
        /\ \A i, j \in 1..Len(queue') : queue'[i] = queue'[j] => i = j
    BY <1>0, <1>1, <1>6 DEF SinkInv, QueuedCalls
  <2> QED
    BY <1>1, <1>14, <2>1 DEF DirectCalls, QueuedCalls
<1> QED
  BY <1>4, <1>10, <1>11, <1>12, <1>15 DEF SinkInv

\* handle_tcp_write stops.
LEMMA StopKeeps ==
    ASSUME SinkAssumption, SinkInv, TaskFails \/ TaskStops \/ TaskCancels \/ TaskEnds
    PROVE  SinkInv'
<1>0. TypeOK
  BY Known
<1>1. /\ Still /\ UNCHANGED <<pc, result, dropped, holder, shut>> /\ task # "over"
      /\ task' \in {"cancel", "shutdown", "over"} /\ task' # task
      /\ task' = "shutdown" => cancel'
      /\ task' = "over" => task = "shutdown"
      /\ queue' = queue \/ (queue' = <<>> /\ task' = "over")
      /\ cancel => cancel'
      /\ cancel' \in BOOLEAN /\ fin' \in BOOLEAN
      /\ task' = "cancel" => task \notin {"shutdown", "over", "cancel"}
      /\ task \in {"cancel", "shutdown"} => cancel' \/ task = "shutdown"
  BY <1>0
    DEF TaskFails, TaskStops, TaskCancels, TaskEnds, taskFrame, callVars, Still, TypeOK,
        TaskSteps
<1>2. mode = "queued" /\ mode' = "queued"
  BY <1>1, Known DEF SinkInv, DirectCalls, Still
<1>3. \A v \in Writers : QueuedCall(v)
  BY <1>2 DEF SinkInv, QueuedCalls
<1>4. \A v \in Writers : ~InHand(v)'
  BY <1>1, <1>2 DEF InHand
<1>5. Broken'
  BY <1>1, <1>2 DEF Broken
<1>6. Blocks' /\ HandContinues' /\ CutAtEnd'
  BY <1>1, <1>4, <1>5, StillKept
<1>7. \A v \in Writers : Sent(v)' = Sent(v) /\ PacketLen(v)' = PacketLen(v)
  BY <1>1, WireStays DEF Still
<1>8. task' \in {"shutdown", "over"} => cancel'
  BY <1>1, <1>2 DEF SinkInv, QueuedCalls
<1>9. /\ queue' \in Seq(Writers) /\ Len(queue') <= Capacity
      /\ \A v \in Writers : InQueue(v)' => InQueue(v)
      /\ \A v \in Writers : InQueue(v) => InQueue(v)' \/ task' = "over"
      /\ \A i, j \in 1..Len(queue') : queue'[i] = queue'[j] => i = j
  <2>1. CASE queue' = queue
    BY <1>0, <1>2, <2>1 DEF SinkInv, QueuedCalls, InQueue, TypeOK
  <2>2. CASE queue' = <<>> /\ task' = "over"
    <3>1. queue' \in Seq(Writers) /\ Len(queue') = 0
      BY <2>2, EmptySeq
    <3>2. Capacity \in Nat
      BY DEF SinkAssumption, Capacity
    <3> QED
      BY <2>2, <3>1, <3>2 DEF InQueue
  <2> QED
    BY <1>1, <2>1, <2>2
<1>10. SinkTypes'
  <2>1. TypeOK'
    BY <1>0, <1>1, <1>9 DEF TypeOK, Capacity, TaskSteps
  <2> QED
    BY <1>1, <1>7, <2>1 DEF SinkInv, SinkTypes, Still
<1>11. ASSUME NEW v \in Writers PROVE QueuedCall(v)'
  <2>1. cancel' \/ task' = "cancel"
    BY <1>1, <1>8
  <2>2. QueuedCall(v)
    BY <1>3
  <2> QED
    BY <1>1, <1>4, <1>7, <1>9, <2>1, <2>2 DEF QueuedCall
<1>12. DirectCalls' /\ QueuedCalls'
  <2>1. holder' = None
    BY <1>1, <1>2 DEF SinkInv, QueuedCalls
  <2> QED
    BY <1>2, <1>8, <1>9, <1>11, <2>1 DEF DirectCalls, QueuedCalls
<1> QED
  BY <1>6, <1>10, <1>12 DEF SinkInv

----------------------------------------------------------------------------
(* The theorems.                                                           *)

\* Before the first call nothing is on the wire.
LEMMA SinkStarts ==
    ASSUME SinkAssumption, Init
    PROVE  SinkInv
<1>1. Len(wire) = 0 /\ Len(queue) = 0 /\ <<>> \in Seq(Writers) /\ <<>> \in Seq(Tokens)
  BY EmptySeq DEF Init
<1>2. 1..0 = {}
  OBVIOUS
<1>3. \A w \in Writers : Positions(w) = {}
  BY <1>1, <1>2 DEF Positions
<1>4. \A w \in Writers : Sent(w) = 0
  BY <1>3, FS_EmptySet DEF Sent
<1>5. \A w \in Writers : PacketLen(w) \in Nat \ {0}
  BY PacketLens
<1>6. SinkTypes
  <2>1. Capacity \in Nat
    BY DEF SinkAssumption, Capacity
  <2>a. task \in TaskSteps
    BY DEF Init, TaskSteps
  <2>b. pc \in [Writers -> CallSteps] /\ result \in [Writers -> {"none", "ok", "err"}]
    BY DEF Init, CallSteps
  <2>c. queue \in Seq(Writers) /\ Len(queue) <= Capacity
    BY <1>1, <2>1 DEF Init
  <2>2. TypeOK
    BY <2>a, <2>b, <2>c DEF Init, TypeOK
  <2>3. out \in Seq(Tokens) \X Seq(Tokens) /\ wire \in Seq(Tokens)
    BY <1>1 DEF Init
  <2> QED
    BY <1>4, <1>5, <2>2, <2>3 DEF Init, SinkTypes
<1>7. Blocks
  <2>1. ASSUME NEW w \in Writers PROVE Block(w, 1, Sent(w))
    <3>1. 1 + 0 - 1 <= 0 /\ 1..(1 + 0 - 1) = {}
      OBVIOUS
    <3> QED
      BY <1>1, <1>2, <1>3, <1>4, <3>1 DEF Block
  <2>2. 1 \in Nat \ {0}
    OBVIOUS
  <2> QED
    BY <2>1, <2>2 DEF Blocks
<1>8. \A w \in Writers : ~InHand(w) /\ ~InQueue(w)
  BY <1>1, <1>2 DEF Init, InHand, InQueue, SinkAssumption
<1>9. HandContinues
  BY <1>8 DEF HandContinues, Init
<1>10. CutAtEnd
  BY <1>4 DEF CutAtEnd
<1>11. DirectCalls
  BY <1>4 DEF Init, DirectCalls, DirectCall, SinkAssumption
<1>12. QueuedCalls
  BY <1>1, <1>2, <1>4, <1>8 DEF Init, QueuedCalls, QueuedCall
<1> QED
  BY <1>6, <1>7, <1>9, <1>10, <1>11, <1>12 DEF SinkInv

\* A step of something else.
LEMMA SinkStutters ==
    ASSUME SinkInv, UNCHANGED vars
    PROVE  SinkInv'
<1>1. UNCHANGED <<mode, encoder, cancel, pc, result, dropped, queue, holder, out, wire, fin,
                  task, shut>>
  BY DEF vars, callVars
<1>2. Still /\ Apart
  BY <1>1 DEF Still, Apart
<1>3. /\ Blocks' /\ HandContinues' /\ CutAtEnd'
      /\ \A v \in Writers : /\ Sent(v)' = Sent(v) /\ PacketLen(v)' = PacketLen(v)
                            /\ InHand(v)' <=> InHand(v)
                            /\ InQueue(v)' <=> InQueue(v)
  BY <1>1, <1>2, ApartKept
<1>4. SinkTypes'
  BY <1>1, <1>3 DEF SinkInv, SinkTypes, TypeOK, Capacity
<1>5. DirectCalls'
  BY <1>1, <1>3 DEF SinkInv, DirectCalls, DirectCall
<1>6. QueuedCalls'
  BY <1>1, <1>3 DEF SinkInv, QueuedCalls, QueuedCall
<1> QED
  BY <1>3, <1>4, <1>5, <1>6 DEF SinkInv

\* Every step of a caller, of the task and of a shutdown keeps SinkInv.
LEMMA SinkStep ==
    ASSUME SinkAssumption, SinkInv, [Next]_vars
    PROVE  SinkInv'
<1>1. ASSUME NEW w \in Writers, CallNext(w) PROVE SinkInv'
  <2>1. CASE StartWrite(w) \/ StartTryWrite(w) \/ PollSend(w) \/ WouldBlock(w)
    BY <2>1, EasySteps
  <2>2. CASE Send(w) \/ TrySend(w)
    BY <2>2, EasySteps, EnqueueKeeps
  <2>3. CASE LockStream(w)
    BY <2>3, EasySteps, LockKeeps
  <2>4. CASE PollWrite(w)
    BY <2>4, EasySteps, GiveUpKeeps
  <2>5. CASE WriteFails(w)
    BY <2>5, GiveUpKeeps
  <2>6. CASE WriteSome(w)
    BY <2>6, WriteKeeps
  <2>7. CASE DropWrite(w)
    BY <2>7, DropKeeps
  <2> QED
    BY <1>1, <2>1, <2>2, <2>3, <2>4, <2>5, <2>6, <2>7 DEF CallNext
<1>2. CASE Close \/ StartShutdown \/ ShutdownStream
  BY <1>2, TokenKeeps
<1>3. CASE TaskNext
  BY <1>3, ReceiveKeeps, TaskWriteKeeps, StopKeeps DEF TaskNext
<1>4. CASE UNCHANGED vars
  BY <1>4, SinkStutters
<1> QED
  BY <1>1, <1>2, <1>3, <1>4 DEF Next

\* SinkInv always holds.
LEMMA SinkInvariant == ASSUME SinkAssumption PROVE Spec => []SinkInv
<1>1. Init => SinkInv
  BY SinkStarts
<1>2. SinkInv /\ [Next]_vars => SinkInv'
  BY SinkStep
<1> QED
  BY <1>1, <1>2, PTL DEF Spec

\* What a caller was told is true in a state of SinkInv.
LEMMA AnswersFollow ==
    ASSUME SinkAssumption, SinkInv
    PROVE  AnswersHold
<1> SUFFICES ASSUME NEW w \in Writers
             PROVE  /\ result[w] = "ok" =>
                          \/ Whole(w)
                          \/ /\ mode = "queued"
                             /\ \/ cancel \/ task = "cancel"
                                \/ InQueue(w)
                                \/ pending # <<>> /\ pending[1][1] = w
                    /\ result[w] = "err" => ~Whole(w) /\ (mode = "queued" => Positions(w) = {})
  BY DEF AnswersHold, InQueue, pending, Remaining
<1>1. mode = "direct" \/ mode = "queued"
  BY Known
<1>2. Sent(w) \in 0..PacketLen(w) /\ PacketLen(w) \in Nat \ {0}
  BY Known
<1>3. Whole(w) <=> Sent(w) = PacketLen(w)
  BY DEF Whole, Sent
<1>4. CASE mode = "direct"
  <2>1. DirectCall(w)
    BY <1>4 DEF SinkInv, DirectCalls
  <2>2. result[w] = "err" => ~(Sent(w) = PacketLen(w))
    BY <1>2, <2>1 DEF DirectCall
  <2> QED
    BY <1>3, <1>4, <2>1, <2>2 DEF DirectCall
<1>5. CASE mode = "queued"
  <2>1. QueuedCall(w)
    BY <1>5 DEF SinkInv, QueuedCalls
  <2>2. ASSUME result[w] = "err" PROVE ~Whole(w) /\ Positions(w) = {}
    <3>1. ~(Sent(w) > 0)
      BY <2>1, <2>2 DEF QueuedCall
    <3>2. Sent(w) = 0
      BY <1>2, <3>1
    <3>3. PICK f \in Nat \ {0} : Block(w, f, Sent(w))
      BY DEF SinkInv, Blocks
    <3>4. Positions(w) = f..(f + 0 - 1)
      BY <3>2, <3>3 DEF Block
    <3>5. f..(f + 0 - 1) = {}
      OBVIOUS
    <3> QED
      BY <1>2, <1>3, <3>2, <3>4, <3>5
  <2>3. InHand(w) => pending # <<>> /\ pending[1][1] = w
    BY <1>5 DEF InHand
  <2> QED
    BY <1>3, <1>5, <2>1, <2>2, <2>3 DEF QueuedCall
<1> QED
  BY <1>1, <1>4, <1>5

\* The packets on the wire can be told apart in a state of SinkInv.
LEMMA FramesFollow ==
    ASSUME SinkAssumption, SinkInv
    PROVE  FramesWhole
<1> SUFFICES ASSUME NEW w \in Writers \ dropped, Positions(w) # {},
                    NEW from, from = CHOOSE i \in Positions(w) : \A j \in Positions(w) : i <= j
             PROVE  /\ SubSeq(wire, from, from + Sent(w) - 1) = Bytes(w, 1, Sent(w))
                    /\ Whole(w) \/ from + Sent(w) - 1 = Len(wire)
  BY DEF FramesWhole, Sent
<1>1. PICK f \in Nat \ {0} : Block(w, f, Sent(w))
  BY DEF SinkInv, Blocks
<1>2. /\ wire \in Seq(Tokens) /\ Len(wire) \in Nat
      /\ Sent(w) \in 0..PacketLen(w) /\ PacketLen(w) \in Nat \ {0}
  BY Known, LenProperties
<1>3. PICK n \in Nat : n = Sent(w)
  BY <1>2
<1>4. /\ Positions(w) = f..(f + n - 1) /\ f + n - 1 <= Len(wire)
      /\ \A k \in 1..n : wire[f + k - 1] = <<w, k>>
  BY <1>1, <1>3 DEF Block
<1>5. n > 0
  <2>1. n = 0 => f..(f + n - 1) = {}
    BY <1>3
  <2> QED
    BY <1>3, <1>4, <2>1
<1>6. from = f
  <2>0. f \in f..(f + n - 1) /\ \A j \in f..(f + n - 1) : f <= j /\ j \in Int
    BY <1>5
  <2>1. f \in Positions(w) /\ \A j \in Positions(w) : f <= j /\ j \in Int
    BY <1>4, <2>0
  <2>2. from \in Positions(w) /\ \A j \in Positions(w) : from <= j
    BY <2>1
  <2>3. from \in Int /\ from <= f /\ f <= from
    BY <1>4, <2>1, <2>2
  <2> QED
    BY <2>3
<1>7. SubSeq(wire, f, f + n - 1) = Bytes(w, 1, n)
  <2>1. \A i \in f..(f + n - 1) : wire[i] \in Tokens
    BY <1>2, <1>3, <1>4, ElementOfSeq
  <2>2. f \in Int /\ f + n - 1 \in Int
    BY <1>3
  <2> DEFINE t == SubSeq(wire, f, f + n - 1)  b == Bytes(w, 0 + 1, 0 + n)
  <2>3. /\ t \in Seq(Tokens) /\ Len(t) = IF f <= f + n - 1 THEN (f + n - 1) - f + 1 ELSE 0
        /\ \A i \in 1 .. (f + n - 1) - f + 1 : t[i] = wire[f + i - 1]
    BY <2>1, <2>2, SubSeqProperties
  <2>4. b \in Seq(Tokens) /\ Len(b) = n /\ \A k \in 1..n : b[k] = <<w, 0 + k>>
    <3>1. PICK o \in Nat, x \in Writers : o = 0 /\ x = w
      OBVIOUS
    <3>2. /\ Bytes(x, o + 1, o + n) \in Seq(Tokens) /\ Len(Bytes(x, o + 1, o + n)) = n
          /\ \A k \in 1..n : Bytes(x, o + 1, o + n)[k] = <<x, o + k>>
      BY BytesAre
    <3> QED
      BY <3>1, <3>2, Zenon
  <2> HIDE DEF t, b
  <2>5. Len(t) = n /\ (f + n - 1) - f + 1 = n
    BY <1>3, <1>5, <2>3
  <2>6. ASSUME NEW i \in 1..n PROVE t[i] = b[i]
    <3>1. 0 + i = i
      BY <1>3
    <3> QED
      BY <1>4, <2>3, <2>4, <2>5, <3>1
  <2>7. t = b
    BY <2>3, <2>4, <2>5, <2>6, SeqEqual
  <2>8. 0 + 1 = 1 /\ 0 + n = n
    BY <1>3
  <2> QED
    BY <2>7, <2>8 DEF t, b
<1>8. Whole(w) \/ f + n - 1 = Len(wire)
  <2> SUFFICES ASSUME ~Whole(w) PROVE f + n - 1 = Len(wire)
    OBVIOUS
  <2>1. Sent(w) > 0 /\ Sent(w) < PacketLen(w)
    BY <1>2, <1>3, <1>5 DEF Whole, Sent
  <2>2. AtEnd(w)
    BY <2>1 DEF SinkInv, CutAtEnd, HandContinues, Continues
  <2>3. Positions(w) = ((Len(wire) - n) + 1)..(((Len(wire) - n) + 1) + n - 1)
    BY <1>3, <2>2 DEF AtEnd, Block
  <2>4. ((Len(wire) - n) + 1) + n - 1 = Len(wire)
    BY <1>2, <1>3
  <2>5. f + n - 1 \in f..(f + n - 1) /\ Len(wire) \in ((Len(wire) - n) + 1)..Len(wire)
    BY <1>2, <1>3, <1>5
  <2>6. f + n - 1 <= Len(wire) /\ Len(wire) <= f + n - 1
    BY <1>2, <1>3, <1>4, <2>3, <2>4, <2>5
  <2> QED
    BY <1>2, <1>3, <2>6
<1> QED
  BY <1>3, <1>6, <1>7, <1>8

\* For any callers, packets and queue, whatever the socket takes and whenever
\* the token is cancelled, what a caller of write or try_write is told is true:
\* Ok means that the packet is on the wire or with a task that has not given
\* up, Err that the peer does not have it.
THEOREM AnswersAreTrue == ASSUME SinkAssumption PROVE Spec => []AnswersHold
<1>1. SinkInv => AnswersHold
  BY AnswersFollow
<1> QED
  BY <1>1, SinkInvariant, PTL

\* write_all_vectored_2 under either sink leaves packets that the peer can tell
\* apart, except for what a dropped future cut.
THEOREM PacketsKeepTogether == ASSUME SinkAssumption PROVE Spec => [](TypeOK /\ FramesWhole)
<1>1. SinkInv => TypeOK /\ FramesWhole
  BY FramesFollow, Known
<1> QED
  BY <1>1, SinkInvariant, PTL

----------------------------------------------------------------------------
(* The link.                                                               *)

lens == [w \in Writers |-> PacketLen(w)]

\* The reader has taken a part of what is on the wire.
PeerHolds ==
    /\ 1 \in DOMAIN peerTaken /\ 1 \in DOMAIN peerBuffer /\ 1 \in DOMAIN peerDispatched
    /\ ReadSoFar(Tokens, lens, wire, peerTaken[1], peerDispatched[1], peerBuffer[1])

LinkInv == SinkInv /\ PeerHolds

\* The reader's splitter and its parts are the ones of SequenceLemmas.
LEMMA ReaderSplits ==
    ASSUME NEW buf
    PROVE  /\ Reader!Frames(buf) = WholeFrames(buf, lens)
           /\ \A F : Reader!Rest(buf, F) = After(buf, F)
<1>1. Reader!Frames(buf) = WholeFrames(buf, lens)
  BY DEF Reader!Frames, Reader!FrameLen, WholeFrames, SplitStep, lens
<1>2. \A F : Reader!FlattenSeq(F) = FlattenSeq(F)
  BY DEF Reader!FlattenSeq, FlattenSeq
<1>3. \A F : Reader!Rest(buf, F) = After(buf, F)
  BY <1>2 DEF Reader!Rest, Reader!Total, After
<1> QED
  BY <1>1, <1>3

\* A packet is not empty, whatever its encoder.
LEMMA TokensSized ==
    ASSUME SinkAssumption
    PROVE  Sized(Tokens, lens)
<1> SUFFICES ASSUME NEW t \in Tokens PROVE lens[t[1]] \in Nat \ {0}
  BY DEF Sized
<1>1. t[1] \in Writers
  BY DEF Tokens
<1>2. lens[t[1]] = PacketLen(t[1])
  BY <1>1 DEF lens
<1> QED
  BY <1>1, <1>2, PacketLens

\* The link starts with an empty wire and a reader that has read nothing.
LEMMA LinkStarts ==
    ASSUME SinkAssumption, LinkInit
    PROVE  LinkInv
<1>1. SinkInv
  BY SinkStarts DEF LinkInit
<1>2. /\ peerTaken = <<0>> /\ peerBuffer = <<<<>>>> /\ peerDispatched = <<<<>>>> /\ wire = <<>>
  BY DEF LinkInit, Init
<1>3. <<>> \in Seq(Tokens) /\ <<>> \in Seq(Seq(Tokens)) /\ Len(<<>>) = 0
  BY EmptySeq
<1>4. FullFrames(<<>>, lens)
  BY <1>3 DEF FullFrames
<1>5. FlattenSeq(<<>>) \o <<>> = <<>>
  BY <1>3, FlattenNone, ConcatEmptySeq
<1>6. SubSeq(<<>>, 1, 0) = <<>>
  BY SubSeqEmpty
<1>7. 0 \in Nat /\ 0 <= 0
  OBVIOUS
<1>8. ReadSoFar(Tokens, lens, <<>>, 0, <<>>, <<>>)
  BY <1>3, <1>4, <1>5, <1>6, <1>7, Zenon DEF ReadSoFar
<1>9. /\ 1 \in DOMAIN peerTaken /\ 1 \in DOMAIN peerBuffer /\ 1 \in DOMAIN peerDispatched
      /\ peerTaken[1] = 0 /\ peerBuffer[1] = <<>> /\ peerDispatched[1] = <<>>
  BY <1>2
<1> QED
  BY <1>1, <1>2, <1>8, <1>9 DEF LinkInv, PeerHolds

\* A step of the sink only appends to the wire.
LEMMA TakesAppends ==
    ASSUME SinkInv, NEW n, SocketTakes(n)
    PROVE  \E more \in Seq(Tokens) : wire' = wire \o more
<1>1. out \in Seq(Tokens) \X Seq(Tokens)
  BY DEF SinkInv, SinkTypes
<1>2. PICK x \in Seq(Tokens), y \in Seq(Tokens) : x = out[1] /\ y = out[2]
  BY <1>1
<1>3. x \o y \in Seq(Tokens) /\ Len(x \o y) = Len(x) + Len(y) /\ Len(x) \in Nat /\ Len(y) \in Nat
  BY Join
<1>4. n \in 1..(Len(x) + Len(y)) /\ wire' = wire \o SubSeq(x \o y, 1, n)
  BY <1>2 DEF SocketTakes, Left
<1>5. n \in Nat /\ 0 <= n /\ n <= Len(x \o y) /\ 0 + 1 = 1
  BY <1>3, <1>4
<1>6. SubSeq(x \o y, 0 + 1, n) \in Seq(Tokens)
  BY <1>3, <1>5, Slice
<1> QED
  BY <1>4, <1>5, <1>6

\* No step takes back what is on the wire, or changes the encoder.
LEMMA WireAppends ==
    ASSUME SinkInv, [Next]_vars
    PROVE  encoder' = encoder /\ \E more \in Seq(Tokens) : wire' = wire \o more
<1>1. encoder' = encoder
  BY DEF Next, CallNext, TaskNext, vars, callFrame, taskFrame, StartWrite, StartTryWrite, PollSend,
     Send, TrySend, LockStream, PollWrite, WriteSome, WouldBlock, WriteFails, DropWrite, Close,
     StartShutdown, ShutdownStream, TaskReceives, TaskWrites, TaskFails, TaskStops, TaskCancels,
     TaskEnds
<1>2. (\E n : SocketTakes(n)) \/ wire' = wire
  BY DEF Next, CallNext, TaskNext, vars, StartWrite, StartTryWrite, PollSend,
     Send, TrySend, LockStream, PollWrite, WriteSome, WouldBlock, WriteFails, DropWrite, Close,
     StartShutdown, ShutdownStream, TaskReceives, TaskWrites, TaskFails, TaskStops, TaskCancels,
     TaskEnds, callFrame
<1>3. CASE wire' = wire
  <2>1. wire \in Seq(Tokens)
    BY DEF SinkInv, SinkTypes
  <2>2. PICK none \in Seq(Tokens) : none = <<>>
    BY EmptySeq
  <2>3. wire \o none = wire
    BY <2>1, <2>2, ConcatEmptySeq
  <2> QED
    BY <1>1, <1>3, <2>3
<1>4. CASE \E n : SocketTakes(n)
  <2>1. PICK n : SocketTakes(n)
    BY <1>4
  <2>2. \E more \in Seq(Tokens) : wire' = wire \o more
    BY <2>1, TakesAppends
  <2> QED
    BY <1>1, <2>2
<1> QED
  BY <1>2, <1>3, <1>4

\* The lengths of the packets depend on the encoder only.
LEMMA LensStay ==
    ASSUME encoder' = encoder
    PROVE  lens' = lens
BY DEF lens, PacketLen

\* Steps of the sink keep LinkInv.
LEMMA SinkKeepsLink ==
    ASSUME SinkAssumption, LinkInv, [Next]_vars, UNCHANGED readerVars
    PROVE  LinkInv'
<1>1. SinkInv'
  BY SinkStep DEF LinkInv
<1>2. PICK more \in Seq(Tokens) : wire' = wire \o more
  BY WireAppends DEF LinkInv
<1>3. lens' = lens
  BY WireAppends, LensStay DEF LinkInv
<1>4. UNCHANGED <<peerTaken, peerDispatched, peerBuffer>>
  BY DEF readerVars
<1>5. wire \in Seq(Tokens)
  BY DEF LinkInv, SinkInv, SinkTypes
<1>6. ReadSoFar(Tokens, lens, wire, peerTaken[1], peerDispatched[1], peerBuffer[1])
  BY DEF LinkInv, PeerHolds
<1>7. ReadSoFar(Tokens, lens, wire \o more, peerTaken[1], peerDispatched[1], peerBuffer[1])
  BY <1>5, <1>6, StreamGrows
<1>8. Tokens' = Tokens
  BY DEF Tokens
<1>9. PeerHolds'
  BY <1>2, <1>3, <1>4, <1>7, <1>8 DEF LinkInv, PeerHolds
<1> QED
  BY <1>1, <1>9 DEF LinkInv

\* What a read of the peer puts into its buffer.
LEMMA PeerRefilled ==
    ASSUME LinkInv, NEW n, Reader!Take(1, n)
    PROVE  /\ peerTaken' = [peerTaken EXCEPT ![1] = peerTaken[1] + n]
           /\ ReadSoFar(Tokens, lens, wire, peerTaken[1] + n, peerDispatched[1],
                        Reader!Incoming(1, n))
           /\ Reader!Incoming(1, n) \in Seq(Tokens)
<1>1. n \in 1..ReadMax /\ peerTaken[1] + n <= Len(wire)
      /\ peerTaken' = [peerTaken EXCEPT ![1] = peerTaken[1] + n]
  BY DEF Reader!Take
<1>2. n \in Nat
  BY <1>1
<1>3. wire \in Seq(Tokens)
  BY DEF LinkInv, SinkInv, SinkTypes
<1>4. ReadSoFar(Tokens, lens, wire, peerTaken[1], peerDispatched[1], peerBuffer[1])
  BY DEF LinkInv, PeerHolds
<1>5. Reader!Incoming(1, n) = peerBuffer[1] \o SubSeq(wire, peerTaken[1] + 1, peerTaken[1] + n)
  BY DEF Reader!Incoming
<1>6. ReadSoFar(Tokens, lens, wire, peerTaken[1] + n, peerDispatched[1], Reader!Incoming(1, n))
  BY <1>1, <1>2, <1>3, <1>4, <1>5, ReadAppends
<1> QED
  BY <1>1, <1>6 DEF ReadSoFar

\* The frames move to the dispatcher, some or all of them.
LEMMA PeerDispatches ==
    ASSUME LinkInv, UNCHANGED vars, NEW n, NEW buf,
           peerTaken' = [peerTaken EXCEPT ![1] = peerTaken[1] + n],
           ReadSoFar(Tokens, lens, wire, peerTaken[1] + n, peerDispatched[1], buf),
           NEW F, TakenOff(Tokens, lens, buf, F),
           peerDispatched' = [peerDispatched EXCEPT ![1] = peerDispatched[1] \o F],
           peerBuffer' = [peerBuffer EXCEPT ![1] = After(buf, F)]
    PROVE  PeerHolds'
<1>1. wire \in Seq(Tokens)
  BY DEF LinkInv, SinkInv, SinkTypes
<1>2. ReadSoFar(Tokens, lens, wire, peerTaken[1] + n, peerDispatched[1] \o F, After(buf, F))
  BY <1>1, FramesMove DEF TakenOff
<1>3. wire' = wire /\ encoder' = encoder
  BY DEF vars
<1>4. lens' = lens /\ Tokens' = Tokens
  BY <1>3, LensStay DEF Tokens
<1>5. /\ 1 \in DOMAIN peerTaken' /\ 1 \in DOMAIN peerBuffer' /\ 1 \in DOMAIN peerDispatched'
      /\ peerTaken'[1] = peerTaken[1] + n /\ peerDispatched'[1] = peerDispatched[1] \o F
      /\ peerBuffer'[1] = After(buf, F)
  BY DEF LinkInv, PeerHolds
<1> QED
  BY <1>2, <1>3, <1>4, <1>5 DEF PeerHolds

\* A step of the peer that neither reads nor dispatches.
LEMMA PeerQuiet ==
    ASSUME LinkInv, UNCHANGED vars, UNCHANGED <<peerTaken, peerDispatched, peerBuffer>>
    PROVE  PeerHolds'
<1>1. wire' = wire /\ encoder' = encoder
  BY DEF vars
<1>2. lens' = lens /\ Tokens' = Tokens
  BY <1>1, LensStay DEF Tokens
<1> QED
  BY <1>1, <1>2 DEF LinkInv, PeerHolds

\* The peer reads: its buffer overflows, or all whole frames are dispatched.
LEMMA PeerReadKeeps ==
    ASSUME SinkAssumption, LinkInv, UNCHANGED vars, NEW n, Reader!ReadSome(1, n)
    PROVE  PeerHolds'
<1>1. PICK buf : buf = Reader!Incoming(1, n)
  OBVIOUS
<1>2. Reader!Take(1, n)
  BY DEF Reader!ReadSome
<1>3. /\ peerTaken' = [peerTaken EXCEPT ![1] = peerTaken[1] + n]
      /\ ReadSoFar(Tokens, lens, wire, peerTaken[1] + n, peerDispatched[1], buf)
      /\ buf \in Seq(Tokens)
  BY <1>1, <1>2, PeerRefilled
<1>4. CASE Reader!Overflows(buf)
  <2>1. peerBuffer' = [peerBuffer EXCEPT ![1] = buf] /\ peerDispatched' = peerDispatched
    BY <1>1, <1>4 DEF Reader!ReadSome
  <2>2. wire' = wire /\ encoder' = encoder
    BY DEF vars
  <2>3. lens' = lens /\ Tokens' = Tokens
    BY <2>2, LensStay DEF Tokens
  <2>4. /\ 1 \in DOMAIN peerTaken' /\ 1 \in DOMAIN peerBuffer' /\ 1 \in DOMAIN peerDispatched'
        /\ peerTaken'[1] = peerTaken[1] + n /\ peerDispatched'[1] = peerDispatched[1]
        /\ peerBuffer'[1] = buf
    BY <1>3, <2>1 DEF LinkInv, PeerHolds
  <2> QED
    BY <1>3, <2>2, <2>3, <2>4 DEF PeerHolds
<1>5. CASE ~Reader!Overflows(buf)
  <2>1. PICK F : F = WholeFrames(buf, lens)
    OBVIOUS
  <2>2. /\ peerDispatched' = [peerDispatched EXCEPT ![1] = peerDispatched[1] \o F]
        /\ peerBuffer' = [peerBuffer EXCEPT ![1] = After(buf, F)]
    BY <1>1, <1>5, <2>1, ReaderSplits DEF Reader!ReadSome, Reader!KeepRest
  <2>3. TakenOff(Tokens, lens, buf, F)
    BY <1>3, <2>1, TokensSized, FramesTaken DEF TakenOff
  <2> QED
    BY <1>3, <2>2, <2>3, PeerDispatches
<1> QED
  BY <1>4, <1>5

\* The peer reads and its dispatcher refuses a frame.
LEMMA PeerRefusalKeeps ==
    ASSUME SinkAssumption, LinkInv, UNCHANGED vars, NEW n, Reader!DispatchFails(1, n)
    PROVE  PeerHolds'
<1>1. PICK buf : buf = Reader!Incoming(1, n)
  OBVIOUS
<1>2. Reader!Take(1, n)
  BY DEF Reader!DispatchFails
<1>3. /\ peerTaken' = [peerTaken EXCEPT ![1] = peerTaken[1] + n]
      /\ ReadSoFar(Tokens, lens, wire, peerTaken[1] + n, peerDispatched[1], buf)
      /\ buf \in Seq(Tokens)
  BY <1>1, <1>2, PeerRefilled
<1>4. PICK F : F = WholeFrames(buf, lens)
  OBVIOUS
<1>5. PICK k \in 1..Len(F) :
         /\ peerDispatched' =
               [peerDispatched EXCEPT ![1] = peerDispatched[1] \o SubSeq(F, 1, k - 1)]
         /\ peerBuffer' = [peerBuffer EXCEPT ![1] = After(buf, SubSeq(F, 1, k - 1))]
  <2>1. F = Reader!Frames(Reader!Incoming(1, n))
    BY <1>1, <1>4, ReaderSplits
  <2>2. PICK k \in 1..Len(F) :
           /\ peerDispatched' = [peerDispatched EXCEPT ![1] = @ \o SubSeq(F, 1, k - 1)]
           /\ peerBuffer' = [peerBuffer EXCEPT
                                ![1] = Reader!Rest(Reader!Incoming(1, n), SubSeq(F, 1, k - 1))]
    BY <2>1 DEF Reader!DispatchFails
  <2>3. Reader!Rest(Reader!Incoming(1, n), SubSeq(F, 1, k - 1)) = After(buf, SubSeq(F, 1, k - 1))
    BY <1>1, ReaderSplits
  <2> QED
    BY <2>2, <2>3
<1>6. TakenOff(Tokens, lens, buf, SubSeq(WholeFrames(buf, lens), 1, k - 1))
  BY <1>3, <1>4, TokensSized, FramesPartlyTaken
<1> QED
  BY <1>3, <1>4, <1>5, <1>6, PeerDispatches

\* Every step of the two ends keeps LinkInv.
LEMMA LinkStep ==
    ASSUME SinkAssumption, LinkInv, [LinkNext]_linkVars
    PROVE  LinkInv'
<1>1. CASE Next /\ UNCHANGED readerVars
  BY <1>1, SinkKeepsLink
<1>2. CASE UNCHANGED linkVars
  BY <1>2, SinkKeepsLink DEF linkVars
<1>3. CASE PeerStep \/ PeerCancels
  <2>1. UNCHANGED vars
    BY <1>3 DEF PeerStep, PeerCancels
  <2>2. SinkInv'
    BY <2>1, SinkStutters DEF LinkInv
  <2>3. PeerHolds'
    <3>1. ASSUME NEW n \in 1..ReadMax, Reader!ReadSome(1, n) PROVE PeerHolds'
      BY <2>1, <3>1, PeerReadKeeps
    <3>2. ASSUME NEW n \in 1..ReadMax, Reader!DispatchFails(1, n) PROVE PeerHolds'
      BY <2>1, <3>2, PeerRefusalKeeps
    <3>3. CASE Reader!ReadEof(1) \/ Reader!ReadFails(1) \/ Reader!ReadCancelled(1)
      <4>1. UNCHANGED <<peerTaken, peerDispatched, peerBuffer>>
        BY <3>3 DEF Reader!ReadEof, Reader!ReadFails, Reader!ReadCancelled
      <4> QED
        BY <2>1, <4>1, PeerQuiet
    <3>4. CASE Reader!Cancel
      <4>1. UNCHANGED <<peerTaken, peerDispatched, peerBuffer>>
        BY <3>4 DEF Reader!Cancel, Reader!connVars
      <4> QED
        BY <2>1, <4>1, PeerQuiet
    <3> QED
      BY <1>3, <3>1, <3>2, <3>3, <3>4 DEF PeerStep, PeerCancels, Reader!ConnNext
  <2> QED
    BY <2>2, <2>3 DEF LinkInv
<1> QED
  BY <1>1, <1>2, <1>3 DEF LinkNext

\* Between two packets.
Boundary(q) ==
    q = 0 \/ (q \in 1..Len(wire) /\ \E w \in Writers : wire[q] = <<w, PacketLen(w)>>)

Unbroken == mode = "queued" \/ dropped = {}

\* Whatever follows a boundary is the beginning of a packet, and the packet is
\* whole if the wire is long enough.
LEMMA BlockAtBoundary ==
    ASSUME SinkAssumption, SinkInv, NEW q \in Nat, q < Len(wire), Boundary(q),
           NEW w \in Writers, wire[q + 1][1] = w
    PROVE  Sent(w) \in 1..PacketLen(w) /\ Block(w, q + 1, Sent(w))
<1>1. PICK n \in Nat : n = Sent(w)
  BY DEF SinkInv, SinkTypes
<1>2. n <= PacketLen(w) /\ PacketLen(w) \in Nat
  BY <1>1, PacketLens DEF SinkInv, SinkTypes
<1>3. PICK f \in Nat \ {0} : Block(w, f, n)
  BY <1>1 DEF SinkInv, Blocks
<1>4. Positions(w) = f..(f + n - 1) /\ \A k \in 1..n : wire[f + k - 1] = <<w, k>>
  BY <1>3 DEF Block
<1>5. Len(wire) \in Nat
  BY LenProperties DEF SinkInv, SinkTypes
<1>6. q + 1 \in Positions(w)
  BY <1>5 DEF Positions
<1>7. f <= q + 1 /\ q + 1 <= f + n - 1
  BY <1>4, <1>6
<1>8. CASE f = q + 1
  <2>1. n \in 1..PacketLen(w)
    BY <1>2, <1>7, <1>8
  <2> QED
    BY <1>1, <1>3, <1>8, <2>1
<1>9. CASE f # q + 1
  <2>1. PICK k \in Nat : k = (q - f) + 1
    BY <1>7, <1>9
  <2>2. k \in 1..n /\ f + k - 1 = q /\ k < n /\ q # 0
    BY <1>7, <1>9, <2>1
  <2>3. wire[q] = <<w, k>>
    BY <1>4, <2>2
  <2>4. PICK v \in Writers : wire[q] = <<v, PacketLen(v)>>
    BY <2>2 DEF Boundary
  <2>5. k = PacketLen(w)
    BY <2>3, <2>4
  <2> QED
    BY <1>2, <2>2, <2>5
<1> QED
  BY <1>8, <1>9

\* ... and it is not cut short there: only the end of the wire cuts a packet.
LEMMA PacketAtBoundary ==
    ASSUME SinkAssumption, SinkInv, Unbroken, NEW q \in Nat, q < Len(wire), Boundary(q),
           NEW w \in Writers, wire[q + 1][1] = w, q + PacketLen(w) <= Len(wire)
    PROVE  /\ Whole(w) /\ Block(w, q + 1, PacketLen(w)) /\ Boundary(q + PacketLen(w))
<1>1. PICK n \in Nat : n = Sent(w) /\ n \in 1..PacketLen(w) /\ Block(w, q + 1, n)
  BY BlockAtBoundary
<1>2. PICK p \in Nat : p = PacketLen(w) /\ p # 0
  BY PacketLens
<1>3. Len(wire) \in Nat
  BY LenProperties DEF SinkInv, SinkTypes
<1>4. Positions(w) = (q + 1)..((q + 1) + n - 1)
  BY <1>1 DEF Block
<1>5. n = p
  <2> SUFFICES ASSUME n # p PROVE FALSE
    OBVIOUS
  <2>1. n > 0 /\ n < p
    BY <1>1, <1>2
  <2>2. InHand(w) \/ (Broken /\ AtEnd(w)) \/ (mode = "direct" /\ w \in dropped)
    BY <1>1, <1>2, <2>1 DEF SinkInv, CutAtEnd
  <2>3. ~(mode = "direct" /\ w \in dropped)
    BY DEF Unbroken
  <2>4. AtEnd(w)
    BY <2>2, <2>3 DEF SinkInv, HandContinues, Continues
  <2>5. Positions(w) = (Len(wire) - n + 1)..((Len(wire) - n + 1) + n - 1)
    BY <1>1, <2>4 DEF AtEnd, Block
  <2>6. Len(wire) \in (Len(wire) - n + 1)..((Len(wire) - n + 1) + n - 1)
    BY <1>3, <2>1
  <2>7. Len(wire) \in (q + 1)..((q + 1) + n - 1)
    BY <1>4, <2>5, <2>6
  <2> QED
    BY <1>2, <1>3, <2>1, <2>7
<1>6. Whole(w)
  BY <1>1, <1>2, <1>5 DEF Whole, Sent
<1>7. p \in 1..n /\ (q + 1) + p - 1 = q + p /\ q + p \in 1..Len(wire)
  BY <1>2, <1>3, <1>5
<1>8. wire[q + p] = <<w, p>>
  BY <1>1, <1>7 DEF Block
<1>9. Boundary(q + p)
  BY <1>2, <1>7, <1>8 DEF Boundary
<1> QED
  BY <1>1, <1>2, <1>5, <1>6, <1>9

\* A prefix of the wire.
OfWire(x) ==
    x \in Seq(Tokens) /\ Len(x) <= Len(wire) /\ \A i \in 1..Len(x) : x[i] = wire[i]

\* The halves of a prefix of the wire.
LEMMA PrefixOfWire ==
    ASSUME NEW x \in Seq(Tokens), NEW y \in Seq(Tokens), OfWire(x \o y), Len(wire) \in Nat
    PROVE  OfWire(x) /\ Len(x \o y) = Len(x) + Len(y)
           /\ \A i \in 1..Len(y) : y[i] = wire[Len(x) + i]
<1>1. /\ Len(x \o y) = Len(x) + Len(y) /\ Len(x) \in Nat /\ Len(y) \in Nat
      /\ \A k \in 1..Len(x) : (x \o y)[k] = x[k]
      /\ \A k \in 1..Len(y) : (x \o y)[Len(x) + k] = y[k]
  BY Join
<1>2. Len(x) <= Len(wire)
  BY <1>1 DEF OfWire
<1>3. ASSUME NEW i \in 1..Len(x) PROVE x[i] = wire[i]
  <2>1. i \in 1..Len(x \o y)
    BY <1>1
  <2> QED
    BY <1>1, <2>1 DEF OfWire
<1>4. ASSUME NEW i \in 1..Len(y) PROVE y[i] = wire[Len(x) + i]
  <2>1. Len(x) + i \in 1..Len(x \o y)
    BY <1>1
  <2> QED
    BY <1>1, <2>1 DEF OfWire
<1> QED
  BY <1>1, <1>2, <1>3, <1>4 DEF OfWire


\* The k-th frame lies on the wire behind the first k - 1 ones, g[k - 1].
OnWire(D, g) ==
    /\ FlatPrefixes(Tokens, D, g)
    /\ \A k \in 0..Len(D) : OfWire(g[k]) /\ Len(g[k]) \in Nat
    /\ \A k \in 1..Len(D) :
          /\ Len(g[k]) = Len(g[k - 1]) + Len(D[k])
          /\ \A i \in 1..Len(D[k]) : D[k][i] = wire[Len(g[k - 1]) + i]

\* The dispatched frames lie on the wire one behind the other.
LEMMA FramesOnWire ==
    ASSUME LinkInv
    PROVE  \E g : OnWire(peerDispatched[1], g)
<1>1. PICK D : D = peerDispatched[1]
  OBVIOUS
<1>2. PICK B \in Seq(Tokens), m \in Nat :
         /\ m <= Len(wire) /\ D \in Seq(Seq(Tokens))
         /\ FlattenSeq(D) \o B = SubSeq(wire, 1, m)
  BY <1>1 DEF LinkInv, PeerHolds, ReadSoFar
<1>3. wire \in Seq(Tokens) /\ Len(wire) \in Nat
  BY LenProperties DEF LinkInv, SinkInv, SinkTypes
<1>4. PICK g : FlatPrefixes(Tokens, D, g) /\ FlattenSeq(D) = g[Len(D)]
  BY <1>2, FlatPrefixesExist
<1>5. PICK N \in Nat : N = Len(D)
  BY <1>2, LenProperties
<1>6. /\ \A k \in 0..N : g[k] \in Seq(Tokens) /\ Len(g[k]) \in Nat
      /\ \A k \in 1..N : g[k] = g[k - 1] \o D[k]
  BY <1>4, <1>5, LenProperties DEF FlatPrefixes
<1>7. \A k \in 1..N : D[k] \in Seq(Tokens)
  BY <1>2, <1>5, ElementOfSeq
<1>8. OfWire(SubSeq(wire, 1, m))
  <2>1. 0 <= m /\ 0 + 1 = 1 /\ m - 0 = m
    OBVIOUS
  <2>2. /\ SubSeq(wire, 0 + 1, m) \in Seq(Tokens) /\ Len(SubSeq(wire, 0 + 1, m)) = m - 0
        /\ \A k \in 1..(m - 0) : SubSeq(wire, 0 + 1, m)[k] = wire[0 + k]
    BY <1>2, <1>3, <2>1, Slice
  <2>3. \A k \in 1..m : 0 + k = k
    OBVIOUS
  <2> QED
    BY <1>2, <2>1, <2>2, <2>3 DEF OfWire
<1>9. OfWire(g[N])
  <2>1. PICK x \in Seq(Tokens) : x = g[N]
    BY <1>6
  <2>2. OfWire(x \o B)
    BY <1>2, <1>4, <1>5, <1>8, <2>1
  <2> QED
    BY <1>3, <2>1, <2>2, PrefixOfWire
\* From the last frame back to the first.
<1> DEFINE S == {j \in Nat : j <= N => OfWire(g[N - j])}
<1>10. 0 \in S
  BY <1>9
<1>11. ASSUME NEW j \in Nat, j \in S PROVE j + 1 \in S
  <2> SUFFICES ASSUME j + 1 <= N PROVE OfWire(g[N - (j + 1)])
    OBVIOUS
  <2>1. PICK k \in 1..N : k = N - j
    OBVIOUS
  <2>2. N - (j + 1) = k - 1 /\ j <= N /\ k - 1 \in 0..N
    BY <2>1
  <2>3. OfWire(g[k])
    BY <1>11, <2>1, <2>2
  <2>4. PICK x \in Seq(Tokens), y \in Seq(Tokens) : x = g[k - 1] /\ y = D[k]
    BY <1>6, <1>7, <2>2
  <2>5. OfWire(x \o y)
    BY <1>6, <2>3, <2>4
  <2>6. OfWire(x)
    BY <1>3, <2>5, PrefixOfWire
  <2> QED
    BY <2>2, <2>4, <2>6
<1> HIDE DEF S
<1>12. Nat \subseteq S
  BY <1>10, <1>11, NatSetInduction
<1>13. ASSUME NEW k \in 0..N PROVE OfWire(g[k])
  <2>1. PICK j \in Nat : j = N - k
    OBVIOUS
  <2>2. j <= N /\ N - j = k
    BY <2>1
  <2>3. j \in S
    BY <1>12
  <2> QED
    BY <2>2, <2>3 DEF S
<1>14. ASSUME NEW k \in 1..N
       PROVE  /\ Len(g[k]) = Len(g[k - 1]) + Len(D[k])
              /\ \A i \in 1..Len(D[k]) : D[k][i] = wire[Len(g[k - 1]) + i]
  <2>1. k \in 0..N /\ k - 1 \in 0..N
    OBVIOUS
  <2>2. PICK x \in Seq(Tokens), y \in Seq(Tokens) : x = g[k - 1] /\ y = D[k]
    BY <1>6, <1>7, <2>1
  <2>3. OfWire(x \o y) /\ g[k] = x \o y
    BY <1>6, <1>13, <2>1, <2>2
  <2>4. Len(x \o y) = Len(x) + Len(y) /\ \A i \in 1..Len(y) : y[i] = wire[Len(x) + i]
    BY <1>3, <2>3, PrefixOfWire
  <2> QED
    BY <2>2, <2>3, <2>4
<1>15. OnWire(D, g)
  BY <1>4, <1>5, <1>6, <1>13, <1>14 DEF OnWire
<1> QED
  BY <1>1, <1>15

\* The frame k is the packet of w, where it lies on the wire.
IsPacket(D, g, k, w) ==
    /\ w \in Writers /\ D[k] = PacketOf(w) /\ Whole(w)
    /\ Positions(w) = (Len(g[k - 1]) + 1)..Len(g[k]) /\ Len(g[k - 1]) < Len(g[k])
    /\ Boundary(Len(g[k]))

\* A frame that begins at a boundary is a packet, and ends at one.
LEMMA FrameIsPacket ==
    ASSUME SinkAssumption, LinkInv, Unbroken, NEW D, D = peerDispatched[1], NEW g, OnWire(D, g),
           NEW k \in 1..Len(D), Boundary(Len(g[k - 1]))
    PROVE  \E w \in Writers : IsPacket(D, g, k, w)
<1>1. D \in Seq(Seq(Tokens)) /\ FullFrame(D[k], lens)
  BY DEF LinkInv, PeerHolds, ReadSoFar, FullFrames
<1>2. Len(D) \in Nat /\ k \in 0..Len(D) /\ k - 1 \in 0..Len(D)
  BY <1>1, LenProperties
<1>3. PICK x \in Seq(Tokens) : x = D[k]
  BY <1>1, ElementOfSeq
<1>4. x # <<>> /\ Len(x) = lens[x[1][1]]
  BY <1>1, <1>3 DEF FullFrame
<1>5. Len(x) \in Nat /\ Len(x) > 0
  BY <1>4, LenProperties, EmptySeq
<1>6. PICK q \in Nat : q = Len(g[k - 1])
  BY <1>2 DEF OnWire
<1>7. /\ Len(g[k]) = q + Len(x) /\ Len(g[k]) <= Len(wire)
      /\ \A i \in 1..Len(x) : x[i] = wire[q + i]
  BY <1>2, <1>3, <1>6 DEF OnWire, OfWire
<1>8. 1 \in 1..Len(x)
  BY <1>5
<1>9. x[1] \in Tokens /\ x[1] = wire[q + 1]
  BY <1>7, <1>8, ElementOfSeq
<1>10. PICK w \in Writers : w = x[1][1]
  BY <1>9 DEF Tokens
<1>11. PICK p \in Nat : p = PacketLen(w) /\ p # 0
  BY PacketLens
<1>12. Len(x) = p
  BY <1>4, <1>10, <1>11 DEF lens
<1>13. Len(wire) \in Nat /\ SinkInv
  BY LenProperties DEF LinkInv, SinkInv, SinkTypes
<1>14. q < Len(wire) /\ q + PacketLen(w) <= Len(wire) /\ wire[q + 1][1] = w
  BY <1>7, <1>9, <1>10, <1>11, <1>12, <1>13
<1>15. Whole(w) /\ Block(w, q + 1, PacketLen(w)) /\ Boundary(q + PacketLen(w))
  BY <1>6, <1>13, <1>14, PacketAtBoundary
<1>16. /\ Positions(w) = (q + 1)..((q + 1) + p - 1)
       /\ \A i \in 1..p : wire[(q + 1) + i - 1] = <<w, i>>
  BY <1>11, <1>15 DEF Block
<1>17. (q + 1) + p - 1 = q + p /\ q < q + p
  BY <1>11
<1>18. x = PacketOf(w)
  <2> DEFINE b == Bytes(w, 0 + 1, 0 + p)
  <2>1. 0 \in Nat /\ 0 + 1 = 1 /\ 0 + p = p
    OBVIOUS
  <2>2. b \in Seq(Tokens) /\ Len(b) = p /\ \A i \in 1..p : b[i] = <<w, 0 + i>>
    BY <2>1, BytesAre
  <2>3. PacketOf(w) = b
    BY <1>11, <2>1 DEF PacketOf
  <2> HIDE DEF b
  <2>4. ASSUME NEW i \in 1..p PROVE x[i] = b[i]
    <3>1. (q + 1) + i - 1 = q + i /\ 0 + i = i
      OBVIOUS
    <3> QED
      BY <1>7, <1>12, <1>16, <2>2, <3>1
  <2>5. x = b
    BY <1>12, <2>2, <2>4, SeqEqual
  <2> QED
    BY <2>3, <2>5
<1>19. IsPacket(D, g, k, w)
  BY <1>3, <1>6, <1>7, <1>11, <1>12, <1>15, <1>16, <1>17, <1>18 DEF IsPacket
<1> QED
  BY <1>19

\* By induction, every frame is a packet, each behind the one before it.
LEMMA AllBoundaries ==
    ASSUME SinkAssumption, LinkInv, Unbroken, NEW D, D = peerDispatched[1], NEW g, OnWire(D, g)
    PROVE  /\ \A k \in 1..Len(D) : \E w \in Writers : IsPacket(D, g, k, w)
           /\ \A i, k \in 0..Len(D) : i <= k => Len(g[i]) <= Len(g[k])
<1>1. PICK N \in Nat : N = Len(D)
  BY LenProperties DEF LinkInv, PeerHolds, ReadSoFar
<1> DEFINE S == {k \in Nat : k <= N => /\ Boundary(Len(g[k]))
                                       /\ \A i \in 0..k : Len(g[i]) <= Len(g[k])}
<1>2. g[0] = <<>>
  BY DEF OnWire, FlatPrefixes
<1>3. 0 \in S
  <2>1. Len(g[0]) = 0
    BY <1>2, EmptySeq
  <2>2. \A i \in 0..0 : i = 0
    OBVIOUS
  <2> QED
    BY <2>1, <2>2 DEF Boundary
<1>4. ASSUME NEW k \in Nat, k \in S PROVE k + 1 \in S
  <2> SUFFICES ASSUME k + 1 <= N
               PROVE  /\ Boundary(Len(g[k + 1]))
                      /\ \A i \in 0..(k + 1) : Len(g[i]) <= Len(g[k + 1])
    OBVIOUS
  <2>1. k + 1 \in 1..Len(D) /\ (k + 1) - 1 = k /\ k <= N
    BY <1>1
  <2>2. Boundary(Len(g[k])) /\ \A i \in 0..k : Len(g[i]) <= Len(g[k])
    BY <1>4, <2>1
  <2>3. PICK w \in Writers : IsPacket(D, g, k + 1, w)
    BY <2>1, <2>2, FrameIsPacket
  <2>4. Boundary(Len(g[k + 1])) /\ Len(g[k]) < Len(g[k + 1])
    BY <2>1, <2>3 DEF IsPacket
  <2>5. \A i \in 0..(k + 1) : Len(g[i]) \in Nat
    BY <1>1, <2>1 DEF OnWire
  <2>6. ASSUME NEW i \in 0..(k + 1) PROVE Len(g[i]) <= Len(g[k + 1])
    <3>1. CASE i = k + 1
      BY <2>5, <3>1
    <3>2. CASE i # k + 1
      <4>1. i \in 0..k /\ k \in 0..(k + 1) /\ k + 1 \in 0..(k + 1)
        BY <3>2
      <4> QED
        BY <2>2, <2>4, <2>5, <4>1
    <3> QED
      BY <3>1, <3>2
  <2> QED
    BY <2>4, <2>6
<1> HIDE DEF S
<1>5. Nat \subseteq S
  BY <1>3, <1>4, NatSetInduction
<1>6. \A k \in 0..N : Boundary(Len(g[k])) /\ \A i \in 0..k : Len(g[i]) <= Len(g[k])
  BY <1>5 DEF S
<1>7. ASSUME NEW k \in 1..N PROVE \E w \in Writers : IsPacket(D, g, k, w)
  <2>1. k - 1 \in 0..N /\ k \in 1..Len(D)
    BY <1>1
  <2>2. Boundary(Len(g[k - 1]))
    BY <1>6, <2>1
  <2> QED
    BY <2>1, <2>2, FrameIsPacket
<1> QED
  BY <1>1, <1>6, <1>7

\* A packet's first byte tells whose it is.
LEMMA FirstByte ==
    ASSUME SinkAssumption, NEW w \in Writers
    PROVE  PacketOf(w)[1] = <<w, 1>>
<1>1. PICK p \in Nat : p = PacketLen(w) /\ p # 0
  BY PacketLens
<1>2. 0 \in Nat /\ 0 + 1 = 1 /\ 0 + p = p /\ 1 \in 1..p
  BY <1>1
<1>3. \A i \in 1..p : Bytes(w, 0 + 1, 0 + p)[i] = <<w, 0 + i>>
  BY <1>2, BytesAre
<1> QED
  BY <1>1, <1>2, <1>3 DEF PacketOf

\* In a state of LinkInv, packets have arrived whole.
LEMMA LinkFollows ==
    ASSUME SinkAssumption, LinkInv
    PROVE  PacketsArriveWhole
<1>1. TypeOK /\ FramesWhole /\ AnswersHold
  BY FramesFollow, AnswersFollow DEF LinkInv, SinkInv, SinkTypes
<1>2. PICK D : D = peerDispatched[1]
  OBVIOUS
<1>4. FlattenSeq(D) \o peerBuffer[1] = SubSeq(wire, 1, peerTaken[1])
  BY <1>2 DEF LinkInv, PeerHolds, ReadSoFar
<1>3. ASSUME Unbroken
      PROVE  /\ \A i \in 1..Len(D) : \E w \in Writers : D[i] = PacketOf(w) /\ result[w] # "err"
             /\ \A i, j \in 1..Len(D) : D[i] = D[j] => i = j
  <2>1. PICK g : OnWire(D, g)
    BY <1>2, FramesOnWire
  <2>2. /\ \A k \in 1..Len(D) : \E w \in Writers : IsPacket(D, g, k, w)
        /\ \A i, k \in 0..Len(D) : i <= k => Len(g[i]) <= Len(g[k])
    BY <1>2, <1>3, <2>1, AllBoundaries
  <2>3. ASSUME NEW i \in 1..Len(D)
        PROVE  \E w \in Writers : D[i] = PacketOf(w) /\ result[w] # "err"
    <3>1. PICK w \in Writers : IsPacket(D, g, i, w)
      BY <2>2
    <3> QED
      BY <1>1, <3>1 DEF IsPacket, AnswersHold
  <2>4. Len(D) \in Nat /\ \A k \in 0..Len(D) : Len(g[k]) \in Nat
    BY <1>2, <2>1, LenProperties DEF OnWire, LinkInv, PeerHolds, ReadSoFar
  <2>5. ASSUME NEW i \in 1..Len(D), NEW j \in 1..Len(D), D[i] = D[j], i < j PROVE FALSE
    <3>1. PICK w \in Writers : IsPacket(D, g, i, w)
      BY <2>2
    <3>2. PICK v \in Writers : IsPacket(D, g, j, v)
      BY <2>2
    <3>3. PacketOf(w) = PacketOf(v) /\ PacketOf(w)[1] = <<w, 1>> /\ PacketOf(v)[1] = <<v, 1>>
      BY <2>5, <3>1, <3>2, FirstByte DEF IsPacket
    <3>4. w = v
      BY <3>3
    <3>5. /\ i \in 0..Len(D) /\ i - 1 \in 0..Len(D) /\ j \in 0..Len(D) /\ j - 1 \in 0..Len(D)
          /\ i <= j - 1
      BY <2>4, <2>5
    <3>6. PICK a \in Nat, b \in Nat, c \in Nat, d \in Nat :
             a = Len(g[i - 1]) /\ b = Len(g[i]) /\ c = Len(g[j - 1]) /\ d = Len(g[j])
      BY <2>4, <3>5
    <3>7. (a + 1)..b = (c + 1)..d /\ a < b /\ c < d
      BY <3>1, <3>2, <3>4, <3>6 DEF IsPacket
    <3>8. b <= c
      BY <2>2, <3>5, <3>6
    <3>9. b \in (a + 1)..b /\ ~(b \in (c + 1)..d)
      BY <3>7, <3>8
    <3> QED
      BY <3>7, <3>9
  <2>6. ASSUME NEW i \in 1..Len(D), NEW j \in 1..Len(D), D[i] = D[j] PROVE i = j
    <3>1. i < j \/ j < i \/ i = j
      BY <2>4
    <3> QED
      BY <2>5, <2>6, <3>1
  <2> QED
    BY <2>3, <2>6
<1> QED
  BY <1>1, <1>2, <1>3, <1>4 DEF PacketsArriveWhole, Unbroken

\* Whatever the callers, the sink, the socket, the reader and the tokens do,
\* and for any number of callers, lengths and limits: the packets of one side
\* reach the dispatcher of the other whole, at most once and in the order of
\* the wire, and none whose caller was told Err.
THEOREM PacketsCross ==
    ASSUME SinkAssumption
    PROVE  LinkSpec => []PacketsArriveWhole
<1>1. LinkInit => LinkInv
  BY LinkStarts
<1>2. LinkInv /\ [LinkNext]_linkVars => LinkInv'
  BY LinkStep
<1>3. LinkInv => PacketsArriveWhole
  BY LinkFollows
<1> QED
  BY <1>1, <1>2, <1>3, PTL DEF LinkSpec
=============================================================================
