------------------------ MODULE PacketWriterProofs -------------------------
(***************************************************************************)
(* Machine-checked proofs about PacketWriter, for any connections, waiters *)
(* and number of abandoned closes.  The second part is about the index by  *)
(* IP: what Retain computes for every list, and from it that the lists     *)
(* agree with the table.                                                   *)
(***************************************************************************)
EXTENDS PacketWriter, SequenceLemmas, FiniteSetTheorems, FunctionTheorems

\* The types the proof needs: all but those of the lists and the waiters' ends.
Types ==
    /\ writers \in [Addrs -> Conns \cup {None}]
    /\ DOMAIN byIp = Ips
    /\ closed \in BOOLEAN /\ ioCancel \in BOOLEAN
    /\ token \subseteq Conns /\ pc \in [Conns -> ConnSteps]
    /\ prev \in [Conns -> Conns \cup {None}]
    /\ inHand \subseteq Conns
    /\ wpc \in [Waiters -> WaitSteps] /\ target \in [Waiters -> Addrs \cup {None}]
    /\ notified \in [Waiters -> BOOLEAN]
    /\ cpc \in CloseSteps /\ sinks \subseteq Conns /\ abandons \in Nat

\* A connection sits in the table at its own address, from its insertion
\* until it removes itself.
Placed ==
    \A a \in Addrs : writers[a] # None =>
        /\ AddrOf[writers[a]] = a
        /\ pc[writers[a]] \in {"evict", "notify", "registered", "removing"}

\* A waiter past its first look knows what it waits for.
Aimed == \A w \in Waiters : wpc[w] # "idle" => target[w] \in Addrs

\* The sinks close holds, and the order of its cancellations.
Closing ==
    /\ cpc # "idle" => ioCancel
    /\ cpc \notin {"idle", "cancel"} => closed
    /\ abandons > 0 => ioCancel
    /\ sinks # {} => cpc \in {"sinks", "shutdown"}

\* Sinks on their way out have a reason to be.
Reasons ==
    /\ inHand \subseteq dismissed
    /\ sinks # {} => closed
    /\ \A c \in Conns : pc[c] \in {"idle", "lock"} =>
          /\ c \notin token \cup inHand \cup sinks /\ prev[c] = None
          /\ \A d \in Conns : prev[d] # c

IInv == /\ Types /\ Placed /\ Aimed /\ Closing /\ Reasons
        /\ NoSinkLeaked /\ ClosedForAReason /\ ClosedStaysEmpty /\ NoLostWakeup

\* Every step of the code keeps IInv.
LEMMA Step == IInv /\ [Next]_vars => IInv'
<1> SUFFICES ASSUME IInv, [Next]_vars PROVE IInv'
  OBVIOUS
<1> USE WriterAssumption DEF IInv, Types, ConnSteps, WaitSteps, CloseSteps,
    connVars, waitVars, closeVars, connFrame, waitFrame, udpFrame, closeFrame
<1>1. ASSUME NEW c \in Conns, InsertCheck(c) PROVE IInv'
  <2>1. NoLostWakeup'
    BY <1>1 DEF InsertCheck, Refuse, NoLostWakeup, Placed, Aimed
  <2> QED
    BY <1>1, <2>1 DEF InsertCheck, Refuse, Types, Placed, Aimed, Closing,
      Reasons, NoSinkLeaked, WasRegistered, BeingClosed, Cancelled,
      ClosedForAReason, ClosedStaysEmpty
<1>2. ASSUME NEW c \in Conns, InsertLocked(c) PROVE IInv'
  <2>1. Reasons'
    BY <1>2 DEF InsertLocked, Refuse, Enter, Reasons, Placed
  <2>2. ClosedForAReason'
    BY <1>2 DEF InsertLocked, Refuse, Enter, ClosedForAReason, Reasons
  <2>3. NoLostWakeup'
    BY <1>2 DEF InsertLocked, Refuse, Enter, NoLostWakeup, Placed, Aimed
  <2> QED
    BY <1>2, <2>1, <2>2, <2>3 DEF InsertLocked, Refuse, Enter, Types, Placed,
      Aimed, Closing, NoSinkLeaked, WasRegistered, BeingClosed, Cancelled,
      ClosedStaysEmpty
<1>3. ASSUME NEW c \in Conns, CloseDisplaced(c) PROVE IInv'
  BY <1>3 DEF CloseDisplaced, Types, Placed, Aimed, Closing, Reasons,
    NoSinkLeaked, WasRegistered, BeingClosed, Cancelled, ClosedForAReason,
    ClosedStaysEmpty, NoLostWakeup
<1>4. ASSUME NEW c \in Conns, NotifyWaiters(c) PROVE IInv'
  <2>1. Types'
    BY <1>4 DEF NotifyWaiters, Types
  <2>2. NoLostWakeup'
    BY <1>4 DEF NotifyWaiters, NoLostWakeup, Placed, Aimed
  <2> QED
    BY <1>4, <2>1, <2>2 DEF NotifyWaiters, Placed, Aimed, Closing, Reasons,
      NoSinkLeaked, WasRegistered, BeingClosed, Cancelled, ClosedForAReason,
      ClosedStaysEmpty
<1>5. ASSUME NEW c \in Conns, ConnectionEnds(c) PROVE IInv'
  BY <1>5 DEF ConnectionEnds, Types, Placed, Aimed, Closing, Reasons,
    NoSinkLeaked, WasRegistered, BeingClosed, Cancelled, ClosedForAReason,
    ClosedStaysEmpty, NoLostWakeup
<1>6. ASSUME NEW c \in Conns, RemoveRegistered(c) PROVE IInv'
  <2>1. NoLostWakeup'
    BY <1>6 DEF RemoveRegistered, TakeOut, NoLostWakeup, Placed, Aimed
  <2> QED
    BY <1>6, <2>1 DEF RemoveRegistered, TakeOut, Types, Placed, Aimed, Closing,
      Reasons, NoSinkLeaked, WasRegistered, BeingClosed, Cancelled,
      ClosedForAReason, ClosedStaysEmpty
<1>7. ASSUME NEW c \in Conns, CloseRemoved(c) PROVE IInv'
  BY <1>7 DEF CloseRemoved, Types, Placed, Aimed, Closing, Reasons,
    NoSinkLeaked, WasRegistered, BeingClosed, Cancelled, ClosedForAReason,
    ClosedStaysEmpty, NoLostWakeup
<1>8. ASSUME NEW c \in Conns, CloseDismissed(c) PROVE IInv'
  <2>1. ClosedForAReason'
    BY <1>8 DEF CloseDismissed, ClosedForAReason, Reasons
  <2> QED
    BY <1>8, <2>1 DEF CloseDismissed, Types, Placed, Aimed, Closing, Reasons,
      NoSinkLeaked, WasRegistered, BeingClosed, Cancelled, ClosedStaysEmpty,
      NoLostWakeup
<1>9. ASSUME NEW a \in Addrs, RemoveTcpWriter(a) PROVE IInv'
  <2>1. Types'
    BY <1>9 DEF RemoveTcpWriter, TakeOut, Types
  <2>2. Placed'
    BY <1>9 DEF RemoveTcpWriter, TakeOut, Placed
  <2>3. Reasons'
    BY <1>9 DEF RemoveTcpWriter, TakeOut, Reasons, Placed
  <2>4. NoSinkLeaked'
    BY <1>9 DEF RemoveTcpWriter, TakeOut, NoSinkLeaked, WasRegistered,
      BeingClosed, Cancelled, Placed
  <2>5. ClosedStaysEmpty'
    BY <1>9 DEF RemoveTcpWriter, TakeOut, ClosedStaysEmpty
  <2>6. NoLostWakeup'
    BY <1>9 DEF RemoveTcpWriter, TakeOut, NoLostWakeup, Placed, Aimed
  <2> QED
    BY <1>9, <2>1, <2>2, <2>3, <2>4, <2>5, <2>6 DEF RemoveTcpWriter, TakeOut,
      Aimed, Closing, ClosedForAReason
<1>10. ASSUME NEW w \in Waiters, NEW a \in Addrs, StartWait(w, a) PROVE IInv'
  BY <1>10 DEF StartWait, Types, Placed, Aimed, Closing, Reasons, NoSinkLeaked,
    WasRegistered, BeingClosed, Cancelled, ClosedForAReason, ClosedStaysEmpty,
    NoLostWakeup
<1>11. ASSUME NEW w \in Waiters, WaitCheck(w) PROVE IInv'
  BY <1>11 DEF WaitCheck, Return, Types, Placed, Aimed, Closing, Reasons,
    NoSinkLeaked, WasRegistered, BeingClosed, Cancelled, ClosedForAReason,
    ClosedStaysEmpty, NoLostWakeup
<1>12. ASSUME NEW w \in Waiters, WaitArm(w) PROVE IInv'
  BY <1>12 DEF WaitArm, Types, Placed, Aimed, Closing, Reasons, NoSinkLeaked,
    WasRegistered, BeingClosed, Cancelled, ClosedForAReason, ClosedStaysEmpty,
    NoLostWakeup
<1>13. ASSUME NEW w \in Waiters, WaitRecheck(w) PROVE IInv'
  BY <1>13 DEF WaitRecheck, Return, Types, Placed, Aimed, Closing, Reasons,
    NoSinkLeaked, WasRegistered, BeingClosed, Cancelled, ClosedForAReason,
    ClosedStaysEmpty, NoLostWakeup
<1>14. ASSUME NEW w \in Waiters, WaitWake(w) PROVE IInv'
  BY <1>14 DEF WaitWake, Return, Types, Placed, Aimed, Closing, Reasons,
    NoSinkLeaked, WasRegistered, BeingClosed, Cancelled, ClosedForAReason,
    ClosedStaysEmpty, NoLostWakeup
<1>15. ASSUME NEW u \in UdpWriters, UdpNext(u) PROVE IInv'
  BY <1>15 DEF UdpNext, UdpOpen, UdpLock, UdpSent, UdpClosed, Types, Placed,
    Aimed, Closing, Reasons, NoSinkLeaked, WasRegistered, BeingClosed,
    Cancelled, ClosedForAReason, ClosedStaysEmpty, NoLostWakeup
<1>16. CASE CancelEndpoint
  BY <1>16 DEF CancelEndpoint, Types, Placed, Aimed, Closing, Reasons,
    NoSinkLeaked, WasRegistered, BeingClosed, Cancelled, ClosedForAReason,
    ClosedStaysEmpty, NoLostWakeup
<1>17. CASE DropEndpoint
  BY <1>17 DEF DropEndpoint, Types, Placed, Aimed, Closing, Reasons,
    NoSinkLeaked, WasRegistered, BeingClosed, Cancelled, ClosedForAReason,
    ClosedStaysEmpty, NoLostWakeup
<1>18. CASE CancelClosed
  BY <1>18 DEF CancelClosed, Types, Placed, Aimed, Closing, Reasons,
    NoSinkLeaked, WasRegistered, BeingClosed, Cancelled, ClosedForAReason,
    ClosedStaysEmpty, NoLostWakeup
<1>19. CASE Snapshot
  <2>1. Reasons'
    BY <1>19 DEF Snapshot, Reasons, Closing, Placed
  <2>2. NoSinkLeaked'
    BY <1>19 DEF Snapshot, NoSinkLeaked, WasRegistered, BeingClosed, Cancelled,
      Closing
  <2>3. NoLostWakeup'
    BY <1>19 DEF Snapshot, NoLostWakeup, Aimed
  <2> QED
    BY <1>19, <2>1, <2>2, <2>3 DEF Snapshot, Types, Placed, Aimed, Closing,
      ClosedForAReason, ClosedStaysEmpty
<1>20. ASSUME NEW c \in Conns, CloseSink(c) PROVE IInv'
  <2>1. ClosedForAReason'
    BY <1>20 DEF CloseSink, ClosedForAReason, Reasons
  <2> QED
    BY <1>20, <2>1 DEF CloseSink, Types, Placed, Aimed, Closing, Reasons,
      NoSinkLeaked, WasRegistered, BeingClosed, Cancelled, ClosedStaysEmpty,
      NoLostWakeup
<1>21. CASE ShutdownDone
  BY <1>21 DEF ShutdownDone, Types, Placed, Aimed, Closing, Reasons,
    NoSinkLeaked, WasRegistered, BeingClosed, Cancelled, ClosedForAReason,
    ClosedStaysEmpty, NoLostWakeup
<1>22. CASE SinksClosed
  BY <1>22 DEF SinksClosed, Types, Placed, Aimed, Closing, Reasons,
    NoSinkLeaked, WasRegistered, BeingClosed, Cancelled, ClosedForAReason,
    ClosedStaysEmpty, NoLostWakeup
<1>23. CASE TakeUdp
  BY <1>23 DEF TakeUdp, Types, Placed, Aimed, Closing, Reasons, NoSinkLeaked,
    WasRegistered, BeingClosed, Cancelled, ClosedForAReason, ClosedStaysEmpty,
    NoLostWakeup
<1>24. CASE Abandon
  <2>1. NoSinkLeaked'
    BY <1>24 DEF Abandon, NoSinkLeaked, WasRegistered, BeingClosed, Cancelled,
      Closing
  <2> QED
    BY <1>24, <2>1 DEF Abandon, Types, Placed, Aimed, Closing, Reasons,
      ClosedForAReason, ClosedStaysEmpty, NoLostWakeup
<1>25. CASE UNCHANGED vars
  BY <1>25 DEF vars, WasRegistered, BeingClosed, Cancelled, Types, Placed,
    Aimed, Closing, Reasons, NoSinkLeaked, ClosedForAReason, ClosedStaysEmpty,
    NoLostWakeup
<1> QED
  BY <1>1, <1>2, <1>3, <1>4, <1>5, <1>6, <1>7, <1>8, <1>9, <1>10, <1>11, <1>12,
    <1>13, <1>14, <1>15, <1>16, <1>17, <1>18, <1>19, <1>20, <1>21, <1>22, <1>23,
    <1>24, <1>25 DEF Next, ConnNext, WaitNext, CloseStep

\* The initial state: an empty table, nobody connected, waiting or closing.
LEMMA InitIInv == Init => IInv
<1> SUFFICES ASSUME Init PROVE IInv
  OBVIOUS
<1> USE WriterAssumption DEF Init
<1>1. writers \in [Addrs -> Conns \cup {None}] /\ pc \in [Conns -> ConnSteps]
  BY DEF ConnSteps
<1>2. wpc \in [Waiters -> WaitSteps] /\ notified \in [Waiters -> BOOLEAN]
  BY DEF WaitSteps
<1>3. Types
  BY <1>1, <1>2 DEF Types, CloseSteps
<1>4. Placed /\ Aimed /\ Closing /\ Reasons
  BY DEF Placed, Aimed, Closing, Reasons
<1>5. NoSinkLeaked /\ ClosedForAReason /\ ClosedStaysEmpty /\ NoLostWakeup
  BY DEF NoSinkLeaked, WasRegistered, ClosedForAReason, ClosedStaysEmpty, NoLostWakeup
<1> QED
  BY <1>3, <1>4, <1>5 DEF IInv

\* IInv is inductive, hence an invariant of every behaviour.
LEMMA Invariance == Spec => []IInv
  BY InitIInv, Step, PTL DEF Spec

----------------------------------------------------------------------------
\* No TCP sink that insert_tcp_sink registered is ever lost: it is in the
\* table, closed, or held by the call that will close it.
THEOREM NoLeak == Spec => []NoSinkLeaked
<1>1. IInv => NoSinkLeaked
  BY DEF IInv
<1> QED
  BY Invariance, <1>1, PTL

\* remove_registered_tcp_writer never takes down a newer connection: the
\* writer_id check protects every generation from the ones before it.
THEOREM GenerationSafe == Spec => []ClosedForAReason
<1>1. IInv => ClosedForAReason
  BY DEF IInv
<1> QED
  BY Invariance, <1>1, PTL

\* No insertion slips into a table that close has emptied.
THEOREM ClosedIsEmpty == Spec => []ClosedStaysEmpty
<1>1. IInv => ClosedStaysEmpty
  BY DEF IInv
<1> QED
  BY Invariance, <1>1, PTL

\* wait_tcp_sink loses no wake-up, because it creates its Notified future
\* before it looks at the table a second time.
THEOREM WakeupsKept == Spec => []NoLostWakeup
<1>1. IInv => NoLostWakeup
  BY DEF IInv
<1> QED
  BY Invariance, <1>1, PTL

----------------------------------------------------------------------------
(* Vec::retain, for every list.                                            *)

\* One step of Retain on the first n elements, from the results g for fewer.
Kept(list, keep, g, n) ==
    IF n = 0 THEN <<>>
    ELSE IF list[n] \in keep THEN Append(g[n - 1], list[n]) ELSE g[n - 1]

\* The recursion has a solution, up to any length,
LEMMA RetainExists ==
    ASSUME NEW list, NEW keep, NEW m \in Nat
    PROVE  \E g : g = [n \in 0..m |-> Kept(list, keep, g, n)]
<1> DEFINE N == {k \in Nat : \E g : g = [n \in 0..k |-> Kept(list, keep, g, n)]}
<1>1. 0 \in N
  <2> DEFINE g == [n \in 0..0 |-> <<>>]
  <2>1. g = [n \in 0..0 |-> Kept(list, keep, g, n)]
    BY DEF Kept
  <2> QED
    BY <2>1
<1>2. ASSUME NEW k \in Nat, k \in N PROVE k + 1 \in N
  <2>1. PICK g : g = [n \in 0..k |-> Kept(list, keep, g, n)]
    BY <1>2
  <2> DEFINE h == [n \in 0..(k + 1) |-> IF n = k + 1 THEN Kept(list, keep, g, n) ELSE g[n]]
  <2>2. ASSUME NEW n \in 0..(k + 1) PROVE h[n] = Kept(list, keep, h, n)
    <3>1. CASE n = 0
      <4>1. h[n] = g[0] /\ 0 \in 0..k
        BY <3>1
      <4>2. g[0] = Kept(list, keep, g, 0)
        BY <2>1, <4>1
      <4> QED
        BY <3>1, <4>1, <4>2 DEF Kept
    <3>2. CASE n # 0
      <4>1. n - 1 \in 0..k /\ n - 1 \in 0..(k + 1) /\ n - 1 # k + 1
        BY <3>2
      <4>2. h[n - 1] = g[n - 1]
        BY <4>1
      <4>3. h[n] = Kept(list, keep, g, n)
        <5>1. CASE n = k + 1
          BY <5>1
        <5>2. CASE n # k + 1
          <6>1. n \in 0..k
            BY <5>2
          <6> QED
            BY <2>1, <5>2, <6>1
        <5> QED
          BY <5>1, <5>2
      <4> HIDE DEF h
      <4> QED
        BY <3>2, <4>2, <4>3 DEF Kept
    <3> QED
      BY <3>1, <3>2
  <2>3. h = [n \in 0..(k + 1) |-> h[n]]
    OBVIOUS
  <2> HIDE DEF h
  <2>4. h = [n \in 0..(k + 1) |-> Kept(list, keep, h, n)]
    BY <2>2, <2>3
  <2> QED
    BY <2>4
<1> HIDE DEF N
<1>3. Nat \subseteq N
  BY <1>1, <1>2, NatSetInduction
<1> QED
  BY <1>3 DEF N

\* so that Retain is what its definition says.
LEMMA RetainUnfolds ==
    ASSUME NEW S, NEW list \in Seq(S), NEW keep
    PROVE  \E g : /\ Retain(list, keep) = g[Len(list)]
                  /\ \A n \in 0..Len(list) : g[n] = Kept(list, keep, g, n)
<1> DEFINE g == CHOOSE f : f = [n \in 0..Len(list) |-> Kept(list, keep, f, n)]
<1>1. Retain(list, keep) = g[Len(list)]
  BY DEF Retain, Kept
<1>2. g = [n \in 0..Len(list) |-> Kept(list, keep, g, n)]
  <2>1. Len(list) \in Nat
    BY LenProperties
  <2>2. \E f : f = [n \in 0..Len(list) |-> Kept(list, keep, f, n)]
    BY <2>1, RetainExists
  <2> QED
    BY <2>2
<1> HIDE DEF g
<1> QED
  BY <1>1, <1>2

\* The elements of a list, and that it holds none of them twice.
Members(list) == {list[n] : n \in 1..Len(list)}
Distinct(list) == \A m, n \in 1..Len(list) : list[m] = list[n] => m = n

\* Appending adds one member, and keeps a list without repetitions so.
LEMMA AppendMembers ==
    ASSUME NEW S, NEW list \in Seq(S), NEW x \in S
    PROVE  /\ Append(list, x) \in Seq(S)
           /\ Members(Append(list, x)) = Members(list) \cup {x}
           /\ Distinct(list) /\ x \notin Members(list) => Distinct(Append(list, x))
<1> DEFINE new == Append(list, x)
<1>1. /\ new \in Seq(S)
      /\ Len(new) = Len(list) + 1 /\ Len(list) \in Nat
      /\ \A n \in 1..Len(list) : new[n] = list[n]
      /\ new[Len(list) + 1] = x
  BY AppendProperties
<1> HIDE DEF new
<1>2. 1..Len(new) = 1..Len(list) \cup {Len(list) + 1}
  BY <1>1
<1>3. Members(new) = Members(list) \cup {x}
  BY <1>1, <1>2 DEF Members
<1>4. ASSUME Distinct(list), x \notin Members(list) PROVE Distinct(new)
  BY <1>1, <1>2, <1>4 DEF Members, Distinct
<1> QED
  BY <1>1, <1>3, <1>4 DEF new

\* Retain keeps exactly the elements asked for, and repeats none.
LEMMA RetainProperties ==
    ASSUME NEW S, NEW list \in Seq(S), NEW keep
    PROVE  /\ Retain(list, keep) \in Seq(S)
           /\ Members(Retain(list, keep)) = Members(list) \cap keep
           /\ Distinct(list) => Distinct(Retain(list, keep))
<1>1. PICK g : /\ Retain(list, keep) = g[Len(list)]
               /\ \A n \in 0..Len(list) : g[n] = Kept(list, keep, g, n)
  BY RetainUnfolds
<1>2. Len(list) \in Nat /\ \A n \in 1..Len(list) : list[n] \in S
  BY LenProperties, ElementOfSeq
<1> DEFINE Good(n) ==
             /\ g[n] \in Seq(S)
             /\ Members(g[n]) = {list[m] : m \in 1..n} \cap keep
             /\ Distinct(list) => Distinct(g[n])
           N == {n \in Nat : n <= Len(list) => Good(n)}
<1>3. 0 \in N
  <2>1. g[0] = <<>>
    BY <1>1, <1>2 DEF Kept
  <2>2. Good(0)
    BY <2>1 DEF Members, Distinct
  <2> QED
    BY <2>2
<1>4. ASSUME NEW n \in Nat, n \in N PROVE n + 1 \in N
  <2>1. SUFFICES ASSUME n + 1 <= Len(list) PROVE Good(n + 1)
    OBVIOUS
  <2>2. Good(n) /\ n + 1 \in 1..Len(list) /\ n + 1 \in 0..Len(list) /\ (n + 1) - 1 = n /\ n + 1 # 0
    BY <1>2, <1>4, <2>1
  <2>3. {list[m] : m \in 1..(n + 1)} = {list[m] : m \in 1..n} \cup {list[n + 1]}
    <3>1. 1..(n + 1) = 1..n \cup {n + 1}
      OBVIOUS
    <3> QED
      BY <3>1
  <2>4. g[n + 1] = IF list[n + 1] \in keep THEN Append(g[n], list[n + 1]) ELSE g[n]
    BY <1>1, <2>2 DEF Kept
  <2>5. CASE list[n + 1] \notin keep
    BY <2>2, <2>3, <2>4, <2>5
  <2>6. CASE list[n + 1] \in keep
    <3>1. /\ g[n + 1] \in Seq(S)
          /\ Members(g[n + 1]) = Members(g[n]) \cup {list[n + 1]}
          /\ Distinct(g[n]) /\ list[n + 1] \notin Members(g[n]) => Distinct(g[n + 1])
      BY <1>2, <2>2, <2>4, <2>6, AppendMembers
    <3>2. Distinct(list) => list[n + 1] \notin {list[m] : m \in 1..n}
      <4>1. \A m \in 1..n : m \in 1..Len(list) /\ m # n + 1
        BY <2>2
      <4> QED
        BY <2>2, <4>1 DEF Distinct
    <3> QED
      BY <2>2, <2>3, <2>6, <3>1, <3>2
  <2> QED
    BY <2>5, <2>6
<1>5. Nat \subseteq N
  <2> HIDE DEF N
  <2> QED
    BY <1>3, <1>4, NatSetInduction
<1>6. Good(Len(list))
  <2> HIDE DEF Good
  <2> QED
    BY <1>2, <1>5
<1> QED
  BY <1>1, <1>6 DEF Members

\* A list without repetitions is as long as its elements are many.
LEMMA DistinctCounts ==
    ASSUME NEW S, NEW list \in Seq(S), Distinct(list)
    PROVE  Cardinality(Members(list)) = Len(list)
<1>1. Len(list) \in Nat
  BY LenProperties
<1> DEFINE f == [n \in 1..Len(list) |-> list[n]]
<1>2. f \in Bijection(1..Len(list), Members(list))
  <2>1. f \in [1..Len(list) -> Members(list)]
    BY DEF Members
  <2>2. \A m, n \in 1..Len(list) : f[m] = f[n] => m = n
    BY DEF Distinct
  <2>3. \A x \in Members(list) : \E n \in 1..Len(list) : f[n] = x
    BY DEF Members
  <2> HIDE DEF f
  <2> QED
    BY <2>1, <2>2, <2>3, Fun_IsBij
<1>3. ExistsBijection(1..Len(list), Members(list))
  BY <1>2 DEF ExistsBijection
<1> QED
  BY <1>1, <1>3, FS_CountingElements

----------------------------------------------------------------------------
(* The index by IP.                                                        *)

\* The types IInv leaves out, but for the lists.
OtherTypes ==
    /\ dismissed \subseteq Conns
    /\ result \in [Waiters -> {"none", "sink", "closed", "timeout"}]
    /\ upc \in [UdpWriters -> {"idle", "open", "sending"}] /\ udp \in BOOLEAN
    /\ abandons \in 0..MaxAbandons

\* The list of an IP holds the registrations of its addresses, each once.
ListInv ==
    /\ byIp \in [Ips -> Seq(Conns)]
    /\ \A i \in Ips : Distinct(byIp[i])
    /\ \A i \in Ips, c \in Conns :
           c \in Members(byIp[i]) <=> IpOf[AddrOf[c]] = i /\ writers[AddrOf[c]] = c

\* Every step keeps the types of what IInv does not mention.
LEMMA OtherTypesStep == IInv /\ OtherTypes /\ [Next]_vars => OtherTypes'
<1> SUFFICES ASSUME IInv, OtherTypes, [Next]_vars PROVE OtherTypes'
  OBVIOUS
<1> USE WriterAssumption DEF OtherTypes, connVars, waitVars, closeVars, connFrame, waitFrame,
    udpFrame, closeFrame
<1>1. ASSUME NEW c \in Conns, ConnNext(c) PROVE OtherTypes'
  BY <1>1 DEF ConnNext, InsertCheck, InsertLocked, CloseDisplaced, NotifyWaiters, ConnectionEnds,
    RemoveRegistered, CloseRemoved, CloseDismissed
<1>2. ASSUME NEW a \in Addrs, RemoveTcpWriter(a) PROVE OtherTypes'
  BY <1>2 DEF RemoveTcpWriter, IInv, Types
<1>3. ASSUME NEW w \in Waiters, WaitNext(w) PROVE OtherTypes'
  BY <1>3 DEF WaitNext, StartWait, WaitCheck, WaitArm, WaitRecheck, WaitWake, Return
<1>4. ASSUME NEW u \in UdpWriters, UdpNext(u) PROVE OtherTypes'
  BY <1>4 DEF UdpNext, UdpOpen, UdpLock, UdpSent, UdpClosed
<1>5. CASE CancelEndpoint \/ DropEndpoint \/ CloseStep \/ Abandon
  <2>1. CASE Abandon
    BY <2>1 DEF Abandon
  <2>2. CASE CancelEndpoint \/ DropEndpoint \/ CancelClosed \/ Snapshot \/ ShutdownDone
    BY <2>2 DEF CancelEndpoint, DropEndpoint, CancelClosed, Snapshot, ShutdownDone
  <2>3. CASE SinksClosed \/ TakeUdp \/ (\E c \in Conns : CloseSink(c))
    BY <2>3 DEF SinksClosed, TakeUdp, CloseSink
  <2> QED
    BY <1>5, <2>1, <2>2, <2>3 DEF CloseStep
<1>6. CASE UNCHANGED vars
  BY <1>6 DEF vars
<1> QED
  BY <1>1, <1>2, <1>3, <1>4, <1>5, <1>6 DEF Next

\* Taking a registered connection out of both maps keeps them in agreement.
LEMMA TakeOutKeepsLists ==
    ASSUME IInv, ListInv, NEW d \in Conns, writers[AddrOf[d]] = d, TakeOut(d)
    PROVE  ListInv'
<1> USE WriterAssumption DEF IInv, Types
<1> DEFINE ip == IpOf[AddrOf[d]]
           new == Retain(byIp[ip], Conns \ {d})
<1>1. byIp[ip] \in Seq(Conns) /\ Distinct(byIp[ip]) /\ ip \in Ips
  BY DEF ListInv
<1>2. new \in Seq(Conns) /\ Distinct(new) /\ Members(new) = Members(byIp[ip]) \cap (Conns \ {d})
  BY <1>1, RetainProperties
<1>3. byIp' = [byIp EXCEPT ![ip] = new] /\ writers' = [writers EXCEPT ![AddrOf[d]] = None]
  BY DEF TakeOut
<1> HIDE DEF new
<1>4. \A i \in Ips : byIp'[i] = IF i = ip THEN new ELSE byIp[i]
  BY <1>1, <1>3 DEF ListInv
<1>5. \A c \in Conns : writers'[AddrOf[c]] = c <=> writers[AddrOf[c]] = c /\ c # d
  BY <1>3
<1>6. byIp' \in [Ips -> Seq(Conns)]
  BY <1>1, <1>2, <1>3 DEF ListInv
<1>7. ASSUME NEW i \in Ips PROVE Distinct(byIp'[i])
  BY <1>2, <1>4 DEF ListInv
<1>8. ASSUME NEW i \in Ips, NEW c \in Conns
      PROVE  c \in Members(byIp'[i]) <=> IpOf[AddrOf[c]] = i /\ writers'[AddrOf[c]] = c
  <2>1. CASE i = ip
    BY <1>1, <1>2, <1>4, <1>5, <2>1 DEF ListInv
  <2>2. CASE i # ip
    BY <1>4, <1>5, <2>2 DEF ListInv
  <2> QED
    BY <2>1, <2>2
<1> QED
  BY <1>6, <1>7, <1>8 DEF ListInv, Members, Distinct

\* So does entering one, in the place of the one at its address.
LEMMA EnterKeepsLists ==
    ASSUME IInv, ListInv, NEW c \in Conns, Enter(c, Listed(c))
    PROVE  ListInv'
<1> USE WriterAssumption DEF IInv, Types
<1> DEFINE ip == IpOf[AddrOf[c]]
           others == {d \in Conns : AddrOf[d] # AddrOf[c]}
           rest == Retain(byIp[ip], others)
<1>1. byIp[ip] \in Seq(Conns) /\ Distinct(byIp[ip]) /\ ip \in Ips
  BY DEF ListInv
<1>2. rest \in Seq(Conns) /\ Distinct(rest) /\ Members(rest) = Members(byIp[ip]) \cap others
  BY <1>1, RetainProperties
<1>3. Listed(c) = Append(rest, c)
  BY DEF Listed
<1>4. byIp' = [byIp EXCEPT ![ip] = Listed(c)] /\ writers' = [writers EXCEPT ![AddrOf[c]] = c]
  BY DEF Enter
<1> HIDE DEF rest
<1>5. /\ Listed(c) \in Seq(Conns) /\ Distinct(Listed(c))
      /\ Members(Listed(c)) = (Members(byIp[ip]) \cap others) \cup {c}
  BY <1>2, <1>3, AppendMembers
<1>6. \A i \in Ips : byIp'[i] = IF i = ip THEN Listed(c) ELSE byIp[i]
  BY <1>1, <1>4 DEF ListInv
<1>7. \A d \in Conns : writers'[AddrOf[d]] = d <=> d = c \/ (writers[AddrOf[d]] = d /\ d \in others)
  BY <1>4
<1>8. byIp' \in [Ips -> Seq(Conns)]
  BY <1>1, <1>4, <1>5 DEF ListInv
<1>9. ASSUME NEW i \in Ips PROVE Distinct(byIp'[i])
  BY <1>5, <1>6 DEF ListInv
<1>10. ASSUME NEW i \in Ips, NEW d \in Conns
       PROVE  d \in Members(byIp'[i]) <=> IpOf[AddrOf[d]] = i /\ writers'[AddrOf[d]] = d
  <2>1. CASE i = ip
    BY <1>1, <1>5, <1>6, <1>7, <2>1 DEF ListInv
  <2>2. CASE i # ip
    BY <1>6, <1>7, <2>2 DEF ListInv
  <2> QED
    BY <2>1, <2>2
<1> QED
  BY <1>8, <1>9, <1>10 DEF ListInv, Members, Distinct

\* Every step keeps the index by IP exact.
LEMMA ListStep == IInv /\ ListInv /\ [Next]_vars => ListInv'
<1> SUFFICES ASSUME IInv, ListInv, [Next]_vars PROVE ListInv'
  OBVIOUS
<1> USE WriterAssumption DEF connVars, waitVars, closeVars, connFrame, waitFrame, udpFrame,
    closeFrame
<1>0. ASSUME UNCHANGED <<writers, byIp>> PROVE ListInv'
  BY <1>0 DEF ListInv, Members, Distinct
<1>1. ASSUME NEW c \in Conns, ConnNext(c) PROVE ListInv'
  <2>1. CASE InsertLocked(c)
    BY <1>0, <2>1, EnterKeepsLists DEF InsertLocked, Refuse
  <2>2. CASE RemoveRegistered(c)
    BY <1>0, <2>2, TakeOutKeepsLists DEF RemoveRegistered
  <2>3. CASE \/ InsertCheck(c) \/ CloseDisplaced(c) \/ NotifyWaiters(c) \/ ConnectionEnds(c)
             \/ CloseRemoved(c) \/ CloseDismissed(c)
    BY <1>0, <2>3 DEF InsertCheck, Refuse, CloseDisplaced, NotifyWaiters, ConnectionEnds,
      CloseRemoved, CloseDismissed
  <2> QED
    BY <1>1, <2>1, <2>2, <2>3 DEF ConnNext
<1>2. ASSUME NEW a \in Addrs, RemoveTcpWriter(a) PROVE ListInv'
  <2>1. writers[a] \in Conns /\ AddrOf[writers[a]] = a
    BY <1>2 DEF RemoveTcpWriter, IInv, Types, Placed
  <2> QED
    BY <1>2, <2>1, TakeOutKeepsLists DEF RemoveTcpWriter
<1>3. CASE Snapshot
  <2>1. \A i \in Ips : byIp'[i] = <<>>
    BY <1>3 DEF Snapshot
  <2>2. \A a \in Addrs : writers'[a] = None
    BY <1>3 DEF Snapshot
  <2>3. Distinct(<<>>) /\ Members(<<>>) = {} /\ <<>> \in Seq(Conns)
    BY DEF Distinct, Members
  <2>4. byIp' \in [Ips -> Seq(Conns)]
    BY <1>3, <2>3 DEF Snapshot
  <2>5. \A i \in Ips : Distinct(byIp'[i]) /\ Members(byIp'[i]) = {}
    BY <2>1, <2>3
  <2> QED
    BY <2>2, <2>4, <2>5 DEF ListInv, Members, Distinct
<1>4. ASSUME NEW w \in Waiters, WaitNext(w) PROVE ListInv'
  BY <1>0, <1>4 DEF WaitNext, StartWait, WaitCheck, WaitArm, WaitRecheck, WaitWake, Return
<1>5. ASSUME NEW u \in UdpWriters, UdpNext(u) PROVE ListInv'
  BY <1>0, <1>5 DEF UdpNext, UdpOpen, UdpLock, UdpSent, UdpClosed
<1>6. CASE \/ CancelEndpoint \/ DropEndpoint \/ CancelClosed \/ ShutdownDone \/ SinksClosed
           \/ TakeUdp \/ Abandon \/ (\E c \in Conns : CloseSink(c))
  BY <1>0, <1>6 DEF CancelEndpoint, DropEndpoint, CancelClosed, ShutdownDone, SinksClosed,
    TakeUdp, Abandon, CloseSink
<1>7. CASE UNCHANGED vars
  BY <1>0, <1>7 DEF vars
<1> QED
  BY <1>1, <1>2, <1>3, <1>4, <1>5, <1>6, <1>7 DEF Next, CloseStep

\* tcp_sink_by_ip finds a sink whenever one is registered: over any sequence of
\* insertions, replacements, removals and closes, the list of an IP holds the
\* registrations of its addresses and nothing else, each of them once.
THEOREM IndexCorrect == Spec => []IndexExact
<1>1. Init => ListInv /\ OtherTypes
  <2> SUFFICES ASSUME Init PROVE ListInv /\ OtherTypes
    OBVIOUS
  <2> USE WriterAssumption DEF Init
  <2>1. OtherTypes
    BY DEF OtherTypes
  <2>2. Distinct(<<>>) /\ Members(<<>>) = {} /\ <<>> \in Seq(Conns)
    BY DEF Distinct, Members
  <2>3. byIp \in [Ips -> Seq(Conns)] /\ \A i \in Ips : byIp[i] = <<>>
    OBVIOUS
  <2>4. \A i \in Ips : Distinct(byIp[i]) /\ Members(byIp[i]) = {}
    BY <2>2, <2>3
  <2> QED
    BY <2>1, <2>3, <2>4 DEF ListInv
<1>2. IInv /\ ListInv /\ OtherTypes => IndexExact
  <2> SUFFICES ASSUME IInv, ListInv, OtherTypes PROVE IndexExact
    OBVIOUS
  <2> USE WriterAssumption
  <2>1. TypeOK
    BY DEF TypeOK, IInv, Types, OtherTypes, ListInv
  <2>2. ASSUME NEW i \in Ips
        PROVE  /\ Members(byIp[i]) = {writers[a] : a \in {b \in Addrs : IpOf[b] = i}} \ {None}
               /\ Len(byIp[i]) = Cardinality(Members(byIp[i]))
    <3>1. byIp[i] \in Seq(Conns) /\ Distinct(byIp[i])
      BY DEF ListInv
    <3>2. Members(byIp[i]) \subseteq Conns
      BY <3>1, ElementOfSeq DEF Members
    <3>3. \A c \in Conns : c \in Members(byIp[i]) <=> IpOf[AddrOf[c]] = i /\ writers[AddrOf[c]] = c
      BY DEF ListInv
    <3>4. \A a \in Addrs : writers[a] # None => writers[a] \in Conns /\ AddrOf[writers[a]] = a
      BY DEF IInv, Types, Placed
    <3>5. Members(byIp[i]) = {writers[a] : a \in {b \in Addrs : IpOf[b] = i}} \ {None}
      BY <3>2, <3>3, <3>4
    <3> QED
      BY <3>1, <3>5, DistinctCounts
  <2> QED
    BY <2>1, <2>2 DEF IndexExact, Members
<1> QED
  BY <1>1, <1>2, Invariance, ListStep, OtherTypesStep, PTL DEF Spec
=============================================================================
