---------------------------- MODULE ServiceProofs ----------------------------
(***************************************************************************)
(* What is proved of the components that stand by themselves: the stream   *)
(* supervisor, failure episodes, migrations, the broadcast bus, the daemon *)
(* commands and the unmanaged readers.  Each part has its own inductive    *)
(* invariant; none uses another's.                                         *)
(***************************************************************************)
EXTENDS StreamSupervisor, FailureEpisode, SchemaMigrations, BroadcastBus, DaemonControl,
        PacketReader, SequenceLemmas, FiniteSetTheorems

----------------------------------------------------------------------------
(* StreamSupervisor: StateTruthful for every policy, any number of kept    *)
(* reporters and any number of connections.                                *)

\* A call that waits to send has found its generation current.
CallsWereCurrent == \A c \in Callers : call[c] # None => call[c].wasCurrent = TRUE

\* The newest connection's token is cancelled, except while connect_and_run is
\* still to return and after it has panicked.
LastEnded ==
    step \notin {"running", "returned", "crashed"} => generation \in ended \cup {0}

\* StateTruthful itself says that the state shows no connection where a new one
\* may begin; what a late reporter does to it is seen in wasCurrent.
SupervisorInv ==
    /\ generation \in Nat
    /\ CallsWereCurrent
    /\ DOMAIN call = Callers
    /\ LastEnded
    /\ StateTruthful

\* A supervisor starts without a connection.
LEMMA SupervisorInit == ASSUME Init PROVE SupervisorInv
BY DEF Init, SupervisorInv, CallsWereCurrent, LastEnded, StateTruthful, IsCurrent, State

\* Every step of the task, of a reporter and of the handle keeps SupervisorInv.
LEMMA SupervisorStep == ASSUME SupervisorInv, [Next]_vars PROVE SupervisorInv'
<1> USE DEF SupervisorInv, LastEnded
<1>1. ASSUME Check PROVE SupervisorInv'
  BY <1>1 DEF Check, frame, CallsWereCurrent, StateTruthful, IsCurrent, State
<1>2. ASSUME Begin PROVE SupervisorInv'
  <2>1. ~overtaken => \A g \in 1..generation : g \in ended
    BY <1>2 DEF Begin, StateTruthful, IsCurrent
  <2>2. /\ generation' = generation + 1 /\ step' = "running"
        /\ state' = State("connecting", generation + 1)
        /\ UNCHANGED <<frame, attempt, ended, pause>>
    BY <1>2 DEF Begin
  <2>3. state'.is = "connecting" /\ state'.generation = generation'
    BY <2>2 DEF State
  <2>4. ~overtaken' => \A g \in 1..generation' : IsCurrent(g)' \/ g \in ended'
    BY <2>1, <2>2, <2>3 DEF frame, IsCurrent
  <2>5. IsCurrent(generation)'
    BY <2>3 DEF IsCurrent
  <2>6. StateTruthful'
    BY <2>2, <2>3, <2>4, <2>5 DEF StateTruthful
  <2> QED
    BY <2>2, <2>6 DEF frame, CallsWereCurrent
<1>3. ASSUME ConnectorReturns \/ ConnectorPanics PROVE SupervisorInv'
  <2>1. /\ step = "running" /\ step' \in {"returned", "crashed"}
        /\ UNCHANGED <<frame, state, generation, attempt, ended, pause>>
    BY <1>3 DEF ConnectorReturns, ConnectorPanics
  <2> QED
    BY <2>1 DEF frame, CallsWereCurrent, StateTruthful, IsCurrent, State
<1>4. ASSUME CancelConnection PROVE SupervisorInv'
  BY <1>4 DEF CancelConnection, frame, CallsWereCurrent, StateTruthful, IsCurrent, State
<1>5. ASSUME Disconnect PROVE SupervisorInv'
  <2>1. /\ step = "ended" /\ UNCHANGED <<frame, generation, attempt, ended>>
        /\ \/ cancelled /\ step' = "stop" /\ state' = state
           \/ step' = "waiting" /\ state' = State("disconnected", generation)
    BY <1>5 DEF Disconnect
  <2> QED
    BY <2>1 DEF frame, CallsWereCurrent, StateTruthful, IsCurrent, State
<1>6. ASSUME SleepEnds PROVE SupervisorInv'
  BY <1>6 DEF SleepEnds, frame, CallsWereCurrent, StateTruthful, IsCurrent, State
<1>7. ASSUME WakeCancelled PROVE SupervisorInv'
  BY <1>7 DEF WakeCancelled, frame, CallsWereCurrent, StateTruthful, IsCurrent, State
<1>8. ASSUME Stop PROVE SupervisorInv'
  BY <1>8 DEF Stop, frame, CallsWereCurrent, StateTruthful, IsCurrent, State
<1>9. ASSUME NEW c \in Callers, NEW g \in 1..generation, ReportReads(c, g) PROVE SupervisorInv'
  <2>1. /\ UNCHANGED <<reportFrame, state, overtaken>>
        /\ call' = [call EXCEPT ![c] = [generation |-> g, wasCurrent |-> TRUE]]
    BY <1>9, Zenon DEF ReportReads, IsCurrent
  <2>2. CallsWereCurrent' /\ DOMAIN call' = Callers
    BY <2>1 DEF CallsWereCurrent
  <2> QED
    BY <2>1, <2>2 DEF reportFrame, StateTruthful, IsCurrent, State
<1>10. ASSUME NEW c \in Callers, ReportSends(c) PROVE SupervisorInv'
  <2> DEFINE g == call[c].generation
  <2>1. /\ UNCHANGED reportFrame
        /\ state' = State("connected", g)
        /\ call' = [call EXCEPT ![c] = None]
        /\ call[c].wasCurrent = TRUE
        /\ ~overtaken' => ~overtaken /\ IsCurrent(g)
    BY <1>10 DEF ReportSends, CallsWereCurrent
  <2>2. CallsWereCurrent' /\ DOMAIN call' = Callers
    BY <2>1 DEF CallsWereCurrent
  <2>3. ~overtaken' => state.is \in {"connecting", "connected"} /\ state.generation = g
    BY <2>1 DEF IsCurrent
  <2>4. state'.is = "connected" /\ state'.generation = g
    BY <2>1 DEF State
  <2>5. StateTruthful'
    BY <2>1, <2>3, <2>4 DEF reportFrame, StateTruthful, IsCurrent
  <2> QED
    BY <2>1, <2>2, <2>5 DEF reportFrame
<1>11. ASSUME Shutdown \/ Joined \/ DropHandle PROVE SupervisorInv'
  BY <1>11 DEF Shutdown, Joined, DropHandle, handleFrame, CallsWereCurrent, StateTruthful,
     IsCurrent, State
<1>12. ASSUME UNCHANGED vars PROVE SupervisorInv'
  BY <1>12 DEF vars, CallsWereCurrent, StateTruthful, IsCurrent, State
<1> QED
  BY <1>1, <1>2, <1>3, <1>4, <1>5, <1>6, <1>7, <1>8, <1>9, <1>10, <1>11, <1>12
     DEF Next, TaskNext

\* SupervisorInv holds in every reachable state.
LEMMA SupervisorInvariant == Spec => []SupervisorInv
<1>1. Init => SupervisorInv
  BY SupervisorInit
<1>2. SupervisorInv /\ [Next]_vars => SupervisorInv'
  BY SupervisorStep
<1> QED
  BY <1>1, <1>2, PTL DEF Spec

\* As long as no report was overtaken between its check and its send,
\* ConnectionState is what StateTruthful says, for every policy and any number of
\* connections and kept reporters; of the time after that nothing is proved.
THEOREM StateIsTruthful == Spec => []StateTruthful
<1>1. SupervisorInv => StateTruthful
  BY DEF SupervisorInv
<1> QED
  BY <1>1, SupervisorInvariant, PTL

\* One step of powi, from the results g for smaller exponents.
PowerStep(b, g, n) == IF n = 0 THEN 1 ELSE b * g[n - 1]

\* The recursion of powi has a solution.
LEMMA PowerExists ==
    ASSUME NEW b, NEW m \in Nat
    PROVE  \E g : g = [n \in 0..m |-> PowerStep(b, g, n)]
<1> DEFINE N == {k \in Nat : \E g : g = [n \in 0..k |-> PowerStep(b, g, n)]}
<1>1. 0 \in N
  <2> DEFINE g == [n \in 0..0 |-> 1]
  <2>1. \A n \in 0..0 : n = 0
    OBVIOUS
  <2>2. g = [n \in 0..0 |-> PowerStep(b, g, n)]
    BY <2>1 DEF PowerStep
  <2> QED
    BY <2>2
<1>2. ASSUME NEW k \in Nat, k \in N PROVE k + 1 \in N
  <2>1. PICK g : g = [n \in 0..k |-> PowerStep(b, g, n)]
    BY <1>2
  <2> DEFINE h == [n \in 0..(k + 1) |-> IF n = k + 1 THEN PowerStep(b, g, n) ELSE g[n]]
  <2>2. ASSUME NEW n \in 0..(k + 1) PROVE h[n] = PowerStep(b, h, n)
    <3>1. h[n] = PowerStep(b, g, n)
      <4>1. CASE n = k + 1
        BY <4>1
      <4>2. CASE n # k + 1
        <5>1. n \in 0..k
          BY <4>2
        <5> QED
          BY <2>1, <4>2, <5>1
      <4> QED
        BY <4>1, <4>2
    <3>2. n # 0 => h[n - 1] = g[n - 1]
      <4>1. n # 0 => n - 1 \in 0..(k + 1) /\ n - 1 # k + 1
        OBVIOUS
      <4> QED
        BY <4>1
    <3> HIDE DEF h
    <3> QED
      BY <3>1, <3>2 DEF PowerStep
  <2>3. h = [n \in 0..(k + 1) |-> h[n]]
    OBVIOUS
  <2> HIDE DEF h
  <2>4. h = [n \in 0..(k + 1) |-> PowerStep(b, h, n)]
    BY <2>2, <2>3
  <2> QED
    BY <2>4
<1> HIDE DEF N
<1>3. Nat \subseteq N
  BY <1>1, <1>2, NatSetInduction
<1> QED
  BY <1>3 DEF N

\* so that Powi is what its definition says.
LEMMA PowiUnfolds ==
    ASSUME NEW b, NEW m \in Nat
    PROVE  \E g : /\ Powi(b, m) = g[m]
                  /\ \A n \in 0..m : g[n] = PowerStep(b, g, n)
<1> DEFINE g == CHOOSE f : f = [n \in 0..m |-> PowerStep(b, f, n)]
<1>1. Powi(b, m) = g[m]
  BY DEF Powi, PowerStep
<1>2. g = [n \in 0..m |-> PowerStep(b, g, n)]
  <2>1. \E f : f = [n \in 0..m |-> PowerStep(b, f, n)]
    BY PowerExists
  <2> QED
    BY <2>1
<1> HIDE DEF g
<1> QED
  BY <1>1, <1>2

\* The powers of a factor that is at least 1 do not shrink.
LEMMA PowiGrows ==
    ASSUME NEW b \in Nat, b >= 1, NEW m \in Nat
    PROVE  Powi(b, m) \in Nat /\ Powi(b, m) <= Powi(b, m + 1)
<1>1. PICK g : Powi(b, m) = g[m] /\ \A n \in 0..m : g[n] = PowerStep(b, g, n)
  BY PowiUnfolds
<1>2. PICK h : Powi(b, m + 1) = h[m + 1] /\ \A n \in 0..(m + 1) : h[n] = PowerStep(b, h, n)
  BY PowiUnfolds
<1> DEFINE N == {n \in Nat : n <= m => g[n] \in Nat /\ g[n] = h[n]}
<1>3. 0 \in N
  <2>1. 0 \in 0..m /\ 0 \in 0..(m + 1)
    OBVIOUS
  <2> QED
    BY <1>1, <1>2, <2>1 DEF PowerStep
<1>4. ASSUME NEW n \in Nat, n \in N PROVE n + 1 \in N
  <2>1. SUFFICES ASSUME n + 1 <= m PROVE g[n + 1] \in Nat /\ g[n + 1] = h[n + 1]
    OBVIOUS
  <2>2. /\ n + 1 \in 0..m /\ n + 1 \in 0..(m + 1) /\ n + 1 # 0 /\ (n + 1) - 1 = n
        /\ g[n] \in Nat /\ g[n] = h[n]
    BY <1>4, <2>1
  <2>3. g[n + 1] = b * g[n] /\ h[n + 1] = b * h[n]
    BY <1>1, <1>2, <2>2 DEF PowerStep
  <2>4. b * g[n] \in Nat
    BY <2>2
  <2> QED
    BY <2>2, <2>3, <2>4
<1> HIDE DEF N
<1>5. m \in N
  BY <1>3, <1>4, NatSetInduction
<1>6. g[m] \in Nat /\ g[m] = h[m]
  BY <1>5 DEF N
<1>7. h[m + 1] = b * h[m]
  <2>1. m + 1 \in 0..(m + 1) /\ m + 1 # 0 /\ (m + 1) - 1 = m
    OBVIOUS
  <2> QED
    BY <1>2, <2>1 DEF PowerStep
<1>8. ASSUME NEW x \in Nat PROVE x <= b * x
  BY <1>8
<1> QED
  BY <1>1, <1>2, <1>6, <1>7, <1>8

\* A delay is at most max_delay, and the next one is not shorter.
LEMMA DelaysGrow ==
    ASSUME SupervisorAssumption, policy \in Policies, NEW a \in Nat, a >= 1
    PROVE  /\ DelayWithoutJitter(a) \in Nat
           /\ DelayWithoutJitter(a) <= policy.cap
           /\ DelayWithoutJitter(a) <= DelayWithoutJitter(a + 1)
<1>1. PICK b : b = Most(policy.multiplier, 1)
  OBVIOUS
<1>2. PICK f : f = Powi(b, a - 1)
  OBVIOUS
<1>3. PICK g : g = Powi(b, a)
  OBVIOUS
<1>4. PICK cap, initial : cap = policy.cap /\ initial = policy.initial
  OBVIOUS
<1>5. policy.multiplier \in Nat /\ cap \in Nat /\ initial \in Nat /\ FloatMax \in Nat
  BY <1>4 DEF SupervisorAssumption
<1>6. b \in Nat /\ b >= 1
  BY <1>1, <1>5 DEF Most
<1>7. a - 1 \in Nat /\ (a - 1) + 1 = a /\ (a + 1) - 1 = a
  OBVIOUS
<1>8. f \in Nat /\ f <= g
  BY <1>2, <1>3, <1>6, <1>7, PowiGrows
<1>9. g \in Nat
  BY <1>3, <1>6, PowiGrows
<1>10. /\ DelayWithoutJitter(a) = IF f > FloatMax THEN cap ELSE Least(initial * f, cap)
       /\ DelayWithoutJitter(a + 1) = IF g > FloatMax THEN cap ELSE Least(initial * g, cap)
  BY <1>1, <1>2, <1>3, <1>4, <1>7 DEF DelayWithoutJitter
<1>11. initial * f \in Nat /\ initial * g \in Nat /\ initial * f <= initial * g
  BY <1>5, <1>8, <1>9
<1>12. PICK x, y : x = initial * f /\ y = initial * g
  OBVIOUS
<1> QED
  BY <1>4, <1>5, <1>8, <1>9, <1>10, <1>11, <1>12 DEF Least

\* Jitter at most doubles a delay.
LEMMA JitterBounded ==
    ASSUME SupervisorAssumption, policy \in Policies, NEW a \in Nat, a >= 1,
           NEW d \in Delays(a)
    PROVE  d \in Int /\ d <= 2 * DelayWithoutJitter(a)
<1>1. PICK base : base = DelayWithoutJitter(a)
  OBVIOUS
<1>2. PICK j : j = Least(policy.jitter, 100)
  OBVIOUS
<1>3. base \in Nat
  BY <1>1, DelaysGrow
<1>4. policy.jitter \in Nat
  BY DEF SupervisorAssumption
<1>5. j \in Nat /\ j <= 100
  BY <1>2, <1>4 DEF Least
<1>6. base * j \in Nat /\ base * j <= base * 100
  BY <1>3, <1>5
<1>7. PICK p : p = base * j
  OBVIOUS
<1>8. p \div 100 \in Int /\ p \div 100 <= base
  BY <1>3, <1>6, <1>7
<1>9. d \in (base - (p \div 100))..(base + (p \div 100))
  BY <1>1, <1>2, <1>7 DEF Delays
<1> QED
  BY <1>1, <1>3, <1>8, <1>9

\* How many connections have been tried, and which pause was the last.
RetryCounts ==
    /\ policy \in Policies /\ step \in Steps
    /\ generation \in Nat /\ attempt \in Nat
    /\ step \notin {"begin", "stop", "over"} => attempt = generation
    /\ step = "begin" => attempt = generation + 1
    /\ step \notin {"stop", "over"} /\ policy.max # None => attempt <= policy.max
    /\ step = "stop" /\ ~cancelled => policy.max = generation

RetryPauses ==
    /\ pause.base \in Nat /\ pause.slept \in Int
    /\ pause.base <= policy.cap /\ pause.slept <= 2 * policy.cap
    /\ attempt = 0 => pause.base = 0
    /\ attempt # 0 => pause.base <= DelayWithoutJitter(attempt)
    /\ step \in {"running", "returned", "ended"} => attempt # 0

RetryInv == RetryCounts /\ RetryPauses

\* A pause of this length is one the policy allows.
PausedBy(p) ==
    /\ p.base = DelayWithoutJitter(attempt)
    /\ p.slept \in Delays(attempt)

\* Every step keeps RetryInv, and is one that RetriesByPolicy allows.
LEMMA RetryStep ==
    ASSUME SupervisorAssumption, RetryInv, [Next]_vars
    PROVE  /\ RetryInv' /\ pause'.base >= pause.base
           /\ (step' = "stop" /\ ~cancelled) => policy.max = generation
           /\ policy' = policy
<1> DEFINE Goal == /\ RetryInv' /\ pause'.base >= pause.base
                   /\ (step' = "stop" /\ ~cancelled) => policy.max = generation
                   /\ policy' = policy
<1> USE DEF RetryInv
<1>0. policy.cap \in Nat /\ policy.max \in Nat \cup {None} /\ None \notin Nat
  BY DEF SupervisorAssumption, RetryCounts
<1>a. /\ RetryCounts /\ RetryPauses
      /\ step \in Steps /\ generation \in Nat /\ attempt \in Nat
  BY DEF RetryCounts
\* Steps that leave the policy, the attempt and the pause alone.
<1>b. ASSUME UNCHANGED <<policy, attempt, pause>>, RetryCounts',
             step' \in {"running", "returned", "ended"} => attempt # 0
      PROVE  RetryPauses' /\ pause'.base >= pause.base
  <2>1. (attempt' # 0 => pause'.base <= DelayWithoutJitter(attempt)') <=>
        (attempt # 0 => pause.base <= DelayWithoutJitter(attempt))
    BY <1>b DEF DelayWithoutJitter
  <2>2. pause'.base = pause.base /\ pause'.slept = pause.slept
    BY <1>b
  <2> QED
    BY <1>a, <1>b, <2>1, <2>2 DEF RetryPauses
<1>1. ASSUME Check PROVE Goal
  <2>1. /\ step = "loop" /\ policy' = policy /\ cancelled' = cancelled
        /\ generation' = generation /\ pause' = pause
        /\ \/ cancelled /\ step' = "stop" /\ attempt' = attempt
           \/ /\ ~cancelled /\ attempt' = attempt + 1
              /\ step' = IF Permits(attempt + 1) THEN "begin" ELSE "stop"
    BY <1>1, Zenon DEF Check, frame
  <2>2. CASE cancelled /\ step' = "stop" /\ attempt' = attempt
    <3>1. RetryCounts'
      BY <1>a, <2>1, <2>2 DEF RetryCounts, Steps
    <3> QED
      BY <1>b, <2>1, <2>2, <3>1
  <2>3. CASE /\ ~cancelled /\ attempt' = attempt + 1
             /\ step' = IF Permits(attempt + 1) THEN "begin" ELSE "stop"
    <3>1. RetryCounts' /\ (step' = "stop" => policy.max = generation)
      BY <1>0, <1>a, <2>1, <2>3 DEF RetryCounts, Steps, Permits
    <3>2. attempt # 0 => DelayWithoutJitter(attempt) <= DelayWithoutJitter(attempt + 1)
      BY <1>a, DelaysGrow DEF RetryCounts
    <3>3. /\ DelayWithoutJitter(attempt + 1) \in Nat
          /\ attempt # 0 => DelayWithoutJitter(attempt) \in Nat
      BY <1>a, DelaysGrow DEF RetryCounts
    <3>4. DelayWithoutJitter(attempt)' = DelayWithoutJitter(attempt + 1)
      BY <2>1, <2>3 DEF DelayWithoutJitter
    <3>5. pause.base \in Nat /\ (attempt = 0 => pause.base = 0)
          /\ (attempt # 0 => pause.base <= DelayWithoutJitter(attempt))
      BY <1>a DEF RetryPauses
    <3>6. pause.base <= DelayWithoutJitter(attempt + 1)
      BY <3>2, <3>3, <3>5
    <3>7. attempt' # 0 /\ step' \notin {"running", "returned", "ended"}
      BY <1>a, <2>3
    <3>8. RetryPauses' /\ pause'.base >= pause.base
      BY <1>a, <2>1, <3>4, <3>6, <3>7 DEF RetryPauses
    <3> QED
      BY <2>1, <3>1, <3>8
  <2> QED
    BY <2>1, <2>2, <2>3
<1>2. ASSUME Begin PROVE Goal
  <2>1. /\ step = "begin" /\ step' = "running" /\ generation' = generation + 1
        /\ UNCHANGED <<policy, cancelled, attempt, pause>>
    BY <1>2 DEF Begin, frame
  <2>2. RetryCounts' /\ attempt # 0
    BY <1>a, <2>1 DEF RetryCounts, Steps
  <2> QED
    BY <1>b, <2>1, <2>2
<1>3. ASSUME ConnectorReturns \/ ConnectorPanics \/ CancelConnection \/ SleepEnds PROVE Goal
  <2>1. /\ \/ step = "running" /\ step' \in {"returned", "crashed"}
           \/ step = "returned" /\ step' = "ended"
           \/ step = "waiting" /\ step' = "loop"
        /\ UNCHANGED <<policy, cancelled, generation, attempt, pause>>
    BY <1>3 DEF ConnectorReturns, ConnectorPanics, CancelConnection, SleepEnds, frame
  <2>2. RetryCounts' /\ (step' \in {"running", "returned", "ended"} => attempt # 0)
    BY <1>a, <2>1 DEF RetryCounts, RetryPauses, Steps
  <2> QED
    BY <1>b, <2>1, <2>2
<1>4. ASSUME Disconnect PROVE Goal
  <2>1. /\ step = "ended" /\ UNCHANGED <<policy, cancelled, generation, attempt>>
        /\ \/ cancelled /\ step' = "stop" /\ pause' = pause
           \/ step' = "waiting" /\ PausedBy(pause')
    BY <1>4 DEF Disconnect, frame, PausedBy
  <2>2. CASE cancelled /\ step' = "stop" /\ pause' = pause
    <3>1. RetryCounts'
      BY <1>a, <2>1, <2>2 DEF RetryCounts, Steps
    <3> QED
      BY <1>b, <2>1, <2>2, <3>1
  <2>3. CASE step' = "waiting" /\ PausedBy(pause')
    <3>1. RetryCounts'
      BY <1>a, <2>1, <2>3 DEF RetryCounts, Steps
    <3>2. attempt # 0 /\ policy \in Policies /\ pause.base <= DelayWithoutJitter(attempt)
          /\ pause.base \in Nat
      BY <1>a, <2>1 DEF RetryCounts, RetryPauses
    <3>3. DelayWithoutJitter(attempt) \in Nat /\ DelayWithoutJitter(attempt) <= policy.cap
      BY <1>a, <3>2, DelaysGrow
    <3>4. /\ pause'.base = DelayWithoutJitter(attempt)
          /\ pause'.slept \in Int /\ pause'.slept <= 2 * DelayWithoutJitter(attempt)
      BY <1>a, <2>3, <3>2, JitterBounded DEF PausedBy
    <3>5. DelayWithoutJitter(attempt)' = DelayWithoutJitter(attempt)
      BY <2>1 DEF DelayWithoutJitter
    <3>6. pause'.slept <= 2 * policy.cap
      BY <1>0, <3>3, <3>4
    <3>7. RetryPauses' /\ pause'.base >= pause.base
      BY <2>1, <2>3, <3>2, <3>3, <3>4, <3>5, <3>6 DEF RetryPauses
    <3> QED
      BY <2>1, <2>3, <3>1, <3>7
  <2> QED
    BY <2>1, <2>2, <2>3
<1>5. ASSUME WakeCancelled \/ Stop PROVE Goal
  <2>1. /\ \/ cancelled /\ step' = "stop"
           \/ step = "stop" /\ step' = "over"
        /\ UNCHANGED <<policy, cancelled, generation, attempt, pause>>
    BY <1>5 DEF WakeCancelled, Stop, frame
  <2>2. RetryCounts'
    BY <1>a, <2>1 DEF RetryCounts, Steps
  <2> QED
    BY <1>b, <2>1, <2>2
<1>6. ASSUME \/ \E c \in Callers : (\E g \in 1..generation : ReportReads(c, g)) \/ ReportSends(c)
             \/ Shutdown \/ Joined \/ DropHandle
             \/ UNCHANGED vars
      PROVE  Goal
  <2>1. /\ UNCHANGED <<policy, step, generation, attempt, pause>>
        /\ cancelled' = cancelled \/ cancelled' = TRUE
    BY <1>6 DEF ReportReads, ReportSends, reportFrame, Shutdown, Joined, DropHandle,
       handleFrame, vars
  <2>2. RetryCounts' /\ (step' = "stop" /\ ~cancelled => policy.max = generation)
    BY <1>a, <2>1 DEF RetryCounts
  <2>3. step' \in {"running", "returned", "ended"} => attempt # 0
    BY <1>a, <2>1 DEF RetryPauses
  <2> QED
    BY <1>b, <2>1, <2>2, <2>3
<1> QED
  BY <1>1, <1>2, <1>3, <1>4, <1>5, <1>6, Zenon DEF Next, TaskNext

\* The supervisor gives up unasked after exactly max_attempts connections, and
\* its pauses grow up to max_delay, for every policy: any multiplier, any jitter
\* and however early the powers of the multiplier overflow.
THEOREM RetriesFollowPolicy == ASSUME SupervisorAssumption PROVE Spec => RetriesByPolicy
<1>1. Init => RetryInv
  BY DEF Init, RetryInv, RetryCounts, RetryPauses, Steps, SupervisorAssumption
<1>2. RetryInv /\ [Next]_vars => RetryInv'
  BY RetryStep, Zenon
<1>3. RetryInv /\ [Next]_vars =>
        [/\ (step' = "stop" /\ ~cancelled) => policy.max = generation
         /\ pause'.base >= pause.base
         /\ pause'.base <= policy.cap /\ pause'.slept <= 2 * policy.cap]_vars
  <2> SUFFICES ASSUME RetryInv, [Next]_vars
      PROVE  /\ (step' = "stop" /\ ~cancelled) => policy.max = generation
             /\ pause'.base >= pause.base
             /\ pause'.base <= policy.cap /\ pause'.slept <= 2 * policy.cap
    OBVIOUS
  <2>1. /\ RetryInv' /\ pause'.base >= pause.base
        /\ (step' = "stop" /\ ~cancelled) => policy.max = generation
        /\ policy' = policy
    BY RetryStep, Zenon
  <2> QED
    BY <2>1 DEF RetryInv, RetryPauses
<1> QED
  BY <1>1, <1>2, <1>3, PTL DEF Spec, RetriesByPolicy

----------------------------------------------------------------------------
(* FailureEpisode: EveryFailureCounted for every interval, width of the    *)
(* counters, length of an episode and behaviour of the clock.              *)

EpisodeCounts ==
    /\ total \in Nat /\ suppressedTotal \in Nat /\ suppressedSince \in Nat
    /\ failures \in Nat /\ summaries \in Nat /\ covered \in Nat
    /\ startedAt = Never => summaries = 0
    /\ startedAt # Never => summaries < failures

\* The property needs to know that the counters are natural numbers, and that
\* an episode has one failure more than it has summaries.
EpisodeInv == EpisodeCounts /\ EveryFailureCounted

USE DEF EpisodeAssumption

\* A saturating counter is the count, cut off at the limit.
LEMMA Saturates ==
    ASSUME EpisodeAssumption, NEW n \in Nat
    PROVE  /\ SaturatingAdd(n, 1) \in Nat
           /\ SaturatingAdd(SaturatingAdd(n, 0), 1) = SaturatingAdd(n + 1, 0)
           /\ n < CounterMax => SaturatingAdd(n, 0) = n
           /\ n + 1 < CounterMax => SaturatingAdd(n, 1) = n + 1
           /\ \A k \in Nat : n <= k => SaturatingAdd(n, 1) <= SaturatingAdd(k, 1)
BY DEF SaturatingAdd

\* The first state is one without an episode.
LEMMA EpisodeStarts == ASSUME EpisodeAssumption, EpisodeInit PROVE EpisodeInv
BY DEF EpisodeInit, EpisodeInv, EpisodeCounts, EveryFailureCounted, SaturatingAdd

\* Every call keeps the account of the failures.
LEMMA EpisodeStep ==
    ASSUME EpisodeAssumption, EpisodeInv, [EpisodeNext]_episodeVars
    PROVE  EpisodeInv'
<1> USE DEF EpisodeInv, EpisodeCounts
<1>1. ASSUME NEW now \in 0..MaxTime, StartEpisode(now) PROVE EpisodeInv'
  <2>1. startedAt' # Never
    BY <1>1 DEF StartEpisode
  <2>2. /\ failures' = 1 /\ covered' = 1 /\ total' = 1 /\ summaries' = 0
        /\ suppressedTotal' = 0 /\ suppressedSince' = 0
    BY <1>1 DEF StartEpisode, EveryFailureCounted
  <2> QED
    BY <2>1, <2>2 DEF EveryFailureCounted, SaturatingAdd
<1>2. ASSUME NEW now \in 0..MaxTime, Summarize(now) PROVE EpisodeInv'
  <2>1. /\ startedAt # Never /\ startedAt' # Never
        /\ failures' = failures + 1 /\ summaries' = summaries + 1
        /\ total' = SaturatingAdd(total, 1)
        /\ suppressedSince' = 0 /\ suppressedTotal' = suppressedTotal
        /\ covered' = covered + SaturatingAdd(suppressedSince, 1)
    BY <1>2 DEF Summarize
  <2>2. EpisodeCounts'
    <3>1. SaturatingAdd(total, 1) \in Nat /\ SaturatingAdd(suppressedSince, 1) \in Nat
      BY Saturates
    <3> QED
      BY <2>1, <3>1
  <2>3. total' = SaturatingAdd(failures', 0)
    BY <2>1, Saturates DEF EveryFailureCounted
  <2>4. suppressedTotal' = SaturatingAdd(failures' - 1 - summaries', 0)
    <3>1. failures' - 1 - summaries' = failures - 1 - summaries
      BY <2>1
    <3> QED
      BY <2>1, <3>1 DEF EveryFailureCounted
  <2>5. failures' < CounterMax => covered' + suppressedSince' = failures'
    <3> HAVE failures' < CounterMax
    <3>1. covered + suppressedSince = failures /\ suppressedSince + 1 < CounterMax
      BY <2>1 DEF EveryFailureCounted
    <3>2. SaturatingAdd(suppressedSince, 1) = suppressedSince + 1
      BY <3>1, Saturates
    <3> QED
      BY <2>1, <3>1, <3>2
  <2> QED
    BY <2>1, <2>2, <2>3, <2>4, <2>5 DEF EveryFailureCounted
<1>3. ASSUME NEW now \in 0..MaxTime, Suppress(now) PROVE EpisodeInv'
  <2>1. /\ startedAt # Never /\ startedAt' # Never
        /\ failures' = failures + 1 /\ summaries' = summaries /\ covered' = covered
        /\ total' = SaturatingAdd(total, 1)
        /\ suppressedSince' = SaturatingAdd(suppressedSince, 1)
        /\ suppressedTotal' = SaturatingAdd(suppressedTotal, 1)
    BY <1>3 DEF Suppress
  <2>2. EpisodeCounts'
    BY <2>1, Saturates
  <2>3. total' = SaturatingAdd(failures', 0)
    BY <2>1, Saturates DEF EveryFailureCounted
  <2>4. suppressedTotal' = SaturatingAdd(failures' - 1 - summaries', 0)
    <3>1. /\ failures - 1 - summaries \in Nat
          /\ failures' - 1 - summaries' = (failures - 1 - summaries) + 1
      BY <2>1
    <3>2. suppressedTotal = SaturatingAdd(failures - 1 - summaries, 0)
      BY <2>1 DEF EveryFailureCounted
    <3> QED
      BY <2>1, <3>1, <3>2, Saturates
  <2>5. failures' < CounterMax => covered' + suppressedSince' = failures'
    <3> HAVE failures' < CounterMax
    <3>1. covered + suppressedSince = failures /\ suppressedSince + 1 < CounterMax
      BY <2>1 DEF EveryFailureCounted
    <3>2. SaturatingAdd(suppressedSince, 1) = suppressedSince + 1
      BY <3>1, Saturates
    <3> QED
      BY <2>1, <3>1, <3>2
  <2>6. suppressedSince' <= suppressedTotal'
    BY <2>1, Saturates DEF EveryFailureCounted
  <2> QED
    BY <2>1, <2>2, <2>3, <2>4, <2>5, <2>6 DEF EveryFailureCounted
<1>4. ASSUME Reset PROVE EpisodeInv'
  BY <1>4 DEF Reset, EveryFailureCounted, SaturatingAdd
<1>5. ASSUME RecordSuccess PROVE EpisodeInv'
  BY <1>4, <1>5 DEF RecordSuccess, EveryFailureCounted
<1>6. ASSUME Forget PROVE EpisodeInv'
  BY <1>4, <1>6 DEF Forget
<1>7. ASSUME UNCHANGED episodeVars PROVE EpisodeInv'
  BY <1>7 DEF episodeVars, EveryFailureCounted
<1> QED
  BY <1>1, <1>2, <1>3, <1>5, <1>6, <1>7 DEF EpisodeNext

\* Every failure of an episode is told exactly once, for every summary
\* interval and every width of the counters.
THEOREM FailuresCounted ==
    ASSUME EpisodeAssumption
    PROVE  EpisodeSpec => []EveryFailureCounted
<1>1. EpisodeInit => EpisodeInv
  BY EpisodeStarts
<1>2. EpisodeInv /\ [EpisodeNext]_episodeVars => EpisodeInv'
  BY EpisodeStep
<1>3. EpisodeInv => EveryFailureCounted
  BY DEF EpisodeInv
<1> QED
  BY <1>1, <1>2, <1>3, PTL DEF EpisodeSpec

HIDE DEF EpisodeAssumption

----------------------------------------------------------------------------
(* SchemaMigrations: SchemaMatchesRecords for any number of runners and    *)
(* migrations, either database, any names and any set of DDL migrations.   *)

RunSteps == {"idle", "loop", "selected", "applied", "recorded", "done", "failed"}

RunNames == {NoName} \cup {NameOf[r][v] : r \in Runners, v \in List}

RunTypes ==
    /\ recorded \in [List -> RunNames]
    /\ applied \in [List -> Nat]
    /\ run \in [Runners -> RunSteps]
    /\ at \in [Runners -> Nat \ {0}]

\* A runner is at a migration of its list, or past the last.
RunPlaces ==
    \A r \in Runners :
        /\ run[r] \in {"selected", "applied", "recorded"} => at[r] \in List
        /\ run[r] = "done" => at[r] > Versions

\* Behind a runner everything is recorded under the names it knows.
Behind ==
    \A r \in Runners : run[r] \in {"loop", "selected", "applied", "recorded", "done"} =>
        \A u \in List : u < at[r] => recorded[u] = NameOf[r][u]

\* An uncommitted record is the only one of its version, and a record that DDL
\* has committed early is already there, with its sql applied.
Uncommitted ==
    \A r \in Runners :
        /\ run[r] = "recorded" /\ Transactional(at[r]) =>
              /\ recorded[at[r]] = NoName
              /\ \A o \in Runners : run[o] = "recorded" /\ at[o] = at[r] => o = r
        /\ run[r] \in {"applied", "recorded"} /\ ~Transactional(at[r]) => applied[at[r]] > 0
        /\ run[r] = "recorded" /\ ~Transactional(at[r]) => recorded[at[r]] = NameOf[r][at[r]]

\* What the runners are about to do, beside what they have done.
MigrationsInv == RunTypes /\ RunPlaces /\ Behind /\ Uncommitted /\ SchemaMatchesRecords

USE DEF List, RunSteps

\* What a table of migrations may hold.
LEMMA NamesOfRunners ==
    NoName \in RunNames /\ \A r \in Runners, v \in List : NameOf[r][v] \in RunNames
BY DEF RunNames

\* Nothing is recorded in a new database.
LEMMA MigrationsStart == ASSUME MigrationsAssumption, MigrationsInit PROVE MigrationsInv
BY NamesOfRunners
  DEF MigrationsAssumption, MigrationsInit, MigrationsInv, RunTypes, RunPlaces, Behind,
      Uncommitted,
   SchemaMatchesRecords, AppliedAsRecorded, RecordedInOrder, DoneIsRecorded, Transactional

\* Every statement of a migration, and its failure, keeps MigrationsInv.
LEMMA MigrationsStep ==
    ASSUME MigrationsAssumption, MigrationsInv, NEW r \in Runners,
           \/ StartRun(r) \/ Select(r) \/ ApplySql(r) \/ InsertRecord(r) \/ Commit(r)
           \/ Finish(r) \/ FailOrDie(r)
    PROVE  MigrationsInv'
<1> USE DEF MigrationsInv, RunTypes, MigrationsAssumption, GoTo, Transactional, SchemaMatchesRecords
<1>1. CASE StartRun(r)
  <2>1. RunTypes'
    BY <1>1 DEF StartRun
  <2>2. RunPlaces'
    BY <1>1 DEF StartRun, RunPlaces
  <2>3. Behind'
    BY <1>1 DEF StartRun, RunPlaces, Behind
  <2>4. Uncommitted'
    BY <1>1 DEF StartRun, RunPlaces, Uncommitted
  <2>5. AppliedAsRecorded'
    BY <1>1 DEF StartRun, RunPlaces, AppliedAsRecorded
  <2>6. RecordedInOrder'
    BY <1>1 DEF StartRun, RunPlaces, RecordedInOrder
  <2>7. DoneIsRecorded'
    BY <1>1 DEF StartRun, RunPlaces, DoneIsRecorded
  <2> QED
    BY <2>1, <2>2, <2>3, <2>4, <2>5, <2>6, <2>7
<1>2. CASE Finish(r)
  <2>1. RunTypes'
    BY <1>2 DEF Finish
  <2>2. RunPlaces'
    BY <1>2 DEF Finish, RunPlaces
  <2>3. Behind'
    BY <1>2 DEF Finish, RunPlaces, Behind
  <2>4. Uncommitted'
    BY <1>2 DEF Finish, RunPlaces, Uncommitted
  <2>5. AppliedAsRecorded'
    BY <1>2 DEF Finish, RunPlaces, AppliedAsRecorded
  <2>6. RecordedInOrder'
    BY <1>2 DEF Finish, RunPlaces, RecordedInOrder
  <2>7. DoneIsRecorded'
    BY <1>2 DEF Finish, RunPlaces, DoneIsRecorded, Behind
  <2> QED
    BY <2>1, <2>2, <2>3, <2>4, <2>5, <2>6, <2>7
<1>3. CASE FailOrDie(r)
  <2>1. RunTypes'
    BY <1>3 DEF FailOrDie
  <2>2. RunPlaces'
    BY <1>3 DEF FailOrDie, RunPlaces
  <2>3. Behind'
    BY <1>3 DEF FailOrDie, RunPlaces, Behind
  <2>4. Uncommitted'
    BY <1>3 DEF FailOrDie, RunPlaces, Uncommitted
  <2>5. AppliedAsRecorded'
    BY <1>3 DEF FailOrDie, RunPlaces, AppliedAsRecorded
  <2>6. RecordedInOrder'
    BY <1>3 DEF FailOrDie, RunPlaces, RecordedInOrder
  <2>7. DoneIsRecorded'
    BY <1>3 DEF FailOrDie, RunPlaces, DoneIsRecorded
  <2> QED
    BY <2>1, <2>2, <2>3, <2>4, <2>5, <2>6, <2>7
<1>4. CASE Select(r)
  <2>0. /\ run[r] = "loop" /\ at[r] \in List
        /\ recorded' = recorded /\ applied' = applied /\ database' = database
        /\ \/ /\ recorded[at[r]] = NameOf[r][at[r]]
              /\ run' = [run EXCEPT ![r] = "loop"] /\ at' = [at EXCEPT ![r] = at[r] + 1]
           \/ run' = [run EXCEPT ![r] = "failed"] /\ at' = at
           \/ run' = [run EXCEPT ![r] = "selected"] /\ at' = at
    BY <1>4 DEF Select, Matches, Advance
  <2>1. RunTypes'
    <3>1. run' \in [Runners -> RunSteps]
      BY <2>0
    <3>2. at' \in [Runners -> Nat \ {0}]
      BY <2>0
    <3> QED
      BY <2>0, <3>1, <3>2
  <2>2. RunPlaces'
    BY <2>0 DEF RunPlaces
  <2>3. Behind'
    BY <2>0 DEF Behind
  <2>4. Uncommitted'
    <3>1. /\ \A o \in Runners : o # r => run'[o] = run[o] /\ at'[o] = at[o]
          /\ run'[r] \in {"loop", "failed", "selected"}
          /\ database' = database /\ recorded' = recorded /\ applied' = applied
      BY <1>4 DEF Select, Matches, Advance
    <3>2. \A o \in Runners :
              /\ run'[o] = "recorded" => run[o] = "recorded" /\ at'[o] = at[o]
              /\ run'[o] = "applied" => run[o] = "applied" /\ at'[o] = at[o]
      BY <3>1
    <3> SUFFICES ASSUME NEW p \in Runners, run'[p] \in {"applied", "recorded"}
                 PROVE  /\ run'[p] = "recorded" /\ Transactional(at[p]) =>
                              /\ recorded[at[p]] = NoName
                              /\ \A o \in Runners : run'[o] = "recorded" /\ at'[o] = at[p] => o = p
                        /\ ~Transactional(at[p]) => applied[at[p]] > 0
                        /\ run'[p] = "recorded" /\ ~Transactional(at[p]) =>
                              recorded[at[p]] = NameOf[p][at[p]]
      BY <3>1, <3>2 DEF Uncommitted
    <3> QED
      BY <3>1, <3>2 DEF Uncommitted
  <2>5. AppliedAsRecorded'
    BY <1>4 DEF Select, Matches, Advance, RunPlaces, AppliedAsRecorded
  <2>6. RecordedInOrder'
    BY <1>4 DEF Select, Matches, Advance, RunPlaces, RecordedInOrder
  <2>7. DoneIsRecorded'
    BY <1>4 DEF Select, Matches, Advance, RunPlaces, DoneIsRecorded
  <2> QED
    BY <2>1, <2>2, <2>3, <2>4, <2>5, <2>6, <2>7
<1>5. CASE ApplySql(r)
  <2>1. RunTypes'
    BY <1>5 DEF ApplySql
  <2>2. RunPlaces'
    BY <1>5 DEF ApplySql, RunPlaces
  <2>3. Behind'
    BY <1>5 DEF ApplySql, RunPlaces, Behind
  <2>4. Uncommitted'
    <3>1. /\ run' = [run EXCEPT ![r] = "applied"] /\ at' = at
          /\ database' = database /\ recorded' = recorded /\ at[r] \in List
      BY <1>5 DEF ApplySql, RunPlaces
    <3>2. \A o \in Runners : run'[o] = "recorded" => run[o] = "recorded"
      BY <3>1
    <3>3. /\ \A v \in List : applied[v] > 0 => applied'[v] > 0
          /\ ~Transactional(at[r]) => applied'[at[r]] > 0
      BY <1>5, <3>1 DEF ApplySql
    <3>4. \A o \in Runners : run'[o] = "applied" /\ o # r => run[o] = "applied"
      BY <3>1
    <3> QED
      BY <3>1, <3>2, <3>3, <3>4 DEF Uncommitted, RunPlaces
  <2>5. AppliedAsRecorded'
    <3>1. /\ at[r] \in List /\ recorded' = recorded /\ database' = database
          /\ \/ applied' = applied
             \/ ~Transactional(at[r]) /\ applied' = [applied EXCEPT ![at[r]] = @ + 1]
      BY <1>5 DEF ApplySql, RunPlaces
    <3>2. \A v \in List :
              /\ applied[v] > 0 => applied'[v] > 0
              /\ Transactional(v) => applied'[v] = applied[v]
      BY <3>1
    <3> QED
      BY <3>1, <3>2 DEF AppliedAsRecorded
  <2>6. RecordedInOrder'
    BY <1>5 DEF ApplySql, RunPlaces, RecordedInOrder
  <2>7. DoneIsRecorded'
    BY <1>5 DEF ApplySql, RunPlaces, DoneIsRecorded
  <2> QED
    BY <2>1, <2>2, <2>3, <2>4, <2>5, <2>6, <2>7
<1>6. CASE InsertRecord(r)
  <2>1. RunTypes'
    BY <1>6, NamesOfRunners DEF InsertRecord, RunPlaces
  <2>2. RunPlaces'
    BY <1>6 DEF InsertRecord, RunPlaces
  <2>3. Behind'
    BY <1>6 DEF InsertRecord, RunPlaces, Behind
  <2>4. Uncommitted'
    BY <1>6 DEF InsertRecord, RunPlaces, Uncommitted, Writing
  <2>5. AppliedAsRecorded'
    BY <1>6 DEF InsertRecord, RunPlaces, AppliedAsRecorded, Uncommitted
  <2>6. RecordedInOrder'
    <3>1. at[r] \in List /\ \A u \in List : u < at[r] => recorded[u] # NoName
      <4>1. run[r] = "applied"
        BY <1>6 DEF InsertRecord
      <4>2. at[r] \in List
        BY <4>1 DEF RunPlaces
      <4> QED
        BY <4>1, <4>2 DEF Behind
    <3>2. \A v \in List : recorded'[v] # NoName => recorded[v] # NoName \/ v = at[r]
      BY <1>6, <3>1 DEF InsertRecord
    <3>3. \A v \in List : recorded[v] # NoName => recorded'[v] # NoName
      BY <1>6, <3>1 DEF InsertRecord
    <3> QED
      BY <3>1, <3>2, <3>3 DEF RecordedInOrder
  <2>7. DoneIsRecorded'
    BY <1>6 DEF InsertRecord, RunPlaces, DoneIsRecorded
  <2> QED
    BY <2>1, <2>2, <2>3, <2>4, <2>5, <2>6, <2>7
<1>7. CASE Commit(r)
  <2>1. /\ at[r] \in List /\ run[r] = "recorded"
        /\ run' = [run EXCEPT ![r] = "loop"] /\ at' = [at EXCEPT ![r] = at[r] + 1]
        /\ database' = database
    BY <1>7 DEF Commit, Advance, RunPlaces
  <2>2. CASE Transactional(at[r])
    <3>1. /\ recorded[at[r]] = NoName
          /\ \A o \in Runners \ {r} : run[o] = "recorded" => at[o] # at[r]
      BY <2>1, <2>2 DEF Uncommitted
    <3>2. /\ recorded' = [recorded EXCEPT ![at[r]] = NameOf[r][at[r]]]
          /\ applied' = [applied EXCEPT ![at[r]] = @ + 1]
      BY <1>7, <2>2 DEF Commit
    <3>3. /\ recorded'[at[r]] = NameOf[r][at[r]] /\ recorded'[at[r]] # NoName
          /\ \A v \in List : v # at[r] => recorded'[v] = recorded[v] /\ applied'[v] = applied[v]
          /\ applied'[at[r]] = applied[at[r]] + 1
      BY <2>1, <3>2
    <3>4. \A v \in List : \A name : name # NoName /\ recorded[v] = name => recorded'[v] = name
      BY <3>1, <3>3
    <3>5. RunTypes'
      BY <2>1, <3>2, NamesOfRunners
    <3>6. RunPlaces' /\ Behind'
      BY <2>1, <3>3, <3>4 DEF RunPlaces, Behind
    <3>7. Uncommitted'
      BY <2>1, <2>2, <3>1, <3>3 DEF Uncommitted, RunPlaces
    <3>8. AppliedAsRecorded'
      BY <2>1, <3>1, <3>3 DEF AppliedAsRecorded
    <3>9. RecordedInOrder'
      <4> SUFFICES ASSUME NEW u \in List, NEW v \in List, u < v, recorded'[v] # NoName
                   PROVE  recorded'[u] # NoName
        BY DEF RecordedInOrder
      <4>1. recorded[u] # NoName
        <5>1. CASE v = at[r]
          <6>1. recorded[u] = NameOf[r][u]
            BY <2>1, <5>1 DEF Behind
          <6> QED
            BY <6>1, NamesOfRunners
        <5>2. CASE v # at[r]
          BY <3>3, <5>2 DEF RecordedInOrder
        <5> QED
          BY <5>1, <5>2
      <4> QED
        BY <3>4, <4>1
    <3>10. DoneIsRecorded'
      BY <2>1, <3>4 DEF DoneIsRecorded
    <3> QED
      BY <3>5, <3>6, <3>7, <3>8, <3>9, <3>10
  <2>3. CASE ~Transactional(at[r])
    <3>1. UNCHANGED <<recorded, applied>> /\ recorded[at[r]] = NameOf[r][at[r]]
      BY <1>7, <2>1, <2>3 DEF Commit, Uncommitted
    <3>2. RunTypes'
      BY <2>1, <3>1
    <3>3. RunPlaces'
      BY <2>1, <3>1 DEF RunPlaces
    <3>6. Behind'
      BY <2>1, <3>1 DEF Behind
    <3>4. Uncommitted'
      BY <2>1, <3>1 DEF Uncommitted
    <3>5. AppliedAsRecorded' /\ RecordedInOrder' /\ DoneIsRecorded'
      BY <2>1, <3>1 DEF AppliedAsRecorded, RecordedInOrder, DoneIsRecorded
    <3> QED
      BY <3>2, <3>3, <3>6, <3>4, <3>5
  <2> QED
    BY <2>2, <2>3
<1> QED
  BY <1>1, <1>2, <1>3, <1>4, <1>5, <1>6, <1>7

\* Whoever migrates and dies, the record of migrations is what happened to the
\* schema.
THEOREM RecordsMatch ==
    ASSUME MigrationsAssumption
    PROVE  MigrationsSpec => []SchemaMatchesRecords
<1>1. MigrationsInit => MigrationsInv
  BY MigrationsStart
<1>2. MigrationsInv /\ [MigrationsNext]_migrationVars => MigrationsInv'
  <2>1. ASSUME MigrationsInv, UNCHANGED migrationVars PROVE MigrationsInv'
    BY <2>1
      DEF migrationVars, MigrationsInv, RunTypes, RunPlaces, Behind, Uncommitted,
          SchemaMatchesRecords,
       AppliedAsRecorded, RecordedInOrder, DoneIsRecorded, Transactional
  <2> QED
    BY <2>1, MigrationsStep DEF MigrationsNext
<1>3. MigrationsInv => SchemaMatchesRecords
  BY DEF MigrationsInv
<1> QED
  BY <1>1, <1>2, <1>3, PTL DEF MigrationsSpec

HIDE DEF List, RunSteps

----------------------------------------------------------------------------
(* BroadcastBus: DeliveredOrTold for any number of types, subscribers and  *)
(* messages and any size of a channel.                                     *)

Channels == 1..made
Phases == {"idle", "cloned", "live", "told"}

BusTypes ==
    /\ made \in Nat
    /\ channels \in [Types -> Channels \cup {NoChannel}]
    /\ tx \in [Subscribers -> Channels \cup {NoChannel}]
    /\ rx \in [Subscribers -> Channels \cup {NoChannel}]
    /\ sub \in [Subscribers -> Phases]
    /\ queue \in [Subscribers -> Seq(Nat)]
    /\ lagged \in [Subscribers -> BOOLEAN]
    /\ next \in [Subscribers -> Nat]
    /\ last \in [Types -> Nat]

\* What a subscriber holds in each phase.
PhasesHold ==
    \A s \in Subscribers :
        /\ tx[s] # NoChannel => sub[s] = "cloned"
        /\ sub[s] = "cloned" => tx[s] # NoChannel
        /\ sub[s] = "live" => rx[s] # NoChannel
        /\ sub[s] \in {"idle", "cloned"} => rx[s] = NoChannel /\ queue[s] = <<>> /\ ~lagged[s]
        /\ Len(queue[s]) <= ChannelSize
        /\ lagged[s] => queue[s] # <<>>

\* A channel is of one type for good, the one of all who hold it.
OneTypeEach ==
    /\ \A t, u \in Types : channels[t] # NoChannel /\ channels[t] = channels[u] => t = u
    /\ \A t \in Types, s \in Subscribers :
          channels[t] # NoChannel /\ channels[t] \in {tx[s], rx[s]} => t = TypeOf[s]

\* The queue is what was published last, and nothing is missing before it.
UpToDate(s) ==
    /\ \A i \in 1..Len(queue[s]) : queue[s][i] = last[TypeOf[s]] - Len(queue[s]) + i
    /\ lagged[s] \/ next[s] + Len(queue[s]) = last[TypeOf[s]] + 1

\* Whoever has the channel that is in the map is up to date.
HoldersUpToDate ==
    \A s \in Subscribers :
        sub[s] = "live" /\ channels[TypeOf[s]] = rx[s] => UpToDate(s)

BusInv == BusTypes /\ PhasesHold /\ OneTypeEach /\ HoldersUpToDate

\* Push(q, m) is one longer, or has lost the oldest message; m is the last.
LEMMA Pushed ==
    ASSUME BroadcastAssumption, NEW q \in Seq(Nat), NEW m \in Nat, Len(q) <= ChannelSize
    PROVE  /\ Push(q, m) \in Seq(Nat) /\ Push(q, m) # <<>>
           /\ Len(q) < ChannelSize =>
                 /\ Len(Push(q, m)) = Len(q) + 1 /\ Push(q, m)[Len(q) + 1] = m
                 /\ \A i \in 1..Len(q) : Push(q, m)[i] = q[i]
           /\ Len(q) = ChannelSize =>
                 /\ Len(Push(q, m)) = Len(q) /\ Push(q, m)[Len(q)] = m
                 /\ \A i \in 1..(Len(q) - 1) : Push(q, m)[i] = q[i + 1]
<1>1. ChannelSize \in Nat /\ ChannelSize > 0 /\ Len(q) \in Nat
  BY LenProperties DEF BroadcastAssumption
<1>2. CASE Len(q) < ChannelSize
  <2>1. Push(q, m) = Append(q, m)
    BY <1>2 DEF Push
  <2>2. /\ Append(q, m) \in Seq(Nat) /\ Len(Append(q, m)) = Len(q) + 1
        /\ \A i \in 1..Len(q) : Append(q, m)[i] = q[i]
        /\ Append(q, m)[Len(q) + 1] = m
    BY AppendProperties
  <2>3. Append(q, m) # <<>>
    BY <1>1, <2>2, EmptySeq
  <2> QED
    BY <1>1, <1>2, <2>1, <2>2, <2>3
<1>3. CASE Len(q) = ChannelSize
  <2>1. Push(q, m) = Append(Tail(q), m)
    BY <1>1, <1>3 DEF Push
  <2>2. q # <<>>
    BY <1>1, <1>3, EmptySeq
  <2>3. /\ Tail(q) \in Seq(Nat) /\ Len(Tail(q)) = Len(q) - 1
        /\ \A i \in 1..Len(Tail(q)) : Tail(q)[i] = q[i + 1]
    BY <2>2, HeadTailProperties
  <2>4. /\ Append(Tail(q), m) \in Seq(Nat) /\ Len(Append(Tail(q), m)) = Len(Tail(q)) + 1
        /\ \A i \in 1..Len(Tail(q)) : Append(Tail(q), m)[i] = Tail(q)[i]
        /\ Append(Tail(q), m)[Len(Tail(q)) + 1] = m
    BY <2>3, AppendProperties
  <2>5. Len(Append(Tail(q), m)) = Len(q) /\ Append(Tail(q), m)[Len(q)] = m
    BY <1>1, <2>3, <2>4
  <2>6. Append(Tail(q), m) # <<>>
    BY <1>1, <1>3, <2>5, EmptySeq
  <2> QED
    BY <1>1, <1>3, <2>1, <2>3, <2>4, <2>5, <2>6
<1> QED
  BY <1>1, <1>2, <1>3

\* A queue of consecutive messages stays one when the next message is pushed.
LEMMA RunGoesOn ==
    ASSUME BroadcastAssumption, NEW q \in Seq(Nat), NEW l \in Nat, Len(q) <= ChannelSize,
           \A i \in 1..Len(q) : q[i] = l - Len(q) + i
    PROVE  LET p == Push(q, l + 1)
           IN  \A i \in 1..Len(p) : p[i] = (l + 1) - Len(p) + i
<1> DEFINE p == Push(q, l + 1)
<1>1. /\ p \in Seq(Nat)
      /\ Len(q) < ChannelSize => /\ Len(p) = Len(q) + 1 /\ p[Len(q) + 1] = l + 1
                                 /\ \A i \in 1..Len(q) : p[i] = q[i]
      /\ Len(q) = ChannelSize => /\ Len(p) = Len(q) /\ p[Len(q)] = l + 1
                                 /\ \A i \in 1..(Len(q) - 1) : p[i] = q[i + 1]
  <2>1. l + 1 \in Nat
    OBVIOUS
  <2> QED
    BY <2>1, Pushed
<1>2. Len(q) \in Nat /\ ChannelSize \in Nat /\ Len(p) \in Nat
  BY <1>1, LenProperties DEF BroadcastAssumption
<1> HIDE DEF p
<1>3. ASSUME NEW i \in 1..Len(p) PROVE p[i] = (l + 1) - Len(p) + i
  <2>1. CASE Len(q) < ChannelSize /\ i \in 1..Len(q)
    <3>1. p[i] = l - Len(q) + i /\ Len(p) = Len(q) + 1
      BY <1>1, <1>2, <2>1
    <3>2. l - Len(q) + i = (l + 1) - Len(p) + i
      BY <1>2, <3>1
    <3> QED
      BY <3>1, <3>2
  <2>2. CASE Len(q) < ChannelSize /\ i = Len(q) + 1
    BY <1>1, <1>2, <2>2
  <2>3. CASE Len(q) = ChannelSize /\ i \in 1..(Len(q) - 1)
    <3>1. i + 1 \in 1..Len(q) /\ p[i] = q[i + 1]
      BY <1>1, <1>2, <2>3
    <3>2. q[i + 1] = l - Len(q) + (i + 1)
      BY <3>1
    <3>3. Len(p) = Len(q)
      BY <1>1, <2>3
    <3>4. l - Len(q) + (i + 1) = (l + 1) - Len(p) + i
      BY <1>2, <3>3
    <3> QED
      BY <3>1, <3>2, <3>4
  <2>4. CASE Len(q) = ChannelSize /\ i = Len(q)
    <3>1. Len(p) = Len(q) /\ p[i] = l + 1
      BY <1>1, <2>4
    <3>2. l + 1 = (l + 1) - Len(p) + i
      BY <1>2, <2>4, <3>1
    <3> QED
      BY <3>1, <3>2
  <2> QED
    BY <1>1, <1>2, <2>1, <2>2, <2>3, <2>4
<1> QED
  BY <1>3 DEF p

\* A bus starts without channels.
LEMMA BusStarts == ASSUME BroadcastAssumption, BusInit PROVE BusInv
<1> USE DEF BusInit, BroadcastAssumption
<1>1. BusTypes
  BY DEF BusTypes, Phases
<1>2. PhasesHold
  BY EmptySeq DEF PhasesHold
<1>3. OneTypeEach /\ HoldersUpToDate
  BY DEF OneTypeEach, HoldersUpToDate
<1> QED
  BY <1>1, <1>2, <1>3 DEF BusInv

\* or_insert_with: the channel of a type is the one that was there, or new.
LEMMA Inserted ==
    ASSUME BroadcastAssumption, BusInv, NEW t \in Types, OrInsert(t)
    PROVE  /\ made' \in Nat /\ Channels \subseteq Channels'
           /\ channels' \in [Types -> Channels' \cup {NoChannel}]
           /\ channels'[t] \in Channels' /\ channels'[t] # NoChannel
           /\ \A u \in Types : u # t => channels'[u] = channels[u]
           /\ channels'[t] = channels[t] \/ channels'[t] \notin Channels \cup {NoChannel}
           /\ channels[t] # NoChannel => channels' = channels
<1>1. /\ made \in Nat /\ channels \in [Types -> Channels \cup {NoChannel}] /\ NoChannel \notin Nat
  BY DEF BusInv, BusTypes, BroadcastAssumption
<1>2. CASE channels[t] # NoChannel /\ UNCHANGED <<channels, made>>
  BY <1>1, <1>2 DEF Channels
<1>3. CASE /\ channels[t] = NoChannel /\ channels' = [channels EXCEPT ![t] = made + 1]
           /\ made' = made + 1
  <2>1. /\ made + 1 \in Nat /\ made + 1 \notin Channels /\ made + 1 \in Channels'
        /\ Channels \subseteq Channels'
    BY <1>1, <1>3 DEF Channels
  <2> QED
    BY <1>1, <1>3, <2>1
<1> QED
  BY <1>2, <1>3 DEF OrInsert

\* No subscriber changes what it holds, while a type may get its channel.
LEMMA StillOneType ==
    ASSUME BroadcastAssumption, BusInv, NEW t \in Types, OrInsert(t), UNCHANGED <<tx, rx>>
    PROVE  OneTypeEach'
<1>1. /\ \A u \in Types : u # t => channels'[u] = channels[u]
      /\ channels'[t] = channels[t] \/ channels'[t] \notin Channels \cup {NoChannel}
  BY Inserted
<1>2. /\ \A u \in Types : channels[u] \in Channels \cup {NoChannel}
      /\ \A s \in Subscribers : {tx[s], rx[s]} \subseteq Channels \cup {NoChannel}
  BY DEF BusInv, BusTypes
<1>3. CASE channels'[t] = channels[t]
  BY <1>1, <1>3 DEF BusInv, OneTypeEach
<1>4. CASE channels'[t] \notin Channels \cup {NoChannel}
  BY <1>1, <1>2, <1>4 DEF BusInv, OneTypeEach
<1> QED
  BY <1>1, <1>3, <1>4

\* publish: who has the channel of the map gets the message, and who was up to
\* date still is.
LEMMA PublishKeeps ==
    ASSUME BroadcastAssumption, BusInv, NEW t \in Types, Publish(t)
    PROVE  BusInv'
<1> USE DEF BusInv
<1> DEFINE to == Receivers(channels'[t])
<1>1. /\ OrInsert(t) /\ UNCHANGED <<sub, tx, rx, next>>
      /\ last' = [last EXCEPT ![t] = last[t] + 1]
      /\ queue' = [s \in Subscribers |-> IF s \in to THEN Push(queue[s], last'[t]) ELSE queue[s]]
      /\ lagged' = [s \in Subscribers |-> lagged[s] \/ (s \in to /\ Len(queue[s]) = ChannelSize)]
  BY DEF Publish
<1>2. /\ made' \in Nat /\ Channels \subseteq Channels'
      /\ channels' \in [Types -> Channels' \cup {NoChannel}] /\ channels'[t] # NoChannel
  BY <1>1, Inserted
<1>3. last[t] \in Nat /\ last'[t] = last[t] + 1 /\ last' \in [Types -> Nat]
  BY <1>1 DEF BusTypes
<1>4. \A s \in Subscribers :
         queue[s] \in Seq(Nat) /\ Len(queue[s]) <= ChannelSize /\ Len(queue[s]) \in Nat
  BY LenProperties DEF BusTypes, PhasesHold
<1>5. \A s \in Subscribers : s \in to <=> rx[s] = channels'[t]
  BY DEF Receivers
<1>6. BusTypes'
  <2>1. \A s \in Subscribers : Push(queue[s], last'[t]) \in Seq(Nat)
    BY <1>3, <1>4, Pushed
  <2>2. queue' \in [Subscribers -> Seq(Nat)]
    BY <1>1, <1>4, <2>1
  <2>3. lagged' \in [Subscribers -> BOOLEAN]
    BY <1>1
  <2> QED
    BY <1>1, <1>2, <1>3, <2>2, <2>3 DEF BusTypes
<1>7. PhasesHold'
  <2>1. ASSUME NEW s \in Subscribers, s \in to
        PROVE  /\ sub[s] \notin {"idle", "cloned"}
               /\ Len(queue'[s]) <= ChannelSize /\ queue'[s] # <<>>
    <3>1. sub[s] \notin {"idle", "cloned"}
      BY <1>2, <1>5, <2>1 DEF PhasesHold
    <3>2. queue'[s] = Push(queue[s], last'[t])
      BY <1>1, <2>1
    <3>3. /\ Push(queue[s], last'[t]) # <<>>
          /\ Len(queue[s]) < ChannelSize => Len(Push(queue[s], last'[t])) = Len(queue[s]) + 1
          /\ Len(queue[s]) = ChannelSize => Len(Push(queue[s], last'[t])) = Len(queue[s])
      BY <1>3, <1>4, Pushed
    <3>4. ChannelSize \in Nat
      BY DEF BroadcastAssumption
    <3> QED
      BY <1>4, <3>1, <3>2, <3>3, <3>4
  <2>2. \A s \in Subscribers : s \notin to => queue'[s] = queue[s] /\ lagged'[s] = lagged[s]
    BY <1>1 DEF BusTypes
  <2> QED
    BY <1>1, <2>1, <2>2 DEF PhasesHold
<1>8. OneTypeEach'
  BY <1>1, StillOneType
<1>9. HoldersUpToDate'
  <2>1. SUFFICES ASSUME NEW s \in Subscribers, sub[s] = "live", channels'[TypeOf[s]] = rx[s]
                 PROVE  UpToDate(s)'
    BY <1>1 DEF HoldersUpToDate
  <2>2. TypeOf[s] \in Types /\ rx[s] # NoChannel /\ rx[s] \in Channels
    BY <2>1 DEF BroadcastAssumption, PhasesHold, BusTypes
  <2>3. channels[TypeOf[s]] = rx[s]
    BY <1>1, <2>1, <2>2, Inserted
  <2>4. UpToDate(s)
    BY <2>1, <2>3 DEF HoldersUpToDate
  <2>5. CASE TypeOf[s] = t
    <3> DEFINE q == queue[s]  p == Push(queue[s], last[t] + 1)
    <3>1. queue'[s] = p /\ (lagged[s] \/ Len(q) = ChannelSize => lagged'[s])
      BY <1>1, <1>3, <1>5, <2>1, <2>5
    <3>2. /\ p \in Seq(Nat)
          /\ Len(q) < ChannelSize => /\ Len(p) = Len(q) + 1 /\ p[Len(q) + 1] = last[t] + 1
                                     /\ \A i \in 1..Len(q) : p[i] = q[i]
          /\ Len(q) = ChannelSize => /\ Len(p) = Len(q) /\ p[Len(q)] = last[t] + 1
                                     /\ \A i \in 1..(Len(q) - 1) : p[i] = q[i + 1]
      <4>1. last[t] + 1 \in Nat
        BY <1>3
      <4> QED
        BY <4>1, <1>4, Pushed
    <3>3. /\ \A i \in 1..Len(q) : q[i] = last[t] - Len(q) + i
          /\ lagged[s] \/ next[s] + Len(q) = last[t] + 1
      BY <2>4, <2>5 DEF UpToDate
    <3>4. Len(q) \in Nat /\ Len(q) <= ChannelSize /\ ChannelSize \in Nat /\ next[s] \in Nat
      BY <1>4 DEF BroadcastAssumption, BusTypes
    <3>5. \A i \in 1..Len(p) : p[i] = (last[t] + 1) - Len(p) + i
      BY <1>3, <1>4, <3>3, RunGoesOn
    <3> HIDE DEF q, p
    <3>6. lagged'[s] \/ next[s] + Len(p) = last[t] + 1 + 1
      <4>1. CASE Len(q) < ChannelSize /\ ~lagged[s]
        <5>1. Len(p) = Len(q) + 1 /\ next[s] + Len(q) = last[t] + 1
          BY <3>2, <3>3, <4>1
        <5> QED
          BY <1>3, <3>4, <5>1
      <4> QED
        BY <3>1, <3>4, <4>1
    <3>7. last'[TypeOf[s]] = last[t] + 1 /\ next'[s] = next[s]
      BY <1>1, <1>3, <2>5
    <3> DEFINE l == last[t] + 1
    <3>a. last'[TypeOf[s]] = l /\ \A i \in 1..Len(p) : p[i] = l - Len(p) + i
      BY <3>5, <3>7
    <3> HIDE DEF l
    <3>8. \A i \in 1..Len(queue'[s]) : queue'[s][i] = last'[TypeOf[s]] - Len(queue'[s]) + i
      BY <3>1, <3>a
    <3>9. lagged'[s] \/ next'[s] + Len(queue'[s]) = last'[TypeOf[s]] + 1
      BY <3>1, <3>6, <3>7, Zenon
    <3> QED
      BY <3>8, <3>9, Zenon DEF UpToDate
  <2>6. CASE TypeOf[s] # t
    <3>1. s \notin to
      BY <1>2, <1>5, <1>8, <1>1, <2>6 DEF OneTypeEach
    <3>2. last'[TypeOf[s]] = last[TypeOf[s]] /\ queue'[s] = queue[s] /\ lagged'[s] = lagged[s]
      BY <1>1, <2>2, <2>6, <3>1 DEF BusTypes
    <3> QED
      BY <1>1, <2>4, <3>2 DEF UpToDate
  <2> QED
    BY <2>5, <2>6
<1> QED
  BY <1>6, <1>7, <1>8, <1>9

\* sub_type_channel: the sender is cloned, and nothing else changes hands.
LEMMA CloneKeeps ==
    ASSUME BroadcastAssumption, BusInv, NEW s \in Subscribers, CloneSender(s)
    PROVE  BusInv'
<1> USE DEF BusInv
<1> DEFINE t == TypeOf[s]
<1>1. /\ sub[s] = "idle" /\ OrInsert(t) /\ tx' = [tx EXCEPT ![s] = channels'[t]]
      /\ sub' = [sub EXCEPT ![s] = "cloned"] /\ UNCHANGED <<rx, queue, lagged, next, last>>
      /\ t \in Types
  BY DEF CloneSender, BroadcastAssumption
<1>2. /\ made' \in Nat /\ Channels \subseteq Channels'
      /\ channels' \in [Types -> Channels' \cup {NoChannel}]
      /\ channels'[t] \in Channels' /\ channels'[t] # NoChannel
      /\ \A u \in Types : u # t => channels'[u] = channels[u]
      /\ channels'[t] = channels[t] \/ channels'[t] \notin Channels \cup {NoChannel}
  BY <1>1, Inserted
<1>3. /\ tx' \in [Subscribers -> Channels' \cup {NoChannel}] /\ tx'[s] = channels'[t]
      /\ \A o \in Subscribers : o # s => tx'[o] = tx[o]
      /\ sub' \in [Subscribers -> Phases] /\ sub'[s] = "cloned"
      /\ \A o \in Subscribers : o # s => sub'[o] = sub[o]
  BY <1>1, <1>2 DEF BusTypes, Phases
<1>4. BusTypes'
  BY <1>1, <1>2, <1>3 DEF BusTypes
<1>5. PhasesHold'
  BY <1>1, <1>2, <1>3 DEF PhasesHold
<1>6. OneTypeEach'
  <2>1. /\ \A u \in Types : channels[u] \in Channels \cup {NoChannel}
        /\ \A o \in Subscribers : {tx[o], rx[o]} \subseteq Channels \cup {NoChannel}
    BY DEF BusTypes
  <2>2. \A u, v \in Types : channels'[u] # NoChannel /\ channels'[u] = channels'[v] => u = v
    BY <1>2, <2>1 DEF OneTypeEach
  <2>3. \A u \in Types, o \in Subscribers :
           channels'[u] # NoChannel /\ channels'[u] \in {tx[o], rx[o]} => u = TypeOf[o]
    BY <1>2, <2>1 DEF OneTypeEach
  <2>4. \A u \in Types, o \in Subscribers :
           channels'[u] # NoChannel /\ channels'[u] \in {tx'[o], rx'[o]} => u = TypeOf[o]
    BY <1>1, <1>3, <2>2, <2>3
  <2> QED
    BY <2>2, <2>4 DEF OneTypeEach
<1>7. HoldersUpToDate'
  <2>1. SUFFICES ASSUME NEW o \in Subscribers, sub'[o] = "live", channels'[TypeOf[o]] = rx[o]
                 PROVE  UpToDate(o)'
    BY <1>1 DEF HoldersUpToDate
  <2>2. sub[o] = "live" /\ rx[o] \in Channels /\ TypeOf[o] \in Types
    BY <1>3, <2>1 DEF PhasesHold, BusTypes, BroadcastAssumption
  <2>3. channels[TypeOf[o]] = rx[o]
    BY <1>2, <2>1, <2>2
  <2> QED
    BY <1>1, <2>2, <2>3 DEF HoldersUpToDate, UpToDate
<1> QED
  BY <1>4, <1>5, <1>6, <1>7

\* subscribe: the receiver starts behind the last message of its type.
LEMMA SubscribeKeeps ==
    ASSUME BroadcastAssumption, BusInv, NEW s \in Subscribers, Subscribe(s)
    PROVE  BusInv'
<1> USE DEF BusInv
<1>1. /\ sub[s] = "cloned" /\ rx' = [rx EXCEPT ![s] = tx[s]] /\ tx' = [tx EXCEPT ![s] = NoChannel]
      /\ sub' = [sub EXCEPT ![s] = "live"]
      /\ next' = [next EXCEPT ![s] = last[TypeOf[s]] + 1]
      /\ UNCHANGED <<channels, made, queue, lagged, last>>
  BY DEF Subscribe
<1>2. TypeOf[s] \in Types /\ last[TypeOf[s]] \in Nat /\ tx[s] \in Channels /\ tx[s] # NoChannel
  BY <1>1 DEF BusTypes, PhasesHold, BroadcastAssumption
<1>3. /\ rx' \in [Subscribers -> Channels \cup {NoChannel}] /\ rx'[s] = tx[s]
      /\ \A o \in Subscribers : o # s => rx'[o] = rx[o]
      /\ tx' \in [Subscribers -> Channels \cup {NoChannel}] /\ tx'[s] = NoChannel
      /\ \A o \in Subscribers : o # s => tx'[o] = tx[o]
      /\ sub' \in [Subscribers -> Phases] /\ sub'[s] = "live"
      /\ \A o \in Subscribers : o # s => sub'[o] = sub[o]
      /\ next' \in [Subscribers -> Nat] /\ next'[s] = last[TypeOf[s]] + 1
      /\ \A o \in Subscribers : o # s => next'[o] = next[o]
  BY <1>1, <1>2 DEF BusTypes, Phases
<1>4. BusTypes'
  BY <1>1, <1>3 DEF BusTypes, Channels
<1>5. PhasesHold'
  BY <1>1, <1>2, <1>3 DEF PhasesHold
<1>6. OneTypeEach'
  BY <1>1, <1>3 DEF OneTypeEach
<1>7. HoldersUpToDate'
  <2>1. UpToDate(s)'
    <3>1. queue'[s] = <<>> /\ Len(<<>>) = 0
      BY <1>1, EmptySeq DEF PhasesHold
    <3>2. last'[TypeOf[s]] = last[TypeOf[s]] /\ next'[s] + 0 = last[TypeOf[s]] + 1
      BY <1>1, <1>2, <1>3
    <3> QED
      BY <3>1, <3>2 DEF UpToDate
  <2>2. ASSUME NEW o \in Subscribers, o # s, sub'[o] = "live", channels'[TypeOf[o]] = rx'[o]
        PROVE  UpToDate(o)'
    BY <1>1, <1>3, <2>2 DEF HoldersUpToDate, UpToDate
  <2> QED
    BY <2>1, <2>2 DEF HoldersUpToDate
<1> QED
  BY <1>4, <1>5, <1>6, <1>7

\* recv: told of what was overwritten, the next message, or the end.
LEMMA RecvKeeps ==
    ASSUME BroadcastAssumption, BusInv, NEW s \in Subscribers,
           RecvLagged(s) \/ Recv(s) \/ RecvClosed(s)
    PROVE  BusInv'
<1> USE DEF BusInv
<1>0. /\ queue[s] \in Seq(Nat) /\ Len(queue[s]) \in Nat /\ Len(queue[s]) <= ChannelSize
      /\ TypeOf[s] \in Types /\ last[TypeOf[s]] \in Nat /\ ChannelSize \in Nat
  BY LenProperties DEF BusTypes, PhasesHold, BroadcastAssumption
<1>1. ASSUME queue[s] # <<>>
      PROVE  /\ Head(queue[s]) = queue[s][1] /\ Head(queue[s]) \in Nat /\ Len(queue[s]) >= 1
             /\ Tail(queue[s]) \in Seq(Nat) /\ Len(Tail(queue[s])) = Len(queue[s]) - 1
             /\ \A i \in 1..Len(Tail(queue[s])) : Tail(queue[s])[i] = queue[s][i + 1]
  BY <1>0, <1>1, HeadTailProperties, EmptySeq
<1>2. ASSUME RecvLagged(s) PROVE BusInv'
  <2>1. /\ sub[s] = "live" /\ lagged[s] /\ queue[s] # <<>>
        /\ lagged' = [lagged EXCEPT ![s] = FALSE]
        /\ next' = [next EXCEPT ![s] = queue[s][1]] /\ queue[s][1] \in Nat
        /\ UNCHANGED <<channels, made, sub, tx, rx, queue, last>>
    BY <1>1, <1>2 DEF RecvLagged, PhasesHold
  <2>2. /\ lagged' \in [Subscribers -> BOOLEAN] /\ ~lagged'[s]
        /\ \A o \in Subscribers : o # s => lagged'[o] = lagged[o]
        /\ next' \in [Subscribers -> Nat] /\ next'[s] = queue[s][1]
        /\ \A o \in Subscribers : o # s => next'[o] = next[o]
    BY <2>1 DEF BusTypes
  <2>3. BusTypes' /\ PhasesHold' /\ OneTypeEach'
    BY <2>1, <2>2 DEF BusTypes, PhasesHold, OneTypeEach, Channels
  <2>4. UpToDate(s) => UpToDate(s)'
    <3>1. SUFFICES ASSUME UpToDate(s) PROVE UpToDate(s)'
      OBVIOUS
    <3>2. queue[s][1] = last[TypeOf[s]] - Len(queue[s]) + 1
      BY <1>0, <1>1, <2>1, <3>1 DEF UpToDate
    <3>3. next'[s] + Len(queue[s]) = last[TypeOf[s]] + 1
      BY <1>0, <2>2, <3>2
    <3> QED
      BY <2>1, <3>1, <3>3 DEF UpToDate
  <2>5. \A o \in Subscribers : o # s => (UpToDate(o) => UpToDate(o)')
    BY <2>1, <2>2 DEF UpToDate
  <2> QED
    BY <2>1, <2>3, <2>4, <2>5 DEF HoldersUpToDate
<1>3. ASSUME Recv(s) PROVE BusInv'
  <2>1. /\ sub[s] = "live" /\ ~lagged[s] /\ queue[s] # <<>>
        /\ next' = [next EXCEPT ![s] = queue[s][1] + 1] /\ queue[s][1] \in Nat
        /\ queue' = [queue EXCEPT ![s] = Tail(queue[s])]
        /\ UNCHANGED <<channels, made, sub, tx, rx, lagged, last>>
    BY <1>1, <1>3 DEF Recv
  <2>2. /\ queue' \in [Subscribers -> Seq(Nat)] /\ queue'[s] = Tail(queue[s])
        /\ \A o \in Subscribers : o # s => queue'[o] = queue[o]
        /\ next' \in [Subscribers -> Nat] /\ next'[s] = queue[s][1] + 1
        /\ \A o \in Subscribers : o # s => next'[o] = next[o]
    BY <1>1, <2>1 DEF BusTypes
  <2>3. BusTypes' /\ OneTypeEach'
    BY <2>1, <2>2 DEF BusTypes, OneTypeEach, Channels
  <2>4. PhasesHold'
    <3>1. Len(queue'[s]) <= ChannelSize
      BY <1>0, <1>1, <2>1, <2>2
    <3> QED
      BY <2>1, <2>2, <3>1 DEF PhasesHold
  <2>5. UpToDate(s) => UpToDate(s)'
    <3>1. SUFFICES ASSUME UpToDate(s) PROVE UpToDate(s)'
      OBVIOUS
    <3> DEFINE n == Len(queue[s])  l == last[TypeOf[s]]  q == Tail(queue[s])
    <3>2. /\ n \in Nat /\ n >= 1 /\ l \in Nat /\ Len(q) = n - 1
          /\ \A i \in 1..(n - 1) : q[i] = queue[s][i + 1]
          /\ \A i \in 1..n : queue[s][i] = l - n + i
      BY <1>0, <1>1, <2>1, <3>1 DEF UpToDate
    <3> HIDE DEF n, l, q
    <3>3. ASSUME NEW i \in 1..Len(q) PROVE q[i] = l - Len(q) + i
      <4>1. i + 1 \in 1..n /\ q[i] = queue[s][i + 1]
        BY <3>2
      <4>2. q[i] = l - n + (i + 1)
        BY <3>2, <4>1
      <4> QED
        BY <3>2, <4>2
    <3>4. next'[s] + Len(q) = l + 1
      <4>1. next'[s] = l - n + 1 + 1
        <5>1. 1 \in 1..n /\ queue[s][1] = l - n + 1
          BY <3>2
        <5> QED
          BY <2>2, <5>1
      <4> QED
        BY <3>2, <4>1
    <3>5. queue'[s] = q /\ last'[TypeOf[s]] = l
      BY <2>1, <2>2 DEF q, l
    <3> QED
      BY <3>3, <3>4, <3>5 DEF UpToDate
  <2>6. \A o \in Subscribers : o # s => (UpToDate(o) => UpToDate(o)')
    BY <2>1, <2>2 DEF UpToDate
  <2> QED
    BY <2>1, <2>3, <2>4, <2>5, <2>6 DEF HoldersUpToDate
<1>4. ASSUME RecvClosed(s) PROVE BusInv'
  <2>1. /\ sub[s] = "live" /\ sub' = [sub EXCEPT ![s] = "told"]
        /\ UNCHANGED <<channels, made, tx, rx, queue, lagged, next, last>>
    BY <1>4 DEF RecvClosed
  <2>2. /\ sub' \in [Subscribers -> Phases] /\ sub'[s] = "told"
        /\ \A o \in Subscribers : o # s => sub'[o] = sub[o]
    BY <2>1 DEF BusTypes, Phases
  <2>3. BusTypes' /\ PhasesHold' /\ OneTypeEach'
    BY <2>1, <2>2 DEF BusTypes, PhasesHold, OneTypeEach, Channels
  <2>4. HoldersUpToDate'
    BY <2>1, <2>2 DEF HoldersUpToDate, UpToDate
  <2> QED
    BY <2>3, <2>4
<1> QED
  BY <1>2, <1>3, <1>4

\* A receiver is dropped.
LEMMA DropKeeps ==
    ASSUME BroadcastAssumption, BusInv, NEW s \in Subscribers, DropReceiver(s)
    PROVE  BusInv'
<1> USE DEF BusInv
<1>1. /\ sub[s] \in {"live", "told"} /\ sub' = [sub EXCEPT ![s] = "idle"]
      /\ rx' = [rx EXCEPT ![s] = NoChannel] /\ queue' = [queue EXCEPT ![s] = <<>>]
      /\ lagged' = [lagged EXCEPT ![s] = FALSE] /\ next' = [next EXCEPT ![s] = 0]
      /\ UNCHANGED <<channels, made, tx, last>>
  BY DEF DropReceiver
<1>2. /\ sub' \in [Subscribers -> Phases] /\ sub'[s] = "idle"
      /\ rx' \in [Subscribers -> Channels \cup {NoChannel}] /\ rx'[s] = NoChannel
      /\ queue' \in [Subscribers -> Seq(Nat)] /\ queue'[s] = <<>>
      /\ lagged' \in [Subscribers -> BOOLEAN] /\ ~lagged'[s]
      /\ next' \in [Subscribers -> Nat]
      /\ \A o \in Subscribers : o # s =>
            /\ sub'[o] = sub[o] /\ rx'[o] = rx[o] /\ queue'[o] = queue[o]
            /\ lagged'[o] = lagged[o] /\ next'[o] = next[o]
  BY <1>1, EmptySeq DEF BusTypes, Phases
<1>3. BusTypes' /\ OneTypeEach'
  BY <1>1, <1>2 DEF BusTypes, OneTypeEach, Channels
<1>4. PhasesHold'
  BY <1>1, <1>2, EmptySeq DEF PhasesHold, BroadcastAssumption
<1>5. HoldersUpToDate'
  BY <1>1, <1>2 DEF HoldersUpToDate, UpToDate
<1> QED
  BY <1>3, <1>4, <1>5

\* The cleanup takes a channel out of the map, which nobody is up to date with
\* any more, and never puts it back.
LEMMA CleanupKeeps ==
    ASSUME BroadcastAssumption, BusInv,
           CleanupSleeps \/ \E t \in Types : CleanupLooks(t) \/ CleanupRemoves(t)
    PROVE  BusInv'
<1> USE DEF BusInv
<1>1. /\ UNCHANGED <<made, sub, tx, rx, queue, lagged, next, last>>
      /\ channels' = channels \/ \E t \in Types : channels' = [channels EXCEPT ![t] = NoChannel]
  BY DEF CleanupSleeps, CleanupLooks, CleanupRemoves
<1>2. /\ channels' \in [Types -> Channels \cup {NoChannel}]
      /\ \A u \in Types : channels'[u] \in {channels[u], NoChannel}
  BY <1>1 DEF BusTypes
<1>3. BusTypes' /\ PhasesHold' /\ OneTypeEach'
  BY <1>1, <1>2 DEF BusTypes, PhasesHold, OneTypeEach, Channels
<1>4. HoldersUpToDate'
  <2>1. \A s \in Subscribers : TypeOf[s] \in Types
    BY DEF BroadcastAssumption
  <2> QED
    BY <1>1, <1>2, <2>1 DEF HoldersUpToDate, UpToDate, PhasesHold
<1> QED
  BY <1>3, <1>4

\* Every step keeps BusInv.
LEMMA BusStep == ASSUME BroadcastAssumption, BusInv, [BusNext]_busVars PROVE BusInv'
<1>1. ASSUME UNCHANGED busVars PROVE BusInv'
  BY <1>1 DEF busVars, BusInv, BusTypes, Channels, PhasesHold, OneTypeEach, HoldersUpToDate,
     UpToDate
<1> QED
  BY <1>1, PublishKeeps, CloneKeeps, SubscribeKeeps, RecvKeeps, DropKeeps, CleanupKeeps
    DEF BusNext

\* A subscriber of either bus call, however many there are and whatever the
\* cleanup removes under it, misses no message without being told.
THEOREM NothingMissedSilently ==
    ASSUME BroadcastAssumption PROVE BusSpec => []DeliveredOrTold
<1>1. BusInit => BusInv
  BY BusStarts
<1>2. BusInv /\ [BusNext]_busVars => BusInv'
  BY BusStep
<1>3. BusInv => DeliveredOrTold
  <2>1. SUFFICES ASSUME BusInv, NEW s \in Subscribers, sub[s] = "live", ~Orphaned(s)
                 PROVE  UpToDate(s)
    BY DEF DeliveredOrTold, UpToDate
  <2>2. \A x \in Subscribers : tx[x] = rx[s] => sub[x] = "cloned"
    BY <2>1 DEF BusInv, PhasesHold
  <2> QED
    BY <2>1, <2>2 DEF Orphaned, BusInv, HoldersUpToDate
<1> QED
  BY <1>1, <1>2, <1>3, PTL DEF BusSpec

----------------------------------------------------------------------------
(* DaemonControl: OneDaemon and KilledOnlyWhenHung for any number of users, *)
(* commands, services and command processes, and every pair of time limits *)
(* of which the application's is the shorter.                              *)

Places == {"idle", "save", "write", "load", "read", "check", "term", "wait", "killed",
           "remove", "fork"}
Ops == {"none", "start", "foreground", "stop", "restart", "status"}
Lives == {"none", "forked", "opened", "init", "written", "running", "stopping", "dead"}

\* A service that has not written its pid, one that has and lives, and one that has.
Coming == {"forked", "opened", "init"}
Present == {"written", "running", "stopping"}
Past == Present \cup {"dead"}
Locked == {"init"} \cup Present

\* Where a command holds the pid it has read, where it has found that it may
\* signal the process, and where it has not waited yet.
Guarded == {"check", "term", "wait", "killed", "remove"}
Signalling == {"term", "wait", "killed"}
Fresh == {"save", "write", "load", "read", "check", "term"}

CommandRecord == [op : Ops, at : Places, user : Users \cup {Absent},
                  pid : Services \cup {Absent}, waited : Nat]

DaemonTypes ==
    /\ cmd \in [Commands -> CommandRecord]
    /\ svc \in [Services -> Lives]
    /\ owner \in [Services -> Users \cup {Absent}]
    /\ fd \in [Services -> Services \cup {Absent}]
    /\ text \in [Services -> Services \cup {Absent}]
    /\ age \in [Services -> Nat]
    /\ pidFile \in Services \cup {Absent}
    /\ unlinked \subseteq Services /\ overlap \in BOOLEAN

\* A pid is read from a file, and is that of a service which wrote it.  A command
\* that removes the file has found the process gone, or took it for gone.
PidsKnown ==
    /\ \A f \in Services : text[f] # Absent => svc[text[f]] \in Past
    /\ \A c \in Commands : cmd[c].at \in Guarded =>
          cmd[c].pid \in Services /\ svc[cmd[c].pid] \in Past
    /\ \A c \in Commands : cmd[c].at \in Signalling => MaySignal(c, cmd[c].pid)
    /\ \A c \in Commands : cmd[c].at = "remove" =>
          svc[cmd[c].pid] = "dead" \/ cmd[c].pid \in mistaken

\* A service that a command waits for and that is not hung has been shutting
\* down for as long as the command has waited.
TimeKept ==
    /\ \A s \in Services : age[s] <= AppTimeout
    /\ \A c \in Commands :
          /\ cmd[c].at \in Fresh => cmd[c].waited = 0
          /\ cmd[c].at = "wait" =>
                \/ svc[cmd[c].pid] = "dead"
                \/ /\ svc[cmd[c].pid] = "stopping"
                   /\ cmd[c].pid \notin hung => cmd[c].waited <= age[cmd[c].pid]
    /\ KilledOnlyWhenHung

\* A pid file has one owner, whose pid is in it as soon as it is written.
OneOwner ==
    /\ \A s \in Services : svc[s] \in {"none", "forked"} => fd[s] = Absent
    /\ \A s \in Services : svc[s] \in {"opened", "init"} => fd[s] # Absent
    /\ \A s, o \in Services :
          svc[s] \in Locked /\ svc[o] \in Locked /\ fd[s] # Absent /\ fd[s] = fd[o] => s = o
    /\ \A s \in Services : svc[s] \in Present /\ fd[s] # Absent => text[fd[s]] = s

\* Every service has open the file that .pid names, until a command unlinks it.
FileNamed ==
    \A s \in Services : Alive(s) /\ fd[s] # Absent /\ s \notin unlinked => fd[s] = pidFile

\* Commands given one after the other: no service is on its way while one is
\* carried out, and the pid it has read stays the one in the file.
OneAtATime ==
    ~overlap =>
        /\ unlinked \subseteq mistaken
        /\ \A c, o \in Commands : cmd[c].at # "idle" /\ cmd[o].at # "idle" => c = o
        /\ \A c \in Commands : cmd[c].at # "idle" => \A s \in Services : svc[s] \notin Coming
        /\ \A c \in Commands : cmd[c].at \in Guarded =>
              pidFile # Absent /\ text[pidFile] = cmd[c].pid

DaemonInv == DaemonTypes /\ PidsKnown /\ TimeKept /\ OneOwner /\ FileNamed /\ OneAtATime

USE DEF Guarded, Signalling, Fresh

\* The constants, and what the provers need to know of them.
LEMMA Limits ==
    ASSUME DaemonAssumption
    PROVE  /\ MaxServices \in Nat /\ StopTimeout \in Nat /\ AppTimeout \in Nat
           /\ AppTimeout < StopTimeout
           /\ Absent \notin Services
BY DEF DaemonAssumption, Services

\* The files are not there, and no command was given.
LEMMA DaemonStarts == ASSUME DaemonAssumption, DaemonInit PROVE DaemonInv
<1> USE Limits DEF DaemonInit, Idle
<1>1. DaemonTypes
  BY DEF DaemonTypes, CommandRecord, Places, Ops, Lives
<1>2. PidsKnown /\ TimeKept
  BY DEF PidsKnown, TimeKept, KilledOnlyWhenHung
<1>3. OneOwner /\ FileNamed /\ OneAtATime
  BY DEF OneOwner, FileNamed, OneAtATime, Locked, Present
<1> QED
  BY <1>1, <1>2, <1>3 DEF DaemonInv

\* What Proceed and Exit do to the command processes.
LEMMA Proceeds ==
    ASSUME cmd \in [Commands -> CommandRecord], NEW c \in Commands, NEW where \in Places,
           Proceed(c, where)
    PROVE  /\ cmd' \in [Commands -> CommandRecord]
           /\ \A o \in Commands : o # c => cmd'[o] = cmd[o]
           /\ cmd'[c].at = where /\ cmd'[c].op = cmd[c].op
           /\ cmd'[c].user = cmd[c].user
           /\ cmd'[c].pid = cmd[c].pid /\ cmd'[c].waited = cmd[c].waited
BY DEF Proceed, CommandRecord

\* A command process that exits.
LEMMA Exits ==
    ASSUME cmd \in [Commands -> CommandRecord], NEW c \in Commands, Exit(c)
    PROVE  /\ cmd' \in [Commands -> CommandRecord]
           /\ \A o \in Commands : o # c => cmd'[o] = cmd[o]
           /\ cmd'[c].at = "idle"
BY DEF Exit, CommandRecord, Idle, Ops, Places

\* A command that only goes on: what it must know where it goes to.
LEMMA CommandMoves ==
    ASSUME DaemonAssumption, DaemonInv, NEW c \in Commands,
           UNCHANGED <<pidFile, serviceVars, unlinked, overlap>>, mistaken \subseteq mistaken',
           cmd[c].at # "idle",
           cmd' \in [Commands -> CommandRecord],
           \A o \in Commands : o # c => cmd'[o] = cmd[o],
           cmd'[c].at # "wait",
           cmd'[c].at \in Fresh => cmd'[c].waited = 0,
           cmd'[c].at \in Guarded => /\ cmd'[c].pid \in Services
                                     /\ svc[cmd'[c].pid] \in Past
                                     /\ ~overlap => pidFile # Absent /\ text[pidFile] = cmd'[c].pid,
           cmd'[c].at \in Signalling => cmd'[c].user \in {Root, owner[cmd'[c].pid]},
           cmd'[c].at = "remove" => svc[cmd'[c].pid] = "dead" \/ cmd'[c].pid \in mistaken'
    PROVE  DaemonInv'
<1> USE DEF DaemonInv, serviceVars
<1>1. DaemonTypes'
  BY DEF DaemonTypes
<1>2. PidsKnown'
  BY DEF PidsKnown, MaySignal
<1>3. TimeKept'
  BY DEF TimeKept, KilledOnlyWhenHung
<1>4. OneOwner' /\ FileNamed'
  BY DEF OneOwner, FileNamed, Alive
<1>5. OneAtATime'
  BY DEF OneAtATime
<1> QED
  BY <1>1, <1>2, <1>3, <1>4, <1>5

\* daemon::run: a command is given.
LEMMA GiveKeeps ==
    ASSUME DaemonAssumption, DaemonInv, NEW c \in Commands,
           NEW op \in {"start", "foreground", "stop", "restart", "status"}, NEW user \in Users,
           Give(c, op, user)
    PROVE  DaemonInv'
<1> USE DEF DaemonInv, serviceVars
<1>1. /\ UNCHANGED <<pidFile, serviceVars, mistaken, unlinked>>
      /\ cmd' = [cmd EXCEPT ![c] = cmd'[c]]
      /\ cmd'[c] \in CommandRecord /\ cmd'[c].at \in {"save", "load", "read"}
      /\ cmd'[c].waited = 0
  <2>1. cmd \in [Commands -> CommandRecord]
    BY DEF DaemonTypes
  <2>2. PICK where \in {"save", "load", "read"} :
           cmd' = [cmd EXCEPT ![c] = [Idle EXCEPT !.op = op, !.user = user, !.at = where]]
    BY DEF Give
  <2> DEFINE r == [Idle EXCEPT !.op = op, !.user = user, !.at = where]
  <2>3. r \in CommandRecord /\ r.at = where /\ r.waited = 0
    BY DEF Idle, CommandRecord, Ops, Places
  <2>4. cmd' = [cmd EXCEPT ![c] = r]
    BY <2>2
  <2>5. UNCHANGED <<pidFile, serviceVars, mistaken, unlinked>>
    BY DEF Give
  <2> HIDE DEF r
  <2> QED
    BY <2>1, <2>3, <2>4, <2>5
<1>2. ~overlap' => /\ ~overlap /\ \A o \in Commands : cmd[o].at = "idle"
                   /\ \A s \in Services : svc[s] \notin Coming
  <2>1. overlap' = (overlap \/ (\E o \in Commands : cmd[o] # Idle)
                            \/ \E s \in Services : svc[s] \in {"forked", "opened", "init"})
    BY Zenon DEF Give
  <2>2. ~overlap' => /\ ~overlap /\ \A o \in Commands : cmd[o] = Idle
                     /\ \A s \in Services : svc[s] \notin {"forked", "opened", "init"}
    BY <2>1
  <2> QED
    BY <2>2 DEF Idle, Coming
<1>3. overlap' \in BOOLEAN
  BY DEF Give
<1>4. DaemonTypes'
  BY <1>1, <1>3 DEF DaemonTypes
<1>5. PidsKnown'
  BY <1>1 DEF PidsKnown, MaySignal, DaemonTypes
<1>6. TimeKept'
  BY <1>1 DEF TimeKept, KilledOnlyWhenHung, DaemonTypes
<1>7. OneOwner' /\ FileNamed'
  BY <1>1 DEF OneOwner, FileNamed, Alive
<1>8. OneAtATime'
  BY <1>1, <1>2 DEF OneAtATime, DaemonTypes
<1> QED
  BY <1>4, <1>5, <1>6, <1>7, <1>8

\* The steps of a command that change nothing but the meta file.
LEMMA ReadersKeep ==
    ASSUME DaemonAssumption, DaemonInv, NEW c \in Commands,
           \/ TruncateMeta(c) \/ WriteMeta(c) \/ LoadMeta(c) \/ ReadPid(c)
           \/ CheckPid(c) \/ ReportStatus(c) \/ SeesExit(c) \/ AfterKill(c)
    PROVE  DaemonInv'
<1> DEFINE from == cmd[c].at
<1>0. /\ cmd \in [Commands -> CommandRecord] /\ cmd[c] \in CommandRecord
      /\ pidFile # Absent => pidFile \in Services /\ text[pidFile] \in Services \cup {Absent}
      /\ \A p \in Services : svc[p] \in Lives
  BY DEF DaemonInv, DaemonTypes
<1>a. from \in Fresh => cmd[c].waited = 0
  BY DEF DaemonInv, TimeKept
<1>b. from \in Guarded => /\ cmd[c].pid \in Services /\ svc[cmd[c].pid] \in Past
                          /\ ~overlap => pidFile # Absent /\ text[pidFile] = cmd[c].pid
  BY DEF DaemonInv, PidsKnown, OneAtATime
<1>1. ASSUME TruncateMeta(c) PROVE DaemonInv'
  <2>1. /\ from = "save" /\ Proceed(c, "write")
        /\ UNCHANGED <<pidFile, serviceVars, mistaken, unlinked, overlap>>
    BY <1>1 DEF TruncateMeta
  <2>2. "write" \in Places
    BY DEF Places
  <2> QED
    BY <1>0, <1>a, <2>1, <2>2, Proceeds, CommandMoves
<1>2. ASSUME WriteMeta(c) PROVE DaemonInv'
  <2>1. PICK where \in {"read", "fork"} :
           /\ from = "write" /\ Proceed(c, where)
           /\ UNCHANGED <<pidFile, serviceVars, mistaken, unlinked, overlap>>
    BY <1>2 DEF WriteMeta
  <2>2. where \in Places
    BY DEF Places
  <2> QED
    BY <1>0, <1>a, <2>1, <2>2, Proceeds, CommandMoves
<1>3. ASSUME LoadMeta(c) PROVE DaemonInv'
  <2>1. /\ from = "load" /\ UNCHANGED <<pidFile, serviceVars, mistaken, unlinked, overlap>>
        /\ Proceed(c, "read") \/ Exit(c)
    BY <1>3 DEF LoadMeta
  <2>2. "read" \in Places
    BY DEF Places
  <2>3. CASE Proceed(c, "read")
    BY <1>0, <1>a, <2>1, <2>2, <2>3, Proceeds, CommandMoves
  <2>4. CASE Exit(c)
    BY <1>0, <2>1, <2>4, Exits, CommandMoves
  <2> QED
    BY <2>1, <2>3, <2>4
<1>4. ASSUME ReadPid(c) PROVE DaemonInv'
  <2> DEFINE pid == IF pidFile = Absent THEN Absent ELSE text[pidFile]
  <2>1. /\ from = "read" /\ UNCHANGED <<pidFile, serviceVars, mistaken, unlinked, overlap>>
        /\ \/ pid # Absent /\ cmd' = [cmd EXCEPT ![c].pid = pid, ![c].at = "check"]
           \/ Proceed(c, "fork")
           \/ cmd' = [cmd EXCEPT ![c].op = "start", ![c].at = "read"]
           \/ Exit(c)
    BY <1>4 DEF ReadPid
  <2>2. CASE pid # Absent /\ cmd' = [cmd EXCEPT ![c].pid = pid, ![c].at = "check"]
    <3>1. pidFile \in Services /\ pid = text[pidFile] /\ pid \in Services /\ svc[pid] \in Past
      BY <1>0, <2>2 DEF DaemonInv, PidsKnown
    <3>2. /\ cmd' \in [Commands -> CommandRecord]
          /\ \A o \in Commands : o # c => cmd'[o] = cmd[o]
          /\ cmd'[c].at = "check" /\ cmd'[c].pid = pid /\ cmd'[c].waited = cmd[c].waited
      BY <1>0, <2>2, <3>1 DEF CommandRecord, Places
    <3> QED
      BY <1>a, <2>1, <3>1, <3>2, Limits, CommandMoves
  <2>3. CASE Proceed(c, "fork")
    <3>1. "fork" \in Places
      BY DEF Places
    <3> QED
      BY <1>0, <2>1, <2>3, <3>1, Proceeds, CommandMoves
  <2>4. CASE cmd' = [cmd EXCEPT ![c].op = "start", ![c].at = "read"]
    <3>1. /\ cmd' \in [Commands -> CommandRecord]
          /\ \A o \in Commands : o # c => cmd'[o] = cmd[o]
          /\ cmd'[c].at = "read" /\ cmd'[c].waited = cmd[c].waited
      BY <1>0, <2>4 DEF CommandRecord, Places, Ops
    <3> QED
      BY <1>a, <2>1, <3>1, CommandMoves
  <2>5. CASE Exit(c)
    BY <1>0, <2>1, <2>5, Exits, CommandMoves
  <2> QED
    BY <2>1, <2>2, <2>3, <2>4, <2>5
<1>5. ASSUME CheckPid(c) PROVE DaemonInv'
  <2> DEFINE p == cmd[c].pid
  <2>1. /\ from = "check" /\ UNCHANGED <<pidFile, serviceVars, unlinked, overlap>>
        /\ mistaken' \in {mistaken, mistaken \cup {p}}
        /\ \/ Exit(c)
           \/ IsRunning(c, p) /\ Proceed(c, "term")
           \/ Proceed(c, "remove") /\ (Alive(p) => p \in mistaken')
    BY <1>5 DEF CheckPid
  <2>2. "term" \in Places /\ "remove" \in Places
    BY DEF Places
  <2>3. CASE Exit(c)
    BY <1>0, <2>1, <2>3, Exits, CommandMoves
  <2>4. CASE IsRunning(c, p) /\ Proceed(c, "term")
    <3>1. cmd[c].user \in {Root, owner[p]}
      BY <2>4 DEF IsRunning, MaySignal
    <3> QED
      BY <1>0, <1>a, <1>b, <2>1, <2>2, <2>4, <3>1, Proceeds, CommandMoves
  <2>5. CASE Proceed(c, "remove") /\ (Alive(p) => p \in mistaken')
    <3>1. svc[p] = "dead" \/ p \in mistaken'
      BY <1>b, <2>1, <2>5 DEF Alive, Past, Present
    <3> QED
      BY <1>0, <1>b, <2>1, <2>2, <2>5, <3>1, Proceeds, CommandMoves
  <2> QED
    BY <2>1, <2>3, <2>4, <2>5
<1>6. ASSUME ReportStatus(c) PROVE DaemonInv'
  BY <1>0, <1>6, Exits, CommandMoves DEF ReportStatus
<1>7. ASSUME SeesExit(c) \/ AfterKill(c) PROVE DaemonInv'
  <2>1. /\ from \in {"wait", "killed"}
        /\ UNCHANGED <<pidFile, serviceVars, mistaken, unlinked, overlap>>
        /\ Exit(c) \/ (~IsRunning(c, cmd[c].pid) /\ Proceed(c, "remove"))
    BY <1>7 DEF SeesExit, AfterKill
  <2>2. "remove" \in Places
    BY DEF Places
  <2>3. CASE Exit(c)
    BY <1>0, <2>1, <2>3, Exits, CommandMoves
  <2>4. CASE ~IsRunning(c, cmd[c].pid) /\ Proceed(c, "remove")
    <3>1. MaySignal(c, cmd[c].pid)
      BY <2>1 DEF DaemonInv, PidsKnown
    <3>2. svc[cmd[c].pid] = "dead"
      BY <1>b, <2>1, <2>4, <3>1 DEF IsRunning, Alive, Past, Present
    <3> QED
      BY <1>0, <1>b, <2>1, <2>2, <2>4, <3>2, Proceeds, CommandMoves
  <2> QED
    BY <2>1, <2>3, <2>4
<1> QED
  BY <1>1, <1>2, <1>3, <1>4, <1>5, <1>6, <1>7

\* remove_pid_file: the services it deprives of their file are those that
\* FileNamed lets have it; commands one after the other deprive only a service that
\* they took for gone.
LEMMA RemoveKeeps ==
    ASSUME DaemonAssumption, DaemonInv, NEW c \in Commands, RemovePidFile(c)
    PROVE  DaemonInv'
<1> USE DEF DaemonInv
<1>1. /\ cmd[c].at = "remove" /\ pidFile' = Absent
      /\ UNCHANGED <<text, svc, owner, fd, age, hung, killed, mistaken, overlap>>
      /\ unlinked' = unlinked \cup
             {s \in Services : Alive(s) /\ fd[s] # Absent /\ fd[s] = pidFile}
  BY DEF RemovePidFile, serviceVars
<1>2. /\ cmd' \in [Commands -> CommandRecord]
      /\ \A o \in Commands : o # c => cmd'[o] = cmd[o]
      /\ cmd'[c].at \in {"fork", "read", "idle"}
      /\ cmd'[c].at = "read" => cmd'[c].waited = 0
  <2>1. cmd \in [Commands -> CommandRecord]
    BY DEF DaemonTypes
  <2> DEFINE restarts == [op |-> "start", at |-> "read", user |-> cmd[c].user,
                          pid |-> Absent, waited |-> 0]
  <2>2. Proceed(c, "fork") \/ Exit(c) \/ cmd' = [cmd EXCEPT ![c] = restarts]
    BY DEF RemovePidFile, Idle
  <2>3. CASE Proceed(c, "fork")
    BY <2>1, <2>3, Proceeds DEF Places
  <2>4. CASE Exit(c)
    BY <2>1, <2>4, Exits
  <2>5. CASE cmd' = [cmd EXCEPT ![c] = restarts]
    BY <2>1, <2>5 DEF CommandRecord, Places, Ops
  <2> QED
    BY <2>2, <2>3, <2>4, <2>5
<1>3. DaemonTypes'
  BY <1>1, <1>2 DEF DaemonTypes
<1>4. PidsKnown'
  BY <1>1, <1>2 DEF PidsKnown, MaySignal
<1>5. TimeKept'
  BY <1>1, <1>2 DEF TimeKept, KilledOnlyWhenHung
<1>6. OneOwner'
  BY <1>1 DEF OneOwner
<1>7. FileNamed'
  BY <1>1 DEF FileNamed, Alive
<1>8. ~overlap => unlinked' \subseteq mistaken'
  <2>1. SUFFICES ASSUME ~overlap, NEW s \in Services, Alive(s), fd[s] # Absent, fd[s] = pidFile
                 PROVE  s \in mistaken
    BY <1>1 DEF OneAtATime
  <2>2. svc[s] \in Present
    BY <1>1, <2>1 DEF OneAtATime, Alive, Coming, Present, DaemonTypes, Lives
  <2>3. text[pidFile] = s /\ text[pidFile] = cmd[c].pid
    BY <1>1, <2>1, <2>2 DEF OneOwner, OneAtATime
  <2> QED
    BY <1>1, <2>2, <2>3 DEF PidsKnown, Present
<1>9. OneAtATime'
  BY <1>1, <1>2, <1>8 DEF OneAtATime
<1> QED
  BY <1>3, <1>4, <1>5, <1>6, <1>7, <1>9

\* execute and run_foreground: the command becomes, or leaves, a service.
LEMMA ForkKeeps ==
    ASSUME DaemonAssumption, DaemonInv, NEW c \in Commands, Fork(c) \/ RunForeground(c)
    PROVE  DaemonInv'
<1> USE DEF DaemonInv
<1>1. PICK s \in Services, life \in {"forked", "running"} :
         /\ cmd[c].at = "fork" /\ svc[s] = "none" /\ svc' = [svc EXCEPT ![s] = life] /\ Exit(c)
         /\ owner' = [owner EXCEPT ![s] = cmd[c].user]
         /\ UNCHANGED <<pidFile, text, fd, age, hung, mistaken, unlinked, overlap, killed>>
  BY DEF Fork, RunForeground, NewService
<1>2. /\ cmd' \in [Commands -> CommandRecord]
      /\ \A o \in Commands : o # c => cmd'[o] = cmd[o]
      /\ cmd'[c].at = "idle"
  BY <1>1, Exits DEF DaemonTypes
<1>3. /\ svc' \in [Services -> Lives] /\ svc'[s] = life
      /\ \A o \in Services : o # s => svc'[o] = svc[o]
  BY <1>1 DEF DaemonTypes, Lives
<1>4. fd[s] = Absent
  BY <1>1 DEF OneOwner
<1>a. owner' \in [Services -> Users \cup {Absent}]
      /\ \A o \in Services : o # s => owner'[o] = owner[o]
  BY <1>1 DEF DaemonTypes, CommandRecord
<1>5. DaemonTypes'
  BY <1>1, <1>2, <1>3, <1>a DEF DaemonTypes
<1>6. PidsKnown'
  BY <1>1, <1>2, <1>3, <1>a DEF PidsKnown, MaySignal, Past, Present, DaemonTypes
<1>7. TimeKept'
  BY <1>1, <1>2, <1>3 DEF TimeKept, KilledOnlyWhenHung
<1>8. OneOwner' /\ FileNamed'
  BY <1>1, <1>3, <1>4 DEF OneOwner, FileNamed, Alive, Locked, Present
<1>9. OneAtATime'
  BY <1>1, <1>2 DEF OneAtATime
<1> QED
  BY <1>5, <1>6, <1>7, <1>8, <1>9

\* A service that ends, or is told to, while the files stay as they are.
LEMMA ServiceLeaves ==
    ASSUME DaemonInv, NEW s \in Services, svc[s] \notin {"none", "forked"},
           NEW life \in {"stopping", "dead"}, svc[s] = "running" \/ life = "dead",
           svc' = [svc EXCEPT ![s] = life], UNCHANGED <<pidFile, text, fd, unlinked>>
    PROVE  /\ OneOwner' /\ FileNamed'
           /\ \A o \in Services : svc[o] \in Past => svc'[o] \in Past
           /\ \A o \in Services : svc[o] \notin Coming => svc'[o] \notin Coming
           /\ \A o \in Services : svc[o] = "dead" => svc'[o] = "dead"
           /\ svc' \in [Services -> Lives] /\ svc'[s] = life
<1> USE DEF DaemonInv
<1>1. /\ svc' \in [Services -> Lives] /\ svc'[s] = life
      /\ \A o \in Services : o # s => svc'[o] = svc[o]
  BY DEF DaemonTypes, Lives
<1>2. OneOwner'
  BY <1>1 DEF OneOwner, Locked, Present
<1>3. FileNamed'
  BY <1>1 DEF FileNamed, Alive
<1> QED
  BY <1>1, <1>2, <1>3 DEF Past, Present, Coming

\* kill -TERM: a service that is not hung starts to count when the command does.
LEMMA TerminateKeeps ==
    ASSUME DaemonAssumption, DaemonInv, NEW c \in Commands, Terminate(c)
    PROVE  DaemonInv'
<1> USE DEF DaemonInv
<1> DEFINE s == cmd[c].pid
<1>0. /\ cmd[c].at = "term" /\ UNCHANGED <<pidFile, text, owner, fd, age, mistaken, unlinked,
                                         overlap, killed>>
      /\ cmd[c].waited = 0 /\ s \in Services /\ svc[s] \in Past
      /\ cmd[c].user \in {Root, owner[s]}
      /\ cmd \in [Commands -> CommandRecord]
  BY DEF Terminate, TimeKept, PidsKnown, MaySignal, DaemonTypes
<1>1. CASE Exit(c) /\ UNCHANGED <<svc, hung>>
  BY <1>0, <1>1, Exits, CommandMoves DEF serviceVars
<1>2. ASSUME Proceed(c, "wait"),
             \/ svc[s] = "written" /\ svc' = [svc EXCEPT ![s] = "dead"] /\ UNCHANGED hung
             \/ /\ svc[s] = "running" /\ svc' = [svc EXCEPT ![s] = "stopping"]
                /\ hung' \in {hung, hung \cup {s}}
             \/ svc[s] = "stopping" /\ UNCHANGED <<svc, hung>>
      PROVE  DaemonInv'
  <2>1. /\ cmd' \in [Commands -> CommandRecord]
        /\ \A o \in Commands : o # c => cmd'[o] = cmd[o]
        /\ cmd'[c].at = "wait" /\ cmd'[c].pid = s /\ cmd'[c].waited = 0
        /\ cmd'[c].user = cmd[c].user
    BY <1>0, <1>2, Proceeds DEF Places
  <2>2. /\ svc'[s] \in {"stopping", "dead"} /\ hung \subseteq hung'
        /\ \A o \in Services : o # s => svc'[o] = svc[o]
        /\ svc[s] = "stopping" => svc'[s] = "stopping"
        /\ svc[s] # "dead"
    BY <1>0, <1>2 DEF DaemonTypes
  <2>3. /\ OneOwner' /\ FileNamed' /\ svc' \in [Services -> Lives]
        /\ \A o \in Services : svc[o] \in Past => svc'[o] \in Past
        /\ \A o \in Services : svc[o] \notin Coming => svc'[o] \notin Coming
        /\ \A o \in Services : svc[o] = "dead" => svc'[o] = "dead"
    <3>1. CASE svc' = svc
      BY <1>0, <3>1 DEF OneOwner, FileNamed, Alive, DaemonTypes
    <3>2. CASE svc[s] = "written" /\ svc' = [svc EXCEPT ![s] = "dead"]
      BY <1>0, <3>2, ServiceLeaves
    <3>3. CASE svc[s] = "running" /\ svc' = [svc EXCEPT ![s] = "stopping"]
      BY <1>0, <3>3, ServiceLeaves
    <3> QED
      BY <1>2, <3>1, <3>2, <3>3
  <2>4. DaemonTypes'
    BY <1>0, <2>1, <2>3 DEF DaemonTypes
  <2>5. PidsKnown'
    BY <1>0, <2>1, <2>3 DEF PidsKnown, MaySignal, DaemonTypes
  <2>6. TimeKept'
    <3>1. \A o \in Commands : o # c /\ cmd[o].at = "wait" =>
             \/ svc'[cmd[o].pid] = "dead"
             \/ /\ svc'[cmd[o].pid] = "stopping"
                /\ cmd[o].pid \notin hung' => cmd[o].waited <= age[cmd[o].pid]
      BY <1>0, <2>2 DEF TimeKept, PidsKnown
    <3>2. 0 <= age[s]
      BY <1>0 DEF DaemonTypes
    <3>3. KilledOnlyWhenHung'
      BY <1>0, <2>2 DEF TimeKept, KilledOnlyWhenHung
    <3> QED
      BY <1>0, <2>1, <2>2, <3>1, <3>2, <3>3 DEF TimeKept
  <2>7. OneAtATime'
    BY <1>0, <2>1, <2>3 DEF OneAtATime
  <2> QED
    BY <2>3, <2>4, <2>5, <2>6, <2>7
<1> QED
  BY <1>1, <1>2 DEF Terminate

\* SIGKILL comes after StopTimeout, when a service that is not hung is gone.
LEMMA KillKeeps ==
    ASSUME DaemonAssumption, DaemonInv, NEW c \in Commands, Kill(c)
    PROVE  DaemonInv'
<1> USE DEF DaemonInv
<1> DEFINE s == cmd[c].pid
<1>0. /\ cmd[c].at = "wait" /\ cmd[c].waited >= StopTimeout
      /\ UNCHANGED <<pidFile, text, svc, owner, fd, age, hung, mistaken, unlinked, overlap>>
      /\ Proceed(c, "killed")
      /\ killed' = IF Alive(s) THEN killed \cup {s} ELSE killed
      /\ s \in Services /\ svc[s] \in Past
      /\ cmd \in [Commands -> CommandRecord] /\ cmd[c].waited \in Nat /\ age[s] \in Nat
  BY DEF Kill, WaitedEnough, PidsKnown, DaemonTypes, CommandRecord
<1>1. /\ cmd' \in [Commands -> CommandRecord]
      /\ \A o \in Commands : o # c => cmd'[o] = cmd[o]
      /\ cmd'[c].at = "killed" /\ cmd'[c].pid = s /\ cmd'[c].user = cmd[c].user
  BY <1>0, Proceeds DEF Places
<1>2. Alive(s) => s \in hung
  <2>1. age[s] < StopTimeout
    BY <1>0, Limits DEF TimeKept
  <2> QED
    BY <1>0, <2>1, Limits DEF TimeKept, Alive
<1>3. DaemonTypes'
  BY <1>0, <1>1 DEF DaemonTypes
<1>4. PidsKnown'
  BY <1>0, <1>1 DEF PidsKnown, MaySignal
<1>5. TimeKept'
  <2>1. KilledOnlyWhenHung'
    BY <1>0, <1>2 DEF TimeKept, KilledOnlyWhenHung
  <2> QED
    BY <1>0, <1>1, <2>1 DEF TimeKept
<1>6. OneOwner' /\ FileNamed'
  BY <1>0 DEF OneOwner, FileNamed, Alive
<1>7. OneAtATime'
  BY <1>0, <1>1 DEF OneAtATime
<1> QED
  BY <1>3, <1>4, <1>5, <1>6, <1>7

\* The pid file is opened: there is one already, or no service has one.
LEMMA OpenKeeps ==
    ASSUME DaemonAssumption, DaemonInv, NEW s \in Services, OpenPidFile(s)
    PROVE  DaemonInv'
<1> USE DEF DaemonInv, commandVars
<1>1. /\ svc[s] = "forked" /\ UNCHANGED <<cmd, mistaken, unlinked, overlap, owner, hung, age,
                                          killed, text>>
      /\ pidFile' = IF pidFile = Absent THEN s ELSE pidFile
      /\ fd' = [fd EXCEPT ![s] = pidFile'] /\ svc' = [svc EXCEPT ![s] = "opened"]
  BY DEF OpenPidFile
<1>2. /\ pidFile' \in Services /\ fd' \in [Services -> Services \cup {Absent}]
      /\ fd'[s] = pidFile' /\ \A o \in Services : o # s => fd'[o] = fd[o]
      /\ svc' \in [Services -> Lives] /\ svc'[s] = "opened"
      /\ \A o \in Services : o # s => svc'[o] = svc[o]
  BY <1>1 DEF DaemonTypes, Lives
<1>3. DaemonTypes'
  BY <1>1, <1>2 DEF DaemonTypes
<1>4. PidsKnown'
  BY <1>1, <1>2 DEF PidsKnown, MaySignal, Past, Present, DaemonTypes
<1>5. TimeKept'
  BY <1>1, <1>2 DEF TimeKept, PidsKnown, KilledOnlyWhenHung
<1>6. OneOwner'
  BY <1>1, <1>2, Limits DEF OneOwner, Locked, Present
<1>7. FileNamed'
  BY <1>1, <1>2 DEF FileNamed, Alive
<1>8. OneAtATime'
  BY <1>1, <1>2 DEF OneAtATime, Coming
<1> QED
  BY <1>3, <1>4, <1>5, <1>6, <1>7, <1>8

\* A service that goes on without touching a file: its lock, its run, its end.
LEMMA ServiceMoves ==
    ASSUME DaemonInv, NEW s \in Services, NEW life \in Lives,
           svc' = [svc EXCEPT ![s] = life],
           UNCHANGED <<cmd, mistaken, unlinked, overlap, owner, hung, age, killed, pidFile,
                       text, fd>>,
           svc[s] \notin {"none", "forked"}, life \notin {"none", "forked", "opened"},
           life = "init" => svc[s] = "opened",
           life \in Present => svc[s] \in Present,
           life \in Locked /\ svc[s] \notin Locked =>
               \A o \in Services : svc[o] \in Locked => fd[o] # fd[s],
           svc[s] = "stopping" => life = "dead",
           svc[s] = "dead" => life = "dead",
           \A c \in Commands : cmd[c].at = "wait" /\ cmd[c].pid = s => life \in {svc[s], "dead"}
    PROVE  DaemonInv'
<1> USE DEF DaemonInv
<1>1. /\ svc' \in [Services -> Lives] /\ svc'[s] = life
      /\ \A o \in Services : o # s => svc'[o] = svc[o]
  BY DEF DaemonTypes
<1>2. DaemonTypes'
  BY <1>1 DEF DaemonTypes
<1>3. svc[s] \in Past => life \in Past
  BY DEF Past, Present, Lives
<1>4. PidsKnown'
  BY <1>1, <1>3 DEF PidsKnown, MaySignal, DaemonTypes
<1>5. TimeKept'
  <2>1. \A c \in Commands : cmd[c].at = "wait" =>
           svc'[cmd[c].pid] = svc[cmd[c].pid] \/ svc'[cmd[c].pid] = "dead"
    BY <1>1 DEF PidsKnown
  <2> QED
    BY <2>1 DEF TimeKept, KilledOnlyWhenHung
<1>6. OneOwner'
  BY <1>1 DEF OneOwner, Locked, Present, Lives
<1>7. svc[s] # "dead" => Alive(s)
  BY DEF Alive
<1>8. FileNamed'
  BY <1>1, <1>7 DEF FileNamed, Alive
<1>9. OneAtATime'
  BY <1>1 DEF OneAtATime, Coming
<1> QED
  BY <1>2, <1>4, <1>5, <1>6, <1>8, <1>9

\* The lock, run_app and the end of a service.
LEMMA ServiceKeeps ==
    ASSUME DaemonAssumption, DaemonInv, NEW s \in Services,
           LockPidFile(s) \/ RunApp(s) \/ EndService(s)
    PROVE  DaemonInv'
<1> USE DEF commandVars
<1>0. /\ svc[s] \in Lives
      /\ \A c \in Commands : cmd[c].at = "wait" /\ cmd[c].pid = s => svc[s] \in {"stopping", "dead"}
  BY DEF DaemonInv, DaemonTypes, TimeKept
<1>1. ASSUME LockPidFile(s) PROVE DaemonInv'
  <2>1. PICK life \in {"init", "dead"} :
           /\ svc[s] = "opened" /\ svc' = [svc EXCEPT ![s] = life]
           /\ UNCHANGED <<cmd, mistaken, unlinked, overlap, owner, hung, age, killed, pidFile,
                       text, fd>>
           /\ life = "init" => \A o \in Services : svc[o] \in Locked => fd[o] # fd[s]
    BY <1>1 DEF LockPidFile, Locked, Present
  <2>2. life \in Lives
    BY DEF Lives
  <2> QED
    BY <1>0, <2>1, <2>2, ServiceMoves DEF Locked, Present
<1>2. ASSUME RunApp(s) PROVE DaemonInv'
  <2>1. "running" \in Lives
    BY DEF Lives
  <2> QED
    BY <1>0, <1>2, <2>1, ServiceMoves DEF RunApp, Locked, Present
<1>3. ASSUME EndService(s) PROVE DaemonInv'
  <2>1. "dead" \in Lives
    BY DEF Lives
  <2> QED
    BY <1>0, <1>3, <2>1, ServiceMoves DEF EndService, Locked, Present
<1> QED
  BY <1>1, <1>2, <1>3

\* The pid is written over what the file held before; nobody else has it locked.
LEMMA WriteKeeps ==
    ASSUME DaemonAssumption, DaemonInv, NEW s \in Services, WritePid(s)
    PROVE  DaemonInv'
<1> USE DEF DaemonInv, commandVars
<1>1. /\ svc[s] = "init" /\ UNCHANGED <<cmd, mistaken, unlinked, overlap, owner, hung, age,
                                        killed, pidFile, fd>>
      /\ text' = [text EXCEPT ![fd[s]] = s] /\ svc' = [svc EXCEPT ![s] = "written"]
  BY DEF WritePid
<1>2. fd[s] \in Services
  BY <1>1 DEF DaemonTypes, OneOwner
<1>3. /\ text' \in [Services -> Services \cup {Absent}] /\ text'[fd[s]] = s
      /\ \A f \in Services : f # fd[s] => text'[f] = text[f]
      /\ svc' \in [Services -> Lives] /\ svc'[s] = "written"
      /\ \A o \in Services : o # s => svc'[o] = svc[o]
  BY <1>1, <1>2 DEF DaemonTypes, Lives
<1>4. DaemonTypes'
  BY <1>1, <1>3 DEF DaemonTypes
<1>5. PidsKnown'
  BY <1>1, <1>3 DEF PidsKnown, MaySignal, Past, Present, DaemonTypes
<1>6. TimeKept'
  BY <1>1, <1>3 DEF TimeKept, PidsKnown, KilledOnlyWhenHung
<1>7. OneOwner'
  <2>1. \A o \in Services : o # s /\ svc[o] \in Present /\ fd[o] # Absent => fd[o] # fd[s]
    BY <1>1, <1>2 DEF OneOwner, Locked
  <2>2. \A o \in Services : svc'[o] \in Present /\ fd'[o] # Absent => text'[fd'[o]] = o
    BY <1>1, <1>3, <2>1 DEF OneOwner, DaemonTypes
  <2> QED
    BY <1>1, <1>3, <2>2 DEF OneOwner, Locked, Present
<1>8. FileNamed'
  BY <1>1, <1>3 DEF FileNamed, Alive
<1>9. OneAtATime'
  BY <1>1, <1>3 DEF OneAtATime, Coming
<1> QED
  BY <1>4, <1>5, <1>6, <1>7, <1>8, <1>9

\* Time passes for the services that stop and for the commands that wait alike.
LEMMA TickKeeps == ASSUME DaemonAssumption, DaemonInv, Tick PROVE DaemonInv'
<1> USE DEF DaemonInv
<1>1. /\ UNCHANGED <<pidFile, text, svc, owner, fd, hung, mistaken, unlinked, overlap, killed>>
      /\ \A s \in Services : svc[s] = "stopping" /\ s \notin hung => age[s] < AppTimeout
      /\ age' = [s \in Services |-> IF svc[s] = "stopping" /\ age[s] < AppTimeout
                                    THEN age[s] + 1 ELSE age[s]]
  BY DEF Tick
<1>2. /\ age' \in [Services -> Nat]
      /\ \A s \in Services : age'[s] <= AppTimeout /\ age[s] <= age'[s]
      /\ \A s \in Services : svc[s] = "stopping" /\ s \notin hung => age'[s] = age[s] + 1
  BY <1>1, Limits DEF DaemonTypes, TimeKept
<1>3. cmd \in [Commands -> CommandRecord] /\ \A c \in Commands : cmd[c].waited \in Nat
  BY DEF DaemonTypes, CommandRecord
<1>4. /\ cmd' \in [Commands -> CommandRecord]
      /\ \A c \in Commands :
            /\ cmd'[c].at = cmd[c].at /\ cmd'[c].pid = cmd[c].pid /\ cmd'[c].user = cmd[c].user
            /\ cmd'[c].waited \in {cmd[c].waited, cmd[c].waited + 1}
            /\ cmd[c].at # "wait" => cmd'[c].waited = cmd[c].waited
  BY <1>3 DEF Tick, CommandRecord
<1>5. DaemonTypes'
  BY <1>1, <1>2, <1>4 DEF DaemonTypes
<1>6. PidsKnown'
  BY <1>1, <1>4 DEF PidsKnown, MaySignal
<1>7. TimeKept'
  <2>1. ASSUME NEW c \in Commands, cmd[c].at = "wait", svc[cmd[c].pid] # "dead"
        PROVE  /\ svc[cmd[c].pid] = "stopping"
               /\ cmd[c].pid \notin hung => cmd'[c].waited <= age'[cmd[c].pid]
    <3>1. /\ svc[cmd[c].pid] = "stopping" /\ cmd[c].pid \in Services
          /\ cmd[c].pid \notin hung => cmd[c].waited <= age[cmd[c].pid]
          /\ age[cmd[c].pid] \in Nat
      BY <2>1 DEF TimeKept, PidsKnown, DaemonTypes
    <3> QED
      BY <1>2, <1>3, <1>4, <3>1
  <2> QED
    BY <1>1, <1>2, <1>4, <2>1 DEF TimeKept, KilledOnlyWhenHung, PidsKnown
<1>8. OneOwner' /\ FileNamed'
  BY <1>1 DEF OneOwner, FileNamed, Alive
<1>9. OneAtATime'
  BY <1>1, <1>4 DEF OneAtATime
<1> QED
  BY <1>5, <1>6, <1>7, <1>8, <1>9

\* Every step of a command, of a service and of time keeps DaemonInv.
LEMMA DaemonStep == ASSUME DaemonAssumption, DaemonInv, [DaemonNext]_daemonVars PROVE DaemonInv'
<1>1. ASSUME NEW c \in Commands, CommandStep(c) PROVE DaemonInv'
  BY <1>1, ReadersKeep, RemoveKeeps, ForkKeeps, TerminateKeeps, KillKeeps DEF CommandStep
<1>2. ASSUME NEW s \in Services,
             OpenPidFile(s) \/ LockPidFile(s) \/ WritePid(s) \/ RunApp(s) \/ EndService(s)
      PROVE  DaemonInv'
  BY <1>2, OpenKeeps, ServiceKeeps, WriteKeeps
<1>3. ASSUME UNCHANGED daemonVars PROVE DaemonInv'
  BY <1>3 DEF daemonVars, DaemonInv, DaemonTypes, PidsKnown, TimeKept, KilledOnlyWhenHung,
     OneOwner, FileNamed, Alive, MaySignal, OneAtATime
<1> QED
  BY <1>1, <1>2, <1>3, GiveKeeps, TickKeeps DEF DaemonNext

\* DaemonInv holds in every reachable state.
LEMMA DaemonInvariant == ASSUME DaemonAssumption PROVE DaemonSpec => []DaemonInv
<1>1. DaemonInit => DaemonInv
  BY DaemonStarts
<1>2. DaemonInv /\ [DaemonNext]_daemonVars => DaemonInv'
  BY DaemonStep
<1> QED
  BY <1>1, <1>2, PTL DEF DaemonSpec

\* A set without two different elements has at most one.
LEMMA AtMostOne ==
    ASSUME NEW S, \A x, y \in S : x = y
    PROVE  Cardinality(S) <= 1
<1>1. CASE S = {}
  BY <1>1, FS_EmptySet
<1>2. CASE S # {}
  <2>1. PICK x : S = {x}
    BY <1>2
  <2> QED
    BY <2>1, FS_Singleton
<1> QED
  BY <1>1, <1>2

\* However many users, commands and services there are: of the daemons that have
\* not lost their pid file one at most is alive, and commands given one after the
\* other take it only from a service that their user may not signal.  Services in
\* the foreground are not counted.
THEOREM OneDaemonLives == ASSUME DaemonAssumption PROVE DaemonSpec => []OneDaemon
<1>1. DaemonInv => OneDaemon
  <2>1. SUFFICES ASSUME DaemonInv PROVE OneDaemon
    OBVIOUS
  <2>2. \A x, y \in Daemons \ unlinked : x = y
    BY <2>1 DEF Daemons, DaemonInv, FileNamed, OneOwner, Alive, Locked, Present
  <2> QED
    BY <2>1, <2>2, AtMostOne DEF OneDaemon, DaemonInv, OneAtATime
<1> QED
  BY <1>1, DaemonInvariant, PTL

\* A service that shuts down within the application's limit is not killed,
\* whatever the two limits are as long as stop's is the longer.
THEOREM KillsOnlyTheHung == ASSUME DaemonAssumption PROVE DaemonSpec => []KilledOnlyWhenHung
<1>1. DaemonInv => KilledOnlyWhenHung
  BY DEF DaemonInv, TimeKept
<1> QED
  BY <1>1, DaemonInvariant, PTL

HIDE DEF Guarded, Signalling, Fresh

----------------------------------------------------------------------------
(* PacketReader: DispatchedAsSent for any connections, streams, lengths of *)
(* frames, sizes of a read and limit of the buffer.                        *)

ReaderBytes == (DOMAIN frameLen) \X Nat

ReaderTypes ==
    /\ Streams
    /\ conn \in [Conns -> {"none", "reading"} \cup Ends]
    /\ DOMAIN taken = Conns /\ DOMAIN buffer = Conns
    /\ DOMAIN dispatched = Conns /\ DOMAIN announced = Conns

\* What handle_tcp keeps true of one connection.
ConnHolds(c) ==
    /\ ReadSoFar(ReaderBytes, frameLen, arrived[c], taken[c], dispatched[c], buffer[c])
    /\ announced[c] = IF conn[c] \in Ends \ {"refused"} THEN <<Len(dispatched[c])>> ELSE <<>>
    /\ conn[c] \in {"none", "reading", "eof"} => Frames(buffer[c]) = <<>>
    /\ conn[c] = "overflow" =>
          \E i \in 1..Len(arrived[c]) : FrameLen(arrived[c][i]) > MaxBuf - ReadMax + 1

ReaderInv == ReaderTypes /\ \A c \in Conns : ConnHolds(c)

\* The splitter, and what it leaves, are the ones of SequenceLemmas.
LEMMA FramesAre ==
    ASSUME NEW buf
    PROVE  /\ Frames(buf) = WholeFrames(buf, frameLen)
           /\ \A F : Rest(buf, F) = After(buf, F)
BY DEF Frames, FrameLen, WholeFrames, SplitStep, Rest, Total, After

\* A frame is not empty.
LEMMA BytesSized ==
    ASSUME Streams
    PROVE  Sized(ReaderBytes, frameLen)
<1> SUFFICES ASSUME NEW t \in ReaderBytes PROVE frameLen[t[1]] \in Nat \ {0}
  BY DEF Sized
<1>1. t[1] \in DOMAIN frameLen
  BY DEF ReaderBytes
<1> QED
  BY <1>1 DEF Streams

\* A stream consists of bytes of frames.
LEMMA StreamTyped ==
    ASSUME Streams, NEW c \in Conns
    PROVE  arrived[c] \in Seq(ReaderBytes)
BY DEF Streams, ReaderBytes

\* A reader starts with nothing read on any connection.
LEMMA ReaderStarts ==
    ReaderInit /\ Streams => ReaderInv
<1> SUFFICES ASSUME ReaderInit, Streams PROVE ReaderInv
  OBVIOUS
<1>1. ReaderTypes
  BY DEF ReaderInit, ReaderTypes
<1>2. ASSUME NEW c \in Conns PROVE ConnHolds(c)
  <2>1. /\ conn[c] = "none" /\ taken[c] = 0 /\ buffer[c] = <<>> /\ dispatched[c] = <<>>
        /\ announced[c] = <<>>
    BY DEF ReaderInit
  <2>2. arrived[c] \in Seq(ReaderBytes) /\ Len(arrived[c]) \in Nat
    BY StreamTyped, LenProperties
  <2>3. <<>> \in Seq(ReaderBytes) /\ <<>> \in Seq(Seq(ReaderBytes)) /\ Len(<<>>) = 0
    BY EmptySeq
  <2>4. FullFrames(<<>>, frameLen)
    BY <2>3 DEF FullFrames
  <2>5. FlattenSeq(<<>>) \o <<>> = <<>>
    BY <2>3, FlattenNone, ConcatEmptySeq
  <2>6. SubSeq(arrived[c], 1, 0) = <<>>
    BY SubSeqEmpty
  <2>a. 0 \in Nat /\ 0 <= Len(arrived[c])
    BY <2>2
  <2>b. ReadSoFar(ReaderBytes, frameLen, arrived[c], 0, <<>>, <<>>)
    BY <2>a, <2>3, <2>4, <2>5, <2>6, Zenon DEF ReadSoFar
  <2>7. ReadSoFar(ReaderBytes, frameLen, arrived[c], taken[c], dispatched[c], buffer[c])
    BY <2>1, <2>b
  <2>8. Frames(<<>>) = <<>>
    BY <2>3, BytesSized, FramesAre, NoFrames
  <2> QED
    BY <2>1, <2>7, <2>8 DEF ConnHolds, Ends
<1> QED
  BY <1>1, <1>2 DEF ReaderInv

\* A connection whose variables, and whose stream, a step leaves alone.
SameConn(c) ==
    /\ conn'[c] = conn[c] /\ taken'[c] = taken[c] /\ buffer'[c] = buffer[c]
    /\ dispatched'[c] = dispatched[c] /\ announced'[c] = announced[c]

SameStreams == arrived' = arrived /\ fin' = fin /\ frameLen' = frameLen

\* A connection that a step leaves alone keeps what holds of it.
LEMMA SameKeeps ==
    ASSUME SameStreams, NEW c, ConnHolds(c), SameConn(c)
    PROVE  ConnHolds(c)'
<1>1. Frames(buffer[c])' = Frames(buffer[c])
  <2>1. Frames(buffer[c]) = WholeFrames(buffer[c], frameLen)
    BY FramesAre
  <2>2. Frames(buffer[c])' = WholeFrames(buffer'[c], frameLen')
    BY DEF Frames, FrameLen, WholeFrames, SplitStep
  <2> QED
    BY <2>1, <2>2 DEF SameStreams, SameConn
<1>2. ReaderBytes' = ReaderBytes
  BY DEF ReaderBytes, SameStreams
<1>3. \A i : FrameLen(arrived[c][i])' = FrameLen(arrived[c][i])
  BY DEF FrameLen, SameStreams
<1> QED
  BY <1>1, <1>2, <1>3 DEF ConnHolds, SameStreams, SameConn

\* A step of one connection.
ConnStep(c) ==
    /\ SameStreams /\ \A d \in Conns \ {c} : SameConn(d)
    /\ ReaderTypes'

\* A step of one connection concerns no other.
LEMMA OthersKeep ==
    ASSUME ReaderInv, NEW c \in Conns, ConnStep(c), ConnHolds(c)'
    PROVE  ReaderInv'
<1>1. ASSUME NEW d \in Conns PROVE ConnHolds(d)'
  <2>1. CASE d = c
    BY <2>1
  <2>2. CASE d # c
    BY <2>2, SameKeeps DEF ReaderInv, ConnStep
  <2> QED
    BY <2>1, <2>2
<1> QED
  BY <1>1 DEF ReaderInv, ConnStep

\* Accepting a connection: its buffer is still empty.
LEMMA AcceptKeeps ==
    ASSUME ReaderInv, NEW c \in Conns, Accept(c)
    PROVE  ReaderInv'
<1>1. /\ conn[c] = "none" /\ conn' = [conn EXCEPT ![c] = "reading"]
      /\ UNCHANGED <<arrived, fin, frameLen, taken, buffer, dispatched, announced>>
  BY DEF Accept, listenFrame
<1>2. ConnStep(c)
  BY <1>1 DEF ConnStep, SameStreams, SameConn, ReaderInv, ReaderTypes, Streams
<1>3. conn'[c] = "reading"
  BY <1>1 DEF ReaderInv, ReaderTypes
<1>4. Frames(buffer[c])' = Frames(buffer[c])
  BY <1>1 DEF Frames, FrameLen
<1>5. ConnHolds(c)'
  BY <1>1, <1>3, <1>4 DEF ConnHolds, ReaderInv, Ends, ReaderBytes, FrameLen
<1> QED
  BY <1>2, <1>5, OthersKeep

\* Leaving the loop announces the end after what was dispatched.
LEMMA EndKeeps ==
    ASSUME ReaderInv, NEW c \in Conns, NEW how \in {"eof", "error", "cancelled"},
           conn[c] = "reading", EndLoop(c, how),
           UNCHANGED <<connFrame, taken, buffer, dispatched>>
    PROVE  ReaderInv'
<1>1. /\ conn' = [conn EXCEPT ![c] = how]
      /\ announced' = [announced EXCEPT ![c] = Append(@, Len(dispatched[c]))]
      /\ UNCHANGED <<arrived, fin, frameLen, taken, buffer, dispatched>>
  BY DEF EndLoop, connFrame
<1>2. ConnStep(c)
  BY <1>1 DEF ConnStep, SameStreams, SameConn, ReaderInv, ReaderTypes, Streams, Ends
<1>3. conn'[c] = how /\ announced'[c] = Append(announced[c], Len(dispatched[c]))
  BY <1>1 DEF ReaderInv, ReaderTypes
<1>4. announced[c] = <<>>
  BY DEF ReaderInv, ConnHolds, Ends
<1>5. announced'[c] = <<Len(dispatched'[c])>>
  BY <1>1, <1>3, <1>4
<1>6. Frames(buffer[c])' = Frames(buffer[c])
  BY <1>1 DEF Frames, FrameLen
<1>7. ConnHolds(c)'
  BY <1>1, <1>3, <1>5, <1>6 DEF ConnHolds, ReaderInv, Ends, ReaderBytes, FrameLen
<1> QED
  BY <1>2, <1>7, OthersKeep

\* The listener, the UDP task and the token touch no connection.
LEMMA QuietKeeps ==
    ASSUME ReaderInv, UNCHANGED <<arrived, fin, frameLen, connVars>>
    PROVE  ReaderInv'
<1>1. UNCHANGED <<arrived, fin, frameLen, conn, taken, buffer, dispatched, announced>>
  BY DEF connVars
<1>2. ReaderTypes'
  BY <1>1 DEF ReaderInv, ReaderTypes, Streams
<1>3. ASSUME NEW c \in Conns PROVE ConnHolds(c)'
  BY <1>1, SameKeeps DEF ReaderInv, SameStreams, SameConn
<1> QED
  BY <1>2, <1>3 DEF ReaderInv

\* What a read puts into the buffer.
LEMMA Refilled ==
    ASSUME ReaderInv, NEW c \in Conns, NEW n, Take(c, n)
    PROVE  /\ n \in Nat \ {0} /\ n <= ReadMax /\ conn[c] = "reading"
           /\ taken' = [taken EXCEPT ![c] = taken[c] + n] /\ taken'[c] = taken[c] + n
           /\ ReadSoFar(ReaderBytes, frameLen, arrived[c], taken[c] + n, dispatched[c],
                        Incoming(c, n))
           /\ Incoming(c, n) \in Seq(ReaderBytes)
           /\ Sized(ReaderBytes, frameLen) /\ arrived[c] \in Seq(ReaderBytes)
<1>1. n \in 1..ReadMax /\ taken[c] + n <= Len(arrived[c])
  BY DEF Take
<1>2. n \in Nat /\ n # 0 /\ n <= ReadMax
  BY <1>1
<1>3. taken' = [taken EXCEPT ![c] = taken[c] + n] /\ conn[c] = "reading"
  BY DEF Take
<1>4. taken'[c] = taken[c] + n
  BY <1>3 DEF ReaderInv, ReaderTypes
<1>5. arrived[c] \in Seq(ReaderBytes) /\ Sized(ReaderBytes, frameLen)
  BY StreamTyped, BytesSized DEF ReaderInv, ReaderTypes
<1>6. ReadSoFar(ReaderBytes, frameLen, arrived[c], taken[c], dispatched[c], buffer[c])
  BY DEF ReaderInv, ConnHolds
<1>7. ReadSoFar(ReaderBytes, frameLen, arrived[c], taken[c] + n, dispatched[c], Incoming(c, n))
  BY <1>1, <1>2, <1>5, <1>6, ReadAppends DEF Incoming
<1>8. Incoming(c, n) \in Seq(ReaderBytes)
  BY <1>7 DEF ReadSoFar
<1> QED
  BY <1>2, <1>3, <1>4, <1>5, <1>7, <1>8

\* A frame that does not fit beside a full read explains an overflow.
LEMMA OverflowExplained ==
    ASSUME ReaderAssumption, ReaderInv, NEW c \in Conns, NEW n, Take(c, n),
           Overflows(Incoming(c, n))
    PROVE  \E i \in 1..Len(arrived[c]) : frameLen[arrived[c][i][1]] > MaxBuf - ReadMax + 1
<1>0. /\ MaxBuf \in Nat /\ ReadMax \in Nat
  BY DEF ReaderAssumption
<1>1. n \in Nat \ {0} /\ n <= ReadMax /\ conn[c] = "reading"
      /\ Sized(ReaderBytes, frameLen) /\ arrived[c] \in Seq(ReaderBytes)
  BY Refilled
<1>2. ReadSoFar(ReaderBytes, frameLen, arrived[c], taken[c], dispatched[c], buffer[c])
  BY DEF ReaderInv, ConnHolds
<1>3. /\ taken[c] \in Nat /\ taken[c] + n <= Len(arrived[c]) /\ Len(arrived[c]) \in Nat
      /\ buffer[c] \in Seq(ReaderBytes)
  BY <1>1, <1>2, LenProperties DEF ReadSoFar, Take
<1>4. PICK m \in Nat : m = taken[c] + n
  BY <1>1, <1>3
<1>5. /\ SubSeq(arrived[c], taken[c] + 1, m) \in Seq(ReaderBytes)
      /\ Len(SubSeq(arrived[c], taken[c] + 1, m)) = m - taken[c]
  <2>1. PICK s \in Seq(ReaderBytes), a \in Nat : s = arrived[c] /\ a = taken[c]
    BY <1>1, <1>3
  <2>2. a <= m /\ m <= Len(s)
    BY <1>1, <1>3, <1>4, <2>1
  <2>3. SubSeq(s, a + 1, m) \in Seq(ReaderBytes) /\ Len(SubSeq(s, a + 1, m)) = m - a
    BY <2>2, Slice
  <2> QED
    BY <2>1, <2>3
<1>6. PICK more \in Seq(ReaderBytes) : more = SubSeq(arrived[c], taken[c] + 1, m)
  BY <1>5
<1>7. Len(more) = n
  BY <1>1, <1>3, <1>4, <1>5, <1>6
<1>8. Incoming(c, n) = buffer[c] \o more
  BY <1>4, <1>6 DEF Incoming
<1>9. Len(buffer[c] \o more) = Len(buffer[c]) + Len(more) /\ Len(buffer[c]) \in Nat
  BY <1>3, Join
<1>10. Len(buffer[c]) + n > MaxBuf
  BY <1>7, <1>8, <1>9 DEF Overflows
<1>11. CASE Len(buffer[c]) = 0
  <2>1. taken[c] + 1 \in 1..Len(arrived[c])
    BY <1>1, <1>3
  <2>2. frameLen[arrived[c][taken[c] + 1][1]] \in Nat \ {0}
    BY <1>1, <2>1, ElementOfSeq DEF Sized
  <2>3. frameLen[arrived[c][taken[c] + 1][1]] > MaxBuf - ReadMax + 1
    BY <1>0, <1>1, <1>10, <1>11, <2>2
  <2> QED
    BY <2>1, <2>3
<1>12. CASE Len(buffer[c]) # 0
  <2>1. Len(buffer[c]) > 0 /\ 1 \in 1..Len(buffer[c])
    BY <1>9, <1>12
  <2>2. WholeFrames(buffer[c], frameLen) = <<>>
    BY <1>1, FramesAre DEF ReaderInv, ConnHolds
  <2>3. frameLen[buffer[c][1][1]] > Len(buffer[c])
    BY <1>1, <1>3, <2>1, <2>2, NoFrames
  <2>4. PICK i \in 1..Len(arrived[c]) : buffer[c][1] = arrived[c][i]
    BY <1>1, <1>2, <2>1, BufferOfStream
  <2>5. frameLen[arrived[c][i][1]] \in Nat
    BY <1>1, ElementOfSeq DEF Sized
  <2>6. frameLen[arrived[c][i][1]] > MaxBuf - ReadMax + 1
    BY <1>0, <1>1, <1>9, <1>10, <2>3, <2>4, <2>5
  <2> QED
    BY <2>6
<1> QED
  BY <1>11, <1>12


\* A read that overflows the buffer, or whose frames are all dispatched.
LEMMA ReadKeeps ==
    ASSUME ReaderAssumption, ReaderInv, NEW c \in Conns, NEW n, ReadSome(c, n)
    PROVE  ReaderInv'
<1>1. PICK buf : buf = Incoming(c, n)
  OBVIOUS
<1>2. Take(c, n) /\ UNCHANGED <<arrived, fin, frameLen>>
  BY DEF ReadSome, connFrame
<1>3. /\ conn[c] = "reading" /\ taken' = [taken EXCEPT ![c] = taken[c] + n]
      /\ taken'[c] = taken[c] + n
      /\ ReadSoFar(ReaderBytes, frameLen, arrived[c], taken[c] + n, dispatched[c], buf)
      /\ buf \in Seq(ReaderBytes)
      /\ Sized(ReaderBytes, frameLen) /\ arrived[c] \in Seq(ReaderBytes)
  BY <1>1, <1>2, Refilled
<1>4. announced[c] = <<>>
  BY <1>3 DEF ReaderInv, ConnHolds, Ends
<1>5. ReaderBytes' = ReaderBytes
  BY <1>2 DEF ReaderBytes
<1>6. CASE Overflows(buf)
  <2>1. /\ buffer' = [buffer EXCEPT ![c] = buf] /\ UNCHANGED dispatched
        /\ conn' = [conn EXCEPT ![c] = "overflow"]
        /\ announced' = [announced EXCEPT ![c] = Append(@, Len(dispatched[c]))]
    BY <1>1, <1>6 DEF ReadSome, EndLoop
  <2>2. ConnStep(c)
    BY <1>2, <1>3, <2>1 DEF ConnStep, SameStreams, SameConn, ReaderInv, ReaderTypes, Streams, Ends
  <2>3. /\ conn'[c] = "overflow" /\ buffer'[c] = buf
        /\ announced'[c] = Append(announced[c], Len(dispatched[c]))
    BY <2>1 DEF ReaderInv, ReaderTypes
  <2>4. announced'[c] = <<Len(dispatched'[c])>>
    BY <1>4, <2>1, <2>3
  <2>5. \E i \in 1..Len(arrived[c]) : frameLen[arrived[c][i][1]] > MaxBuf - ReadMax + 1
    BY <1>1, <1>2, <1>6, OverflowExplained
  <2>6. ConnHolds(c)'
    BY <1>2, <1>3, <1>5, <2>1, <2>3, <2>4, <2>5 DEF ConnHolds, Ends, FrameLen
  <2> QED
    BY <2>2, <2>6, OthersKeep
<1>7. CASE ~Overflows(buf)
  <2> DEFINE F == WholeFrames(buf, frameLen)
  <2>1. /\ dispatched' = [dispatched EXCEPT ![c] = @ \o F]
        /\ buffer' = [buffer EXCEPT ![c] = After(buf, F)]
        /\ UNCHANGED <<conn, announced>>
    BY <1>1, <1>7, FramesAre DEF ReadSome, KeepRest
  <2>2. ConnStep(c)
    BY <1>2, <1>3, <2>1 DEF ConnStep, SameStreams, SameConn, ReaderInv, ReaderTypes, Streams
  <2>3. dispatched'[c] = dispatched[c] \o F /\ buffer'[c] = After(buf, F)
    BY <2>1 DEF ReaderInv, ReaderTypes
  <2>4. /\ F \in Seq(Seq(ReaderBytes)) /\ FullFrames(F, frameLen)
        /\ After(buf, F) \in Seq(ReaderBytes)
        /\ FlattenSeq(F) \o After(buf, F) = buf
        /\ WholeFrames(After(buf, F), frameLen) = <<>>
    BY <1>3, FramesTaken
  <2> HIDE DEF F
  <2>5. ReadSoFar(ReaderBytes, frameLen, arrived[c], taken[c] + n, dispatched[c] \o F,
                  After(buf, F))
    BY <1>3, <2>4, FramesMove
  <2>6. Frames(buffer[c])' = <<>>
    <3>1. Frames(buffer[c])' = WholeFrames(buffer'[c], frameLen')
      BY DEF Frames, FrameLen, WholeFrames, SplitStep
    <3> QED
      BY <1>2, <2>3, <2>4, <3>1
  <2>7. conn'[c] = "reading" /\ announced'[c] = <<>>
    BY <1>3, <1>4, <2>1
  <2>8. ConnHolds(c)'
    BY <1>2, <1>3, <1>5, <2>3, <2>5, <2>6, <2>7 DEF ConnHolds, Ends
  <2> QED
    BY <2>2, <2>8, OthersKeep
<1> QED
  BY <1>6, <1>7

\* A read whose k-th frame the dispatcher refuses.
LEMMA RefusalKeeps ==
    ASSUME ReaderInv, NEW c \in Conns, NEW n, DispatchFails(c, n)
    PROVE  ReaderInv'
<1>1. PICK buf : buf = Incoming(c, n)
  OBVIOUS
<1>2. Take(c, n) /\ UNCHANGED <<arrived, fin, frameLen, announced>>
  BY DEF DispatchFails, connFrame
<1>3. /\ conn[c] = "reading" /\ taken' = [taken EXCEPT ![c] = taken[c] + n]
      /\ taken'[c] = taken[c] + n
      /\ ReadSoFar(ReaderBytes, frameLen, arrived[c], taken[c] + n, dispatched[c], buf)
      /\ buf \in Seq(ReaderBytes)
      /\ Sized(ReaderBytes, frameLen) /\ arrived[c] \in Seq(ReaderBytes)
  BY <1>1, <1>2, Refilled
<1>4. PICK F : F = WholeFrames(buf, frameLen)
  OBVIOUS
<1>5. PICK k \in 1..Len(F) :
         /\ dispatched' = [dispatched EXCEPT ![c] = @ \o SubSeq(F, 1, k - 1)]
         /\ buffer' = [buffer EXCEPT ![c] = After(buf, SubSeq(F, 1, k - 1))]
  <2>1. F = Frames(Incoming(c, n))
    BY <1>1, <1>4, FramesAre
  <2>2. PICK k \in 1..Len(F) :
           /\ dispatched' = [dispatched EXCEPT ![c] = @ \o SubSeq(F, 1, k - 1)]
           /\ buffer' = [buffer EXCEPT ![c] = Rest(Incoming(c, n), SubSeq(F, 1, k - 1))]
    BY <2>1 DEF DispatchFails
  <2>3. Rest(Incoming(c, n), SubSeq(F, 1, k - 1)) = After(buf, SubSeq(F, 1, k - 1))
    BY <1>1, FramesAre
  <2> QED
    BY <2>2, <2>3
<1>6. PICK done : done = SubSeq(F, 1, k - 1)
  OBVIOUS
<1>7. conn' = [conn EXCEPT ![c] = "refused"]
  BY DEF DispatchFails
<1>8. ConnStep(c)
  BY <1>2, <1>3, <1>5, <1>7
     DEF ConnStep, SameStreams, SameConn, ReaderInv, ReaderTypes, Streams, Ends
<1>9. /\ dispatched'[c] = dispatched[c] \o done /\ buffer'[c] = After(buf, done)
      /\ conn'[c] = "refused"
  BY <1>5, <1>6, <1>7 DEF ReaderInv, ReaderTypes
<1>10. /\ done \in Seq(Seq(ReaderBytes)) /\ FullFrames(done, frameLen)
       /\ After(buf, done) \in Seq(ReaderBytes)
       /\ FlattenSeq(done) \o After(buf, done) = buf
  <2>1. TakenOff(ReaderBytes, frameLen, buf, SubSeq(WholeFrames(buf, frameLen), 1, k - 1))
    BY <1>3, <1>4, FramesPartlyTaken
  <2> QED
    BY <1>4, <1>6, <2>1 DEF TakenOff
<1>11. ReadSoFar(ReaderBytes, frameLen, arrived[c], taken[c] + n, dispatched[c] \o done,
                 After(buf, done))
  BY <1>3, <1>10, FramesMove
<1>12. announced'[c] = <<>>
  BY <1>2, <1>3 DEF ReaderInv, ConnHolds, Ends
<1>13. ReaderBytes' = ReaderBytes
  BY <1>2 DEF ReaderBytes
<1>14. ConnHolds(c)'
  BY <1>2, <1>3, <1>9, <1>11, <1>12, <1>13 DEF ConnHolds, Ends
<1> QED
  BY <1>8, <1>14, OthersKeep

\* Every step of a reader keeps ReaderInv.
LEMMA ReaderStep ==
    ASSUME ReaderAssumption
    PROVE  ReaderInv /\ [ReaderNext]_readerVars => ReaderInv'
<1> SUFFICES ASSUME ReaderInv, [ReaderNext]_readerVars PROVE ReaderInv'
  OBVIOUS
<1>1. ASSUME NEW c \in Conns, Accept(c) PROVE ReaderInv'
  BY <1>1, AcceptKeeps
<1>2. ASSUME NEW c \in Conns, NEW n \in 1..ReadMax, ReadSome(c, n) PROVE ReaderInv'
  BY <1>2, ReadKeeps
<1>3. ASSUME NEW c \in Conns, NEW n \in 1..ReadMax, DispatchFails(c, n) PROVE ReaderInv'
  BY <1>3, RefusalKeeps
<1>4. ASSUME NEW c \in Conns, ReadEof(c) \/ ReadFails(c) \/ ReadCancelled(c) PROVE ReaderInv'
  <2>1. CASE ReadEof(c)
    BY <2>1, EndKeeps DEF ReadEof
  <2>2. CASE ReadFails(c)
    BY <2>2, EndKeeps DEF ReadFails
  <2>3. CASE ReadCancelled(c)
    BY <2>3, EndKeeps DEF ReadCancelled
  <2> QED
    BY <1>4, <2>1, <2>2, <2>3
<1>5. CASE AcceptFails \/ BackoffOver \/ ListenerStops
  <2>1. UNCHANGED <<arrived, fin, frameLen, connVars>>
    BY <1>5 DEF AcceptFails, BackoffOver, ListenerStops, listenFrame, connVars
  <2> QED
    BY <2>1, QuietKeeps
<1>6. CASE UdpReceives(0) \/ UdpReceives(1) \/ UdpFails \/ UdpCancelled \/ Cancel
  <2>1. UNCHANGED <<arrived, fin, frameLen, connVars>>
    BY <1>6 DEF UdpReceives, UdpFails, UdpCancelled, udpFrame, Cancel
  <2> QED
    BY <2>1, QuietKeeps
<1>7. CASE UNCHANGED readerVars
  BY <1>7, QuietKeeps DEF readerVars
<1> QED
  BY <1>1, <1>2, <1>3, <1>4, <1>5, <1>6, <1>7 DEF ReaderNext, ConnNext

\* ReaderInv has the parts of DispatchedAsSent.
LEMMA ReaderFollows ==
    ReaderInv => DispatchedAsSent
BY DEF ReaderInv, ConnHolds, ReadSoFar, FullFrames, FullFrame, DispatchedAsSent, FrameLen

\* For any streams, any way the network cuts them into pieces and any limit,
\* what handle_tcp dispatches is what the peer sent: nothing is lost between
\* two reads, the end is announced once and after the last frame, and a peer is
\* cut off only for a frame that does not fit beside a full read.
THEOREM FramesReachDispatcher ==
    ASSUME ReaderAssumption
    PROVE  ReaderSpec => []DispatchedAsSent
<1>1. ReaderInit /\ Streams => ReaderInv
  BY ReaderStarts
<1>2. ReaderInv /\ [ReaderNext]_readerVars => ReaderInv'
  BY ReaderStep
<1>3. ReaderInv => DispatchedAsSent
  BY ReaderFollows
<1> QED
  BY <1>1, <1>2, <1>3, PTL DEF ReaderSpec
=============================================================================
