-------------------------- MODULE StreamSupervisor --------------------------
(***************************************************************************)
(* base_rpc/src/stream_supervisor.rs and retry.rs: the task that keeps a   *)
(* stream connected, the watch channel that publishes its ConnectionState, *)
(* and the ConnectionReporter it hands to every connection.                *)
(*                                                                         *)
(* A reporter can be cloned and kept, so `connected' may be called for any *)
(* generation at any time and from another thread; it borrows the state    *)
(* and sends in two steps.  StreamConnector is the application's, tokio's  *)
(* watch channel and tokens are external.  Durations are naturals.         *)
(***************************************************************************)
EXTENDS Integers

CONSTANTS Policies,       \* RetryPolicy values a supervisor may be given
          Callers,        \* concurrent calls of ConnectionReporter::connected
          FloatMax,       \* above it, f64's powi is infinite
          MaxGeneration,  \* bound: connections tried
          None

SupervisorAssumption ==
    /\ MaxGeneration \in Nat /\ FloatMax \in Nat /\ None \notin Nat
    /\ \A p \in Policies :
          /\ p.max \in Nat \cup {None}
          /\ {p.initial, p.cap, p.multiplier, p.jitter} \subseteq Nat

VARIABLES
    policy,      \* config.retry
    state,       \* the watch channel's ConnectionState
    step,        \* where the supervisor's task stands
    generation, attempt,
    cancelled,   \* the supervisor's token
    ended,       \* generations whose own token was cancelled
    pause,       \* the last delay: without jitter, and as slept
    call,        \* per caller: its generation, and whether that was current
    overtaken,   \* a report was sent although the state had moved on
    handle       \* StreamSupervisorHandle

vars == <<policy, state, step, generation, attempt, cancelled, ended, pause,
          call, overtaken, handle>>

Steps == {"loop", "begin", "running", "returned", "ended", "waiting", "stop", "over",
          "crashed"}
Kinds == {"idle", "connecting", "connected", "disconnected", "stopped"}

State(kind, g) == [is |-> kind, generation |-> g]

Init ==
    /\ policy \in Policies
    /\ state = State("idle", 0)
    /\ step = "loop" /\ generation = 0 /\ attempt = 0
    /\ cancelled = FALSE /\ ended = {}
    /\ pause = [base |-> 0, slept |-> 0]
    /\ call = [c \in Callers |-> None] /\ overtaken = FALSE
    /\ handle = "held"

----------------------------------------------------------------------------
(* RetryPolicy.                                                            *)

Least(a, b) == IF a < b THEN a ELSE b
Most(a, b) == IF a > b THEN a ELSE b

\* Mutant of Permits: one attempt too few.
PermitsFewer(a) == policy.max = None \/ a < policy.max

Permits(a) == policy.max = None \/ a <= policy.max

\* f64::powi of a factor that is at least 1.
Powi(factor, exponent) ==
    LET power[n \in 0..exponent] == IF n = 0 THEN 1 ELSE factor * power[n - 1]
    IN  power[exponent]

\* powi may overflow to infinity; 0 * infinity is NaN, and NaN.min(cap) is cap.
DelayWithoutJitter(a) ==
    LET factor == Powi(Most(policy.multiplier, 1), a - 1)
    IN  IF factor > FloatMax THEN policy.cap
        ELSE Least(policy.initial * factor, policy.cap)

\* jitter is a percentage here, clamped to [0, 100].
Delays(a) ==
    LET base == DelayWithoutJitter(a)
        jitter == (base * Least(policy.jitter, 100)) \div 100
    IN  (base - jitter)..(base + jitter)

----------------------------------------------------------------------------
(* ConnectionReporter::connected, by a connection or by a clone of its     *)
(* reporter that was kept.                                                 *)

IsCurrent(g) == state.is \in {"connecting", "connected"} /\ state.generation = g

reportFrame == <<policy, step, generation, attempt, cancelled, ended, pause, handle>>

\* Mutant of ReportReads: the generation is not compared.
ReportUnchecked(c, g) ==
    /\ call[c] = None
    /\ call' = [call EXCEPT ![c] = [generation |-> g, wasCurrent |-> IsCurrent(g)]]
    /\ UNCHANGED <<reportFrame, state, overtaken>>

\* borrow().clone(): a reporter of another generation returns here.
ReportReads(c, g) ==
    /\ call[c] = None
    /\ IsCurrent(g)
    /\ call' = [call EXCEPT ![c] = [generation |-> g, wasCurrent |-> IsCurrent(g)]]
    /\ UNCHANGED <<reportFrame, state, overtaken>>

\* The state may have moved on since; send does not look again.
ReportSends(c) ==
    /\ call[c] # None
    /\ state' = State("connected", call[c].generation)
    /\ overtaken' = (overtaken \/ (call[c].wasCurrent /\ ~IsCurrent(call[c].generation)))
    /\ call' = [call EXCEPT ![c] = None]
    /\ UNCHANGED reportFrame

----------------------------------------------------------------------------
(* The supervisor's task.                                                  *)

frame == <<policy, call, overtaken, handle, cancelled>>

\* The head of the loop; a bounded supervisor pauses here until it is stopped.
Check ==
    /\ step = "loop"
    /\ \/ cancelled /\ step' = "stop" /\ UNCHANGED attempt
       \/ /\ ~cancelled
          /\ attempt < MaxGeneration \/ ~Permits(attempt + 1)
          /\ attempt' = attempt + 1
          /\ step' = IF Permits(attempt + 1) THEN "begin" ELSE "stop"
    /\ UNCHANGED <<frame, state, generation, ended, pause>>

Begin ==
    /\ step = "begin"
    /\ generation' = generation + 1
    /\ state' = State("connecting", generation + 1)
    /\ step' = "running"
    /\ UNCHANGED <<frame, attempt, ended, pause>>

\* connect_and_run returns, with whatever result.
ConnectorReturns ==
    /\ step = "running"
    /\ step' = "returned"
    /\ UNCHANGED <<frame, state, generation, attempt, ended, pause>>

\* connect_and_run panics and unwinds the supervisor's task: the connection's
\* token is not cancelled and the state is not sent again.
ConnectorPanics ==
    /\ step = "running"
    /\ step' = "crashed"
    /\ UNCHANGED <<frame, state, generation, attempt, ended, pause>>

\* connection_cancel.cancel(): what the connector has spawned is told to stop.
CancelConnection ==
    /\ step = "returned"
    /\ ended' = ended \cup {generation}
    /\ step' = "ended"
    /\ UNCHANGED <<frame, state, generation, attempt, pause>>

Disconnect ==
    /\ step = "ended"
    /\ \/ cancelled /\ step' = "stop" /\ UNCHANGED <<state, pause>>
       \/ /\ ~cancelled
          /\ state' = State("disconnected", generation)
          /\ \E d \in Delays(attempt) :
                pause' = [base |-> DelayWithoutJitter(attempt), slept |-> d]
          /\ step' = "waiting"
    /\ UNCHANGED <<frame, generation, attempt, ended>>

SleepEnds ==
    /\ step = "waiting"
    /\ step' = "loop"
    /\ UNCHANGED <<frame, state, generation, attempt, ended, pause>>

\* Mutant of WakeCancelled: the sleep is not raced against the token.
SleepOn ==
    /\ step = "waiting" /\ cancelled
    /\ UNCHANGED vars

WakeCancelled ==
    /\ step = "waiting" /\ cancelled
    /\ step' = "stop"
    /\ UNCHANGED <<frame, state, generation, attempt, ended, pause>>

Stop ==
    /\ step = "stop"
    /\ state' = State("stopped", 0)
    /\ step' = "over"
    /\ UNCHANGED <<frame, generation, attempt, ended, pause>>

----------------------------------------------------------------------------
(* The handle.                                                             *)

handleFrame == <<policy, state, step, generation, attempt, ended, pause, call, overtaken>>

Shutdown ==
    /\ handle = "held"
    /\ cancelled' = TRUE
    /\ handle' = "joining"
    /\ UNCHANGED handleFrame

\* The task is over or has panicked: shutdown drops join's result.
Joined ==
    /\ handle = "joining" /\ step \in {"over", "crashed"}
    /\ handle' = "joined"
    /\ UNCHANGED <<handleFrame, cancelled>>

\* Dropping the handle detaches the task: nobody can stop it any more.
DropHandle ==
    /\ handle = "held"
    /\ handle' = "dropped"
    /\ UNCHANGED <<handleFrame, cancelled>>

TaskNext == Check \/ Begin \/ CancelConnection \/ Disconnect \/ WakeCancelled \/ Stop

Next ==
    \/ TaskNext \/ ConnectorReturns \/ ConnectorPanics \/ SleepEnds
    \/ \E c \in Callers : (\E g \in 1..generation : ReportReads(c, g)) \/ ReportSends(c)
    \/ Shutdown \/ Joined \/ DropHandle

\* The task runs on; a connector that is told to stop returns, which is what
\* its token is for, or panics.
Fairness ==
    /\ WF_vars(TaskNext) /\ WF_vars(Joined)
    /\ WF_vars(cancelled /\ (ConnectorReturns \/ ConnectorPanics))

Spec == Init /\ [][Next]_vars /\ Fairness

----------------------------------------------------------------------------
(* Properties.                                                             *)

\* What a watcher of ConnectionState may conclude, however late a kept reporter
\* calls.  As long as connect_and_run goes on, its connection is shown, and a
\* connection that is shown is the newest one; every connection that is not shown
\* has had its token cancelled, so that nothing the connector spawned for it goes
\* on unasked; while the task waits, the state is Disconnected, and once it is
\* over, Stopped.  Two cases are outside: a call that has passed its check when
\* the supervisor moves on (overtaken), after which nothing is claimed; and a
\* connector that panics, which leaves its connection shown for good.
StateTruthful ==
    ~overtaken =>
        /\ state.is \in {"connecting", "connected"} =>
              /\ state.generation = generation
              /\ step \in {"running", "returned", "ended", "stop", "crashed"}
        /\ \A g \in 1..generation : IsCurrent(g) \/ g \in ended
        /\ step = "waiting" => state = State("disconnected", generation)
        /\ step = "over" => state.is = "stopped"
        /\ step \in {"running", "returned", "crashed"} => IsCurrent(generation)

\* The supervisor stops unasked only when max_attempts connections have been
\* tried; the pauses between them never shrink and never exceed max_delay by
\* more than the jitter.
RetriesByPolicy ==
    [][/\ (step' = "stop" /\ ~cancelled) => policy.max = generation
       /\ pause'.base >= pause.base
       /\ pause'.base <= policy.cap /\ pause'.slept <= 2 * policy.cap]_vars

\* shutdown returns, wherever the task is: in a connection that heeds its token,
\* or asleep for however long the next attempt is away.
StreamShutdownEnds == (handle = "joining") ~> (handle = "joined")
=============================================================================
