--------------------------- MODULE GlobalRuntime ---------------------------
(***************************************************************************)
(* The managed application runtime of base/src/utils/rt.rs and the exit    *)
(* signal of base/src/daemon/signal.rs: a registry of tokio runtimes, the  *)
(* named tasks spawned on them, and the staged shutdown order_shutdown     *)
(* performs when the process is asked to exit.                             *)
(*                                                                         *)
(* Time is abstracted: a wait bounded by a timeout may give up whenever    *)
(* what it waits for has not happened.  tokio itself (TaskTracker, the     *)
(* teardown of a Runtime) is external and modelled from how rt.rs uses it. *)
(***************************************************************************)
EXTENDS Integers, Sequences, FiniteSets

CONSTANTS Runtimes,       \* runtime types an application may register
          Main,           \* RuntimeType::Main, registered at start-up
          Tasks,          \* tasks the application may spawn
          BlockingTasks,  \* the ones it spawns with spawn_blocking
          Orders,         \* the stages handed to order_shutdown
          None            \* "no runtime", "no report"

RT == Runtimes \cup {Main}

Outcomes == {"graceful", "timed_out", "incomplete"}
Counters == {"completed", "cancelled", "panicked"}

\* RuntimeShutdownReport, also while it is being filled in.
StageReports == [outcome : Outcomes \cup {"none"}, remaining : SUBSET Tasks,
                 completed : Nat, cancelled : Nat, panicked : Nat]
BlankReport == [outcome |-> "none", remaining |-> {},
                completed |-> 0, cancelled |-> 0, panicked |-> 0]

ASSUME RuntimeAssumption ==
    /\ Main \notin Runtimes
    /\ None \notin RT /\ None \notin StageReports
    /\ BlockingTasks \subseteq Tasks
    /\ Orders \in Seq(RT)

VARIABLES
    runtimes,           \* RuntimeRegistry.runtimes: the registered entries
    handles,            \* runtimes some GlobalRuntime handle exists for
    accepting,          \* TaskState.accepting, per runtime
    cancel,             \* RuntimeEntry.cancel, per runtime
    torn,               \* runtimes whose tokio Runtime is being torn down
    home, st,           \* per task: its runtime, and where it stands
    counts,             \* TaskState.completed / cancelled / panicked
    failed,             \* RuntimeRegistry.failed
    shutdownRequested,  \* RuntimeRegistry.shutdown_requested
    shutdown,           \* Signal's SHUTDOWN token
    osSignal,           \* a Ctrl-C or SIGTERM is pending
    errPc,              \* progress of a request_shutdown_with_error call
    shuttingDown,       \* RuntimeRegistry.shutting_down
    phase, cur,         \* the shutdown: its step and current runtime
    cause,              \* what woke order_shutdown
    omitted,            \* registered runtimes missing from Orders
    staged,             \* runtimes whose stage is over
    waitOk, before,     \* wait_outcome and remaining_before_shutdown
    draft,              \* the fields of the stage's report read so far
    report,             \* per runtime: its RuntimeShutdownReport
    outcome             \* the ShutdownReport's outcome

taskVars == <<home, st, counts>>
signalVars == <<failed, shutdownRequested, shutdown, osSignal, errPc>>
stageVars == <<phase, cur, cause, omitted, staged, waitOk, before, draft, report,
               outcome>>
vars == <<runtimes, handles, accepting, cancel, torn, taskVars, signalVars,
          shuttingDown, stageVars>>

\* A task's guard counts it first and takes its entry off TaskState.active
\* afterwards; its TaskTracker token lasts until its future has been dropped.
UncountedStates == {"queued", "running"}
ActiveStates == UncountedStates \cup {"returning", "panicking", "dropping"}
TrackedStates == ActiveStates \cup
    {"returned", "panicked", "failing", "unwinding", "dropped"}
GoneStates == {"left", "unwound", "aborted"}
TaskStates == {"idle"} \cup TrackedStates \cup GoneStates

TasksOf(r) == {t \in Tasks : home[t] = r}
Uncounted(r) == {t \in Tasks : home[t] = r /\ st[t] \in UncountedStates}
Active(r) == {t \in Tasks : home[t] = r /\ st[t] \in ActiveStates}
Tracked(r) == {t \in Tasks : home[t] = r /\ st[t] \in TrackedStates}

Reading == {"read_names", "read_panicked", "read_completed", "read_cancelled"}
Phases == {"wait", "begin", "plan", "next", "close", "cancel", "await", "remove",
           "teardown", "take_main", "outcome", "done"} \cup Reading

Init ==
    /\ runtimes = {Main} /\ handles = {Main}
    /\ accepting = [r \in RT |-> TRUE]
    /\ cancel = [r \in RT |-> FALSE]
    /\ torn = {}
    /\ home = [t \in Tasks |-> None]
    /\ st = [t \in Tasks |-> "idle"]
    /\ counts = [r \in RT |-> [c \in Counters |-> 0]]
    /\ failed = FALSE /\ shutdownRequested = FALSE
    /\ shutdown = FALSE /\ osSignal = FALSE /\ errPc = 0
    /\ shuttingDown = FALSE
    /\ phase = "wait" /\ cur = None /\ cause = "none"
    /\ omitted = {} /\ staged = {}
    /\ waitOk = FALSE /\ before = {} /\ draft = BlankReport
    /\ report = [r \in RT |-> None]
    /\ outcome = "none"

----------------------------------------------------------------------------
(* The application's calls.                                                *)

\* Mutant of Register: the shutting_down check is missing.
RegisterUnchecked(r) ==
    /\ r \notin runtimes
    /\ runtimes' = runtimes \cup {r}
    /\ handles' = handles \cup {r}
    /\ UNCHANGED <<accepting, cancel, torn, taskVars, signalVars, shuttingDown, stageVars>>

\* register: refused once shutting down (the registry gate makes the check
\* and the insertion one step) and for a type already registered.
Register(r) ==
    /\ ~shuttingDown
    /\ r \notin runtimes
    /\ runtimes' = runtimes \cup {r}
    /\ handles' = handles \cup {r}
    /\ UNCHANGED <<accepting, cancel, torn, taskVars, signalVars, shuttingDown, stageVars>>

\* Mutant of Spawn: the task gate is not consulted.
SpawnUngated(t, r) ==
    /\ st[t] = "idle"
    /\ r \in handles
    /\ home' = [home EXCEPT ![t] = r]
    /\ st' = [st EXCEPT ![t] = IF t \in BlockingTasks THEN "queued" ELSE "running"]
    /\ UNCHANGED <<runtimes, handles, accepting, cancel, torn, counts, signalVars,
                   shuttingDown, stageVars>>

\* spawn / spawn_blocking: under the runtime's task gate, refused when it no
\* longer accepts; otherwise start_locked enters the task into the active
\* table and the tracker takes a token for it.
Spawn(t, r) ==
    /\ st[t] = "idle"
    /\ r \in handles
    /\ accepting[r]
    /\ home' = [home EXCEPT ![t] = r]
    /\ st' = [st EXCEPT ![t] = IF t \in BlockingTasks THEN "queued" ELSE "running"]
    /\ UNCHANGED <<runtimes, handles, accepting, cancel, torn, counts, signalVars,
                   shuttingDown, stageVars>>

\* request_shutdown: cancels the global exit signal.
RequestShutdown ==
    /\ shutdown' = TRUE
    /\ UNCHANGED <<runtimes, handles, accepting, cancel, torn, taskVars, failed,
                   shutdownRequested, osSignal, errPc, shuttingDown, stageVars>>

\* Mutant of RequestShutdownWithError: the token is cancelled before the
\* failure is stored.
RequestBeforeFailure ==
    /\ errPc < 3
    /\ errPc' = errPc + 1
    /\ failed' = (failed \/ errPc = 1)
    /\ shutdownRequested' = (shutdownRequested \/ errPc = 0)
    /\ shutdown' = (shutdown \/ errPc = 2)
    /\ UNCHANGED <<runtimes, handles, accepting, cancel, torn, taskVars, osSignal,
                   shuttingDown, stageVars>>

\* request_shutdown_with_error: fail() stores the failure and then cancels
\* shutdown_requested, after which the global exit signal is cancelled.
RequestShutdownWithError ==
    /\ errPc < 3
    /\ errPc' = errPc + 1
    /\ failed' = (failed \/ errPc = 0)
    /\ shutdownRequested' = (shutdownRequested \/ errPc = 1)
    /\ shutdown' = (shutdown \/ errPc = 2)
    /\ UNCHANGED <<runtimes, handles, accepting, cancel, torn, taskVars, osSignal,
                   shuttingDown, stageVars>>

\* The operating system delivers Ctrl-C or SIGTERM.
OsSignal ==
    /\ osSignal' = TRUE
    /\ UNCHANGED <<runtimes, handles, accepting, cancel, torn, taskVars, failed,
                   shutdownRequested, shutdown, errPc, shuttingDown, stageVars>>

----------------------------------------------------------------------------
(* Tasks.                                                                  *)

\* The guard's fetch_add on the counter of the way the task ended.
Count(t, field, next) ==
    /\ counts' = [counts EXCEPT ![home[t]][field] = @ + 1]
    /\ st' = [st EXCEPT ![t] = next]
    /\ UNCHANGED home

taskFrame == <<runtimes, handles, accepting, cancel, torn, shuttingDown, stageVars>>

\* The blocking pool picks the closure up.
StartBlocking(t) ==
    /\ st[t] = "queued"
    /\ st' = [st EXCEPT ![t] = "running"]
    /\ UNCHANGED <<taskFrame, home, counts, signalVars>>

\* TaskGuard::complete: counted as cancelled when the runtime's token is.
Complete(t) ==
    /\ st[t] = "running"
    /\ Count(t, IF cancel[home[t]] THEN "cancelled" ELSE "completed", "returning")
    /\ UNCHANGED <<taskFrame, signalVars>>

\* TaskGuard::panic, then the failure flag, then the shutdown request, before
\* the unwind is resumed.
Panic(t) ==
    /\ st[t] = "running"
    /\ Count(t, "panicked", "panicking")
    /\ UNCHANGED <<taskFrame, signalVars>>

\* The guard's active.remove, after the count.
Deregister(t) ==
    /\ st[t] \in {"returning", "panicking", "dropping"}
    /\ st' = [st EXCEPT ![t] = CASE st[t] = "returning" -> "returned"
                                 [] st[t] = "panicking" -> "panicked"
                                 [] st[t] = "dropping"  -> "dropped"]
    /\ UNCHANGED <<taskFrame, home, counts, signalVars>>

StoreFailed(t) ==
    /\ st[t] = "panicked"
    /\ failed' = TRUE
    /\ st' = [st EXCEPT ![t] = "failing"]
    /\ UNCHANGED <<taskFrame, home, counts, shutdownRequested, shutdown, osSignal, errPc>>

RequestAfterPanic(t) ==
    /\ st[t] = "failing"
    /\ shutdownRequested' = TRUE
    /\ st' = [st EXCEPT ![t] = "unwinding"]
    /\ UNCHANGED <<taskFrame, home, counts, failed, shutdown, osSignal, errPc>>

\* The teardown of a runtime drops its futures and its queued closures; the
\* guard's Drop counts them as cancelled.
DropTask(t) ==
    /\ home[t] \in torn
    /\ \/ st[t] = "queued"
       \/ st[t] = "running" /\ t \notin BlockingTasks
    /\ Count(t, "cancelled", "dropping")
    /\ UNCHANGED <<taskFrame, signalVars>>

\* The tracked future is dropped and with it the tracker token.
Leave(t) ==
    /\ st[t] \in {"returned", "unwinding", "dropped"}
    /\ st' = [st EXCEPT ![t] = CASE st[t] = "returned"  -> "left"
                                 [] st[t] = "unwinding" -> "unwound"
                                 [] st[t] = "dropped"   -> "aborted"]
    /\ UNCHANGED <<taskFrame, home, counts, signalVars>>

----------------------------------------------------------------------------
(* order_shutdown.                                                         *)

appFrame == <<handles, home, st, counts, failed, shutdownRequested, osSignal, errPc>>

\* wait_for_exit_signal returns through Signal::wait_exit_signal ...
ObserveSignal ==
    /\ phase = "wait"
    /\ shutdown \/ osSignal
    /\ shutdown' = TRUE
    /\ phase' = "begin" /\ cause' = "signal"
    /\ UNCHANGED <<appFrame, runtimes, accepting, cancel, torn, shuttingDown, cur,
                   omitted, staged, waitOk, before, draft, report, outcome>>

\* ... or through the shutdown_requested token.
ObserveRequest ==
    /\ phase = "wait"
    /\ shutdownRequested
    /\ phase' = "begin" /\ cause' = "request"
    /\ UNCHANGED <<appFrame, shutdown, runtimes, accepting, cancel, torn, shuttingDown,
                   cur, omitted, staged, waitOk, before, draft, report, outcome>>

\* Under the registry gate: no runtime registers from here on.
BeginShutdown ==
    /\ phase = "begin"
    /\ shuttingDown' = TRUE
    /\ phase' = "plan"
    /\ UNCHANGED <<appFrame, shutdown, runtimes, accepting, cancel, torn, cur, cause,
                   omitted, staged, waitOk, before, draft, report, outcome>>

\* The registered runtimes the caller forgot become the final stages.
PlanStages ==
    /\ phase = "plan"
    /\ omitted' = {r \in runtimes \ {Main} : \A i \in 1..Len(Orders) : Orders[i] # r}
    /\ phase' = "next"
    /\ UNCHANGED <<appFrame, shutdown, runtimes, accepting, cancel, torn, shuttingDown,
                   cur, cause, staged, waitOk, before, draft, report, outcome>>

\* The stage that comes next: the first declared runtime not staged yet, then
\* the omitted ones (sorted by name: any order here), Main last.
DeclaredNext(r) ==
    \E i \in 1..Len(Orders) :
        /\ Orders[i] = r
        /\ r \notin staged \cup {Main}
        /\ \A j \in 1..(i - 1) : Orders[j] \in staged \cup {Main}

DeclaredStaged == \A i \in 1..Len(Orders) : Orders[i] \in staged \cup {Main}

\* Mutant of StageIsNext: declared runtimes are staged in any order.
StageInAnyOrder(r) ==
    \/ r \notin staged \cup {Main} /\ \E i \in 1..Len(Orders) : Orders[i] = r
    \/ DeclaredStaged /\ r \in omitted \ staged
    \/ DeclaredStaged /\ omitted \subseteq staged /\ r = Main

StageIsNext(r) ==
    \/ DeclaredNext(r)
    \/ DeclaredStaged /\ r \in omitted \ staged
    \/ DeclaredStaged /\ omitted \subseteq staged /\ r = Main

\* shutdown_runtime finds no such runtime and returns None ...
SkipStage(r) ==
    /\ phase = "next"
    /\ StageIsNext(r)
    /\ r \notin runtimes
    /\ staged' = staged \cup {r}
    /\ UNCHANGED <<appFrame, shutdown, runtimes, accepting, cancel, torn, shuttingDown,
                   phase, cur, cause, omitted, waitOk, before, draft, report, outcome>>

\* ... or obtains its handle.
EnterStage(r) ==
    /\ phase = "next"
    /\ StageIsNext(r)
    /\ r \in runtimes
    /\ cur' = r
    /\ phase' = "close"
    /\ UNCHANGED <<appFrame, shutdown, runtimes, accepting, cancel, torn, shuttingDown,
                   cause, omitted, staged, waitOk, before, draft, report, outcome>>

\* Under the task gate: no task starts on this runtime from here on.
CloseGate ==
    /\ phase = "close"
    /\ accepting' = [accepting EXCEPT ![cur] = FALSE]
    /\ phase' = "cancel"
    /\ UNCHANGED <<appFrame, shutdown, runtimes, cancel, torn, shuttingDown, cur, cause,
                   omitted, staged, waitOk, before, draft, report, outcome>>

CancelStage ==
    /\ phase = "cancel"
    /\ cancel' = [cancel EXCEPT ![cur] = TRUE]
    /\ phase' = "await"
    /\ UNCHANGED <<appFrame, shutdown, runtimes, accepting, torn, shuttingDown, cur,
                   cause, omitted, staged, waitOk, before, draft, report, outcome>>

AfterWait(ok) ==
    /\ waitOk' = ok
    /\ phase' = IF cur = Main THEN "read_names" ELSE "remove"
    /\ UNCHANGED <<appFrame, shutdown, runtimes, accepting, cancel, torn, shuttingDown,
                   cur, cause, omitted, staged, before, draft, report, outcome>>

\* The tracker is closed and its last token is gone ...
TrackerDrained ==
    /\ phase = "await"
    /\ Tracked(cur) = {}
    /\ AfterWait(TRUE)

\* Mutant of TrackerTimeout: the wait for the tracker is unbounded.
TrackerUnbounded ==
    /\ phase = "await"
    /\ Tracked(cur) # {}
    /\ AfterWait(FALSE)
    /\ FALSE

\* ... or the stage's share of the budget is spent first.
TrackerTimeout ==
    /\ phase = "await"
    /\ Tracked(cur) # {}
    /\ AfterWait(FALSE)

\* The active names are read, the entry leaves the registry.
RemoveRuntime ==
    /\ phase = "remove"
    /\ before' = Active(cur)
    /\ runtimes' = runtimes \ {cur}
    /\ phase' = "teardown"
    /\ UNCHANGED <<appFrame, shutdown, accepting, cancel, torn, shuttingDown, cur, cause,
                   omitted, staged, waitOk, draft, report, outcome>>

\* Runtime::shutdown_timeout starts on a blocking thread; it may end at once.
StartTeardown ==
    /\ phase = "teardown"
    /\ torn' = torn \cup {cur}
    /\ phase' = "read_names"
    /\ UNCHANGED <<appFrame, shutdown, runtimes, accepting, cancel, shuttingDown, cur,
                   cause, omitted, staged, waitOk, before, draft, report, outcome>>

\* The report's fields are read one after the other while tasks still settle:
\* the names of the active tasks first, ...
ReadNames ==
    /\ phase = "read_names"
    /\ draft' = [draft EXCEPT !.remaining = Active(cur)]
    /\ phase' = "read_panicked"
    /\ UNCHANGED <<appFrame, shutdown, runtimes, accepting, cancel, torn, shuttingDown,
                   cur, cause, omitted, staged, waitOk, before, report, outcome>>

StageOutcome(joinError) ==
    IF ~waitOk THEN "timed_out"
    ELSE IF joinError \/ draft.remaining # {} \/ counts[cur]["panicked"] > 0
    THEN "incomplete"
    ELSE "graceful"

\* ... then the panics, which decide the outcome (joinError: the blocking
\* thread that tore the runtime down failed), ...
ReadPanicked(joinError) ==
    /\ phase = "read_panicked"
    /\ cur = Main => ~joinError
    /\ draft' = [draft EXCEPT !.panicked = counts[cur]["panicked"],
                              !.outcome = StageOutcome(joinError)]
    /\ phase' = "read_completed"
    /\ UNCHANGED <<appFrame, shutdown, runtimes, accepting, cancel, torn, shuttingDown,
                   cur, cause, omitted, staged, waitOk, before, report, outcome>>

ReadCompleted ==
    /\ phase = "read_completed"
    /\ draft' = [draft EXCEPT !.completed = counts[cur]["completed"]]
    /\ phase' = "read_cancelled"
    /\ UNCHANGED <<appFrame, shutdown, runtimes, accepting, cancel, torn, shuttingDown,
                   cur, cause, omitted, staged, waitOk, before, report, outcome>>

\* Mutant of StageRemaining: the active names are read after the counters.
StageRemainingLate == Active(cur)

\* The names the report carries: the tasks still active or, when there were
\* none and the stage was not graceful, the ones active before the teardown.
StageRemaining ==
    IF draft.remaining # {} \/ cur = Main THEN draft.remaining
    ELSE IF draft.outcome = "graceful" THEN {} ELSE before

\* ... and the cancelled tasks last, with which the report is complete.
ReportStage ==
    /\ phase = "read_cancelled"
    /\ report' = [report EXCEPT ![cur] =
                     [draft EXCEPT !.cancelled = counts[cur]["cancelled"],
                                   !.remaining = StageRemaining]]
    /\ waitOk' = FALSE /\ before' = {} /\ draft' = BlankReport
    /\ staged' = staged \cup {cur}
    /\ phase' = IF cur = Main THEN "take_main" ELSE "next"
    /\ UNCHANGED <<appFrame, shutdown, runtimes, accepting, cancel, torn, shuttingDown,
                   cur, cause, omitted, outcome>>

\* take_main_runtime and the teardown of the main runtime.
TakeMain ==
    /\ phase = "take_main"
    /\ runtimes' = runtimes \ {Main}
    /\ torn' = torn \cup {Main}
    /\ phase' = "outcome"
    /\ UNCHANGED <<appFrame, shutdown, accepting, cancel, shuttingDown, cur, cause,
                   omitted, staged, waitOk, before, draft, report, outcome>>

StageOutcomes == {report[r].outcome : r \in {s \in RT : report[s] # None}}

Conclude ==
    /\ phase = "outcome"
    /\ outcome' = IF failed THEN "incomplete"
                  ELSE IF StageOutcomes \subseteq {"graceful"} THEN "graceful"
                  ELSE IF "timed_out" \in StageOutcomes THEN "timed_out"
                  ELSE "incomplete"
    /\ phase' = "done"
    /\ UNCHANGED <<appFrame, shutdown, runtimes, accepting, cancel, torn, shuttingDown,
                   cur, cause, omitted, staged, waitOk, before, draft, report>>

----------------------------------------------------------------------------
Application ==
    \/ \E r \in Runtimes : Register(r)
    \/ \E t \in Tasks, r \in RT : Spawn(t, r)
    \/ RequestShutdown \/ RequestShutdownWithError \/ OsSignal

GuardSteps(t) == Deregister(t) \/ StoreFailed(t) \/ RequestAfterPanic(t)

TaskSteps ==
    \E t \in Tasks :
        \/ StartBlocking(t) \/ Complete(t) \/ Panic(t)
        \/ GuardSteps(t) \/ DropTask(t) \/ Leave(t)

Coordinator ==
    \/ ObserveSignal \/ ObserveRequest \/ BeginShutdown \/ PlanStages
    \/ \E r \in RT : SkipStage(r) \/ EnterStage(r)
    \/ CloseGate \/ CancelStage \/ TrackerDrained \/ TrackerTimeout
    \/ RemoveRuntime \/ StartTeardown
    \/ ReadNames \/ \E joinError \in BOOLEAN : ReadPanicked(joinError)
    \/ ReadCompleted \/ ReportStage
    \/ TakeMain \/ Conclude

Next == Application \/ TaskSteps \/ Coordinator

\* The thread in order_shutdown runs, and its bounded waits end; a guard
\* that has counted its task, and the handling of a panic, are straight-line
\* code.  Nothing makes a task finish.
Fairness == WF_vars(Coordinator) /\ \A t \in Tasks : WF_vars(GuardSteps(t))

Spec == Init /\ [][Next]_vars /\ Fairness

----------------------------------------------------------------------------
(* Properties.                                                             *)

TypeOK ==
    /\ runtimes \subseteq RT /\ handles \subseteq RT /\ torn \subseteq RT
    /\ accepting \in [RT -> BOOLEAN] /\ cancel \in [RT -> BOOLEAN]
    /\ home \in [Tasks -> RT \cup {None}]
    /\ st \in [Tasks -> TaskStates]
    /\ counts \in [RT -> [Counters -> Nat]]
    /\ failed \in BOOLEAN /\ shutdownRequested \in BOOLEAN
    /\ shutdown \in BOOLEAN /\ osSignal \in BOOLEAN /\ errPc \in 0..3
    /\ shuttingDown \in BOOLEAN
    /\ phase \in Phases /\ cur \in RT \cup {None}
    /\ cause \in {"none", "signal", "request"}
    /\ omitted \subseteq RT /\ staged \subseteq RT
    /\ waitOk \in BOOLEAN /\ before \subseteq Tasks
    /\ draft \in StageReports
    /\ report \in [RT -> StageReports \cup {None}]
    /\ outcome \in Outcomes \cup {"none"}

\* A shutdown reported graceful (ShutdownReport::is_graceful) means that every
\* task accepted on any runtime returned by itself: none is still running,
\* none panicked and none was dropped by a runtime's teardown.
GracefulMeansQuiescent ==
    outcome = "graceful" => \A t \in Tasks : st[t] \in {"idle", "left"}

\* Stages run in the declared order: a runtime's tasks are cancelled only when
\* the stage of every runtime declared before it is over.
DeclaredOrderKept ==
    \A i, j \in 1..Len(Orders) :
        (j < i /\ Orders[j] # Main /\ Orders[i] # Main /\ cancel[Orders[i]]
               /\ \A k \in 1..(i - 1) : Orders[k] # Orders[i])
            => Orders[j] \in staged

\* A registered runtime the caller left out is cancelled only when the stages
\* of all those the caller named are over.
OmittedAfterDeclared ==
    \A r \in Runtimes :
        cancel[r] /\ (\A i \in 1..Len(Orders) : Orders[i] # r) => DeclaredStaged

\* Main's tasks, the shutdown itself among them, are cancelled last: by then
\* no other runtime is registered, declared or not.
MainCancelledLast == cancel[Main] => runtimes \subseteq {Main}

\* A shutdown that a panic or request_shutdown_with_error triggered through
\* shutdown_requested is never reported as anything but incomplete: the
\* failure flag is stored before the token is cancelled.
FailureIsReported ==
    cause = "request" => outcome \in {"none", "incomplete"}

Total(c) == c["completed"] + c["cancelled"] + c["panicked"]

\* Every accepted task is counted exactly once, whether it returns, panics or
\* is dropped with its runtime.
CountersBalance ==
    \A r \in RT : Total(counts[r]) + Cardinality(Uncounted(r)) = Cardinality(TasksOf(r))

\* A report leaves out no task of its runtime and counts none twice: what its
\* counters miss is among its names, because the names were read first, and a
\* task that settles while the fields are read may be in both.  Where nothing
\* is named the counters are exact, so they are in a graceful report, which
\* has no panic either.
TotalsBounded ==
    \A r \in RT : report[r] # None =>
        /\ Total(report[r]) <= Cardinality(TasksOf(r))
        /\ Total(report[r]) + Cardinality(report[r].remaining) >= Cardinality(TasksOf(r))
        /\ report[r].outcome = "graceful" =>
              report[r].remaining = {} /\ report[r].panicked = 0

\* A task that outlives its stage is named in that stage's report, and a task
\* the teardown dropped never leaves the report without names.
UnfinishedTasksNamed ==
    \A t \in Tasks :
        home[t] # None /\ report[home[t]] # None =>
            /\ st[t] \in ActiveStates => t \in report[home[t]].remaining
            /\ st[t] \in {"dropped", "aborted"} => report[home[t]].remaining # {}

\* Every task accepted on a runtime is accounted for in the runtime's
\* RuntimeShutdownReport, whichever way and whenever it ended: it is counted
\* once, or it is named, or both if it settled while the report was written.
ReportsAccountForAll ==
    TypeOK /\ CountersBalance /\ TotalsBounded /\ UnfinishedTasksNamed

\* A runtime's tasks may need those of the runtimes that are stopped after it,
\* and all of them Main: no stage is begun out of turn.
StagesInOrder == DeclaredOrderKept /\ OmittedAfterDeclared /\ MainCancelledLast

\* When order_shutdown returns, every runtime that was ever registered has
\* been staged and has left the registry.
EveryRuntimeStaged ==
    phase = "done" => handles \subseteq staged /\ runtimes = {}

\* Any request to exit, and a panic in a managed task, ends with order_shutdown
\* returning, however the remaining tasks behave.
ShutdownCompletes ==
    (shutdown \/ osSignal \/ shutdownRequested \/ \E t \in Tasks : st[t] = "panicking")
        ~> (phase = "done")
=============================================================================
