------------------------ MODULE GlobalRuntimeProofs ------------------------
(***************************************************************************)
(* Machine-checked proofs about GlobalRuntime, for any set of runtimes and *)
(* tasks and any order of stages.  The inductive invariant IInv says where *)
(* a runtime stands between its registration and its report; every        *)
(* property proved below follows from it.                                  *)
(***************************************************************************)
EXTENDS GlobalRuntime, FiniteSetTheorems, TLAPS

Beginning == {"wait", "begin", "plan"}
InStage == {"close", "cancel", "await", "remove", "teardown"} \cup Reading
GateShut == {"cancel", "await", "remove", "teardown"} \cup Reading
Ending == {"take_main", "outcome", "done"}

\* A task has a home from the moment it is accepted, and homes have handles.
TaskHomes ==
    \A t \in Tasks : /\ st[t] = "idle" <=> home[t] = None
                     /\ home[t] # None => home[t] \in handles

\* A runtime with a handle is registered, being staged or staged.
Registry ==
    /\ Main \in handles /\ runtimes \subseteq handles
    /\ \A r \in handles : r \in runtimes \/ r \in staged
                            \/ (r = cur /\ phase \in {"teardown"} \cup Reading)
    /\ \A r \in runtimes : r \notin staged \/ (r = Main /\ phase = "take_main")
    /\ phase \notin {"outcome", "done"} => Main \in runtimes
    /\ phase \in {"outcome", "done"} => runtimes = {}

\* The stage under way, and what has to be over before it.
Stage ==
    /\ phase \in Beginning => staged = {} /\ torn = {}
    /\ phase \notin {"wait", "begin"} => shuttingDown
    /\ phase \in InStage => cur \in handles /\ cur \notin staged
    /\ phase \in {"close", "cancel", "await", "remove"} => cur \in runtimes
    /\ phase \in {"remove", "teardown"} => cur # Main
    /\ phase \in {"teardown"} \cup Reading /\ cur # Main => cur \notin runtimes
    /\ phase \notin Ending => Main \notin staged
    /\ Main \notin omitted
    /\ phase \in Ending => handles \subseteq staged
    /\ phase \in InStage /\ cur = Main => handles \subseteq staged \cup {Main}
    /\ phase \notin Beginning =>
          \A r \in handles \ {Main} :
              r \in omitted \/ \E i \in 1..Len(Orders) : Orders[i] = r

\* No task starts on a runtime whose gate has been closed.
Gates ==
    /\ \A r \in staged \cap handles : ~accepting[r]
    /\ phase \in GateShut => ~accepting[cur]

\* Main is cancelled in its own stage only.
MainStage ==
    cancel[Main] => \/ phase \in Ending
                    \/ cur = Main /\ phase \in {"await"} \cup Reading

\* Tasks are dropped only with the runtime they run on, after its wait.
Teardowns ==
    /\ torn \subseteq staged \cup (IF phase \in Reading THEN {cur} ELSE {})
    /\ \A t \in Tasks : st[t] \in {"dropping", "dropped", "aborted"} => home[t] \in torn

\* A panic is on the runtime's counter from the moment the guard saw it.
PanicsCounted ==
    \A t \in Tasks : st[t] \in {"panicking", "panicked", "failing", "unwinding",
                                      "unwound"} => counts[home[t]]["panicked"] > 0

\* Between the tracker's drain and the report nothing of the stage runs.
Drained ==
    phase \in {"remove", "teardown"} \cup Reading /\ waitOk =>
        \A t \in Tasks : home[t] = cur => st[t] \in {"left", "unwound"}

\* An outcome is graceful only if all tasks of the stage returned by themselves.
Verdict ==
    phase \in {"read_completed", "read_cancelled"} /\ draft.outcome = "graceful" =>
        \A t \in Tasks : home[t] = cur => st[t] = "left"

\* What the reports say of the runtimes that have one.
Reports ==
    \A r \in RT :
        /\ report[r] # None => r \in staged /\ r \in handles
        /\ r \in staged /\ r \in handles => report[r] # None
        /\ report[r] # None /\ report[r].outcome = "graceful" =>
              \A t \in Tasks : home[t] = r => st[t] = "left"

\* The failure flag precedes the token, and the outcome comes last.
Failure ==
    /\ shutdownRequested => failed
    /\ errPc > 0 => failed
    /\ \A t \in Tasks : st[t] = "failing" => failed
    /\ cause = "request" => failed
    /\ phase = "wait" => cause = "none"
    /\ phase # "done" => outcome = "none"
    /\ cause = "request" => outcome \in {"none", "incomplete"}

Outcome ==
    outcome = "graceful" =>
        \A r \in handles : report[r] # None /\ report[r].outcome = "graceful"

Parts == /\ TaskHomes
         /\ Registry
         /\ Stage
         /\ Gates
         /\ MainStage
         /\ Teardowns
         /\ PanicsCounted
         /\ Drained
         /\ Verdict
         /\ Reports
         /\ Failure
         /\ Outcome

IInv == TypeOK /\ Parts

USE DEF Outcomes, Counters, Reading

\* A counter holds a number.
LEMMA CountersTyped ==
    ASSUME TypeOK, NEW r \in RT PROVE \A c \in Counters : counts[r][c] \in Nat
BY DEF TypeOK

\* Counting a task adds one to a counter of its runtime.
LEMMA CountCounts ==
    ASSUME TypeOK, NEW t \in Tasks, home[t] \in RT, NEW field \in Counters,
           NEW next, Count(t, field, next)
    PROVE  /\ counts' \in [RT -> [Counters -> Nat]]
           /\ \A r \in RT, c \in Counters : counts'[r][c] >= counts[r][c]
           /\ counts'[home[t]][field] > 0
  <1> DEFINE f == [counts[home[t]] EXCEPT ![field] = @ + 1]
  <1>1. counts \in [RT -> [Counters -> Nat]]
    BY DEF TypeOK
  <1>2. f \in [Counters -> Nat] /\ f[field] > 0
        /\ \A c \in Counters : f[c] >= counts[home[t]][c]
    BY <1>1
  <1>3. counts' = [counts EXCEPT ![home[t]] = f]
    BY DEF Count
  <1> HIDE DEF f
  <1> QED
    BY <1>1, <1>2, <1>3

\* Every variable keeps its type under every step of the code.
LEMMA TypeStep == IInv /\ [Next]_vars => TypeOK'
<1> SUFFICES ASSUME TypeOK, TaskHomes, Stage, [Next]_vars PROVE TypeOK'
  BY DEF IInv, Parts
<1> USE RuntimeAssumption DEF TypeOK, RT, TaskStates, TrackedStates, ActiveStates,
    UncountedStates, GoneStates, Phases, taskVars, signalVars, stageVars, taskFrame, appFrame
\* A task is settled; a stage goes on.
<1>a. ASSUME UNCHANGED <<taskFrame, signalVars, home>>,
             counts' \in [RT -> [Counters -> Nat]], st' \in [Tasks -> TaskStates]
      PROVE  TypeOK'
  BY <1>a
<1>b. ASSUME UNCHANGED <<appFrame, shutdown, runtimes, torn, shuttingDown, cur, cause,
                         omitted, staged, before, draft, report, outcome>>,
             accepting' \in [RT -> BOOLEAN], cancel' \in [RT -> BOOLEAN],
             waitOk' \in BOOLEAN, phase' \in Phases
      PROVE  TypeOK'
  BY <1>b
<1>c. ASSUME UNCHANGED <<appFrame, shutdown, runtimes, torn, shuttingDown, accepting,
                         cancel, cur, cause, omitted, staged, waitOk, before, report,
                         outcome>>,
             draft' \in StageReports, phase' \in Phases
      PROVE  TypeOK'
  BY <1>c
<1>1. ASSUME NEW r \in Runtimes, Register(r) PROVE TypeOK'
  BY <1>1 DEF Register
<1>2. ASSUME NEW t \in Tasks, NEW r \in RT, Spawn(t, r) PROVE TypeOK'
  BY <1>2 DEF Spawn
<1>3. CASE RequestShutdown
  BY <1>3 DEF RequestShutdown
<1>4. CASE RequestShutdownWithError
  BY <1>4 DEF RequestShutdownWithError
<1>5. CASE OsSignal
  BY <1>5 DEF OsSignal
<1>6. ASSUME NEW t \in Tasks, StartBlocking(t) PROVE TypeOK'
  BY <1>6 DEF StartBlocking
<1>7. ASSUME NEW t \in Tasks, Complete(t) PROVE TypeOK'
  <2>1. home[t] \in RT
    BY <1>7 DEF Complete, TaskHomes
  <2>2. counts' \in [RT -> [Counters -> Nat]]
    BY <1>7, <2>1, CountCounts DEF Complete
  <2>3. st' \in [Tasks -> TaskStates] /\ UNCHANGED <<taskFrame, signalVars, home>>
    BY <1>7 DEF Complete, Count
  <2> QED
    BY <1>a, <2>2, <2>3
<1>8. ASSUME NEW t \in Tasks, Panic(t) PROVE TypeOK'
  <2>1. home[t] \in RT
    BY <1>8 DEF Panic, TaskHomes
  <2>2. counts' \in [RT -> [Counters -> Nat]]
    BY <1>8, <2>1, CountCounts DEF Panic
  <2>3. st' \in [Tasks -> TaskStates] /\ UNCHANGED <<taskFrame, signalVars, home>>
    BY <1>8 DEF Panic, Count
  <2> QED
    BY <1>a, <2>2, <2>3
<1>9. ASSUME NEW t \in Tasks, StoreFailed(t) PROVE TypeOK'
  BY <1>9 DEF StoreFailed
<1>10. ASSUME NEW t \in Tasks, RequestAfterPanic(t) PROVE TypeOK'
  BY <1>10 DEF RequestAfterPanic
<1>11. ASSUME NEW t \in Tasks, DropTask(t) PROVE TypeOK'
  <2>1. home[t] \in RT
    BY <1>11 DEF DropTask, TaskHomes
  <2>2. counts' \in [RT -> [Counters -> Nat]]
    BY <1>11, <2>1, CountCounts DEF DropTask
  <2>3. st' \in [Tasks -> TaskStates] /\ UNCHANGED <<taskFrame, signalVars, home>>
    BY <1>11 DEF DropTask, Count
  <2> QED
    BY <1>a, <2>2, <2>3
<1>12. ASSUME NEW t \in Tasks, Leave(t) PROVE TypeOK'
  BY <1>12 DEF Leave
<1>13. CASE ObserveSignal
  BY <1>13 DEF ObserveSignal
<1>14. CASE ObserveRequest
  BY <1>14 DEF ObserveRequest
<1>15. CASE BeginShutdown
  BY <1>15 DEF BeginShutdown
<1>16. CASE PlanStages
  BY <1>16 DEF PlanStages
<1>17. ASSUME NEW r \in RT, SkipStage(r) PROVE TypeOK'
  BY <1>17 DEF SkipStage
<1>18. ASSUME NEW r \in RT, EnterStage(r) PROVE TypeOK'
  BY <1>18 DEF EnterStage
<1>19. CASE CloseGate
  <2>1. accepting' \in [RT -> BOOLEAN]
    BY <1>19 DEF CloseGate
  <2> QED
    BY <1>b, <1>19, <2>1 DEF CloseGate
<1>20. CASE CancelStage
  <2>1. cancel' \in [RT -> BOOLEAN]
    BY <1>20 DEF CancelStage
  <2> QED
    BY <1>b, <1>20, <2>1 DEF CancelStage
<1>21. CASE TrackerDrained
  BY <1>b, <1>21 DEF TrackerDrained, AfterWait
<1>22. CASE TrackerTimeout
  BY <1>b, <1>22 DEF TrackerTimeout, AfterWait
<1>23. CASE RemoveRuntime
  BY <1>23 DEF RemoveRuntime, Active
<1>24. CASE StartTeardown
  BY <1>24 DEF StartTeardown, Stage, InStage
\* The counters of the runtime whose report is being written.
<1>e. ASSUME UNCHANGED <<appFrame, shutdown, runtimes, torn, shuttingDown, accepting,
                         cancel, cur, cause, omitted, outcome>>,
             staged' \subseteq RT, waitOk' \in BOOLEAN, before' \subseteq Tasks,
             report' \in [RT -> StageReports \cup {None}],
             draft' \in StageReports, phase' \in Phases
      PROVE  TypeOK'
  BY <1>e
<1>d. ASSUME phase \in Reading
      PROVE  cur \in RT /\ \A c \in Counters : counts[cur][c] \in Nat
  <2>1. cur \in RT
    BY <1>d DEF Stage, InStage
  <2> QED
    BY <2>1, CountersTyped
<1>25. CASE ReadNames
  <2>1. draft' \in StageReports
    BY <1>25 DEF ReadNames, StageReports, Active
  <2> QED
    BY <1>c, <1>25, <2>1 DEF ReadNames
<1>29. ASSUME NEW joinError \in BOOLEAN, ReadPanicked(joinError) PROVE TypeOK'
  <2>1. StageOutcome(joinError) \in Outcomes
    BY DEF StageOutcome
  <2>2. counts[cur]["panicked"] \in Nat
    BY <1>d, <1>29 DEF ReadPanicked
  <2>3. draft' \in StageReports
    BY <1>29, <2>1, <2>2 DEF ReadPanicked, StageReports
  <2> QED
    BY <1>c, <1>29, <2>3 DEF ReadPanicked
<1>30. CASE ReadCompleted
  <2>1. counts[cur]["completed"] \in Nat
    BY <1>d, <1>30 DEF ReadCompleted
  <2>2. draft' \in StageReports
    BY <1>30, <2>1 DEF ReadCompleted, StageReports
  <2> QED
    BY <1>c, <1>30, <2>2 DEF ReadCompleted
<1>31. CASE ReportStage
  <2>1. cur \in RT /\ counts[cur]["cancelled"] \in Nat
    BY <1>d, <1>31 DEF ReportStage
  <2>2. StageRemaining \in SUBSET Tasks
    BY DEF StageRemaining, StageReports
  <2>3. [draft EXCEPT !.cancelled = counts[cur]["cancelled"],
                      !.remaining = StageRemaining] \in StageReports
    BY <2>1, <2>2 DEF StageReports
  <2>4. report' \in [RT -> StageReports \cup {None}]
    BY <1>31, <2>1, <2>3 DEF ReportStage
  <2>5. draft' \in StageReports
    BY <1>31 DEF ReportStage, BlankReport, StageReports
  <2>6. staged' \subseteq RT /\ waitOk' \in BOOLEAN /\ before' \subseteq Tasks
        /\ phase' \in Phases
    BY <1>31, <2>1 DEF ReportStage
  <2> QED
    BY <1>e, <1>31, <2>4, <2>5, <2>6 DEF ReportStage
<1>32. ASSUME NEW t \in Tasks, Deregister(t) PROVE TypeOK'
  BY <1>32 DEF Deregister
<1>26. CASE TakeMain
  BY <1>26 DEF TakeMain
<1>27. CASE Conclude
  BY <1>27 DEF Conclude
<1>28. CASE UNCHANGED vars
  BY <1>28 DEF vars
<1> QED
  BY <1>1, <1>2, <1>3, <1>4, <1>5, <1>6, <1>7, <1>8, <1>9, <1>10, <1>11, <1>12, <1>13,
     <1>14, <1>15, <1>16, <1>17, <1>18, <1>19, <1>20, <1>21, <1>22, <1>23, <1>24, <1>25,
     <1>26, <1>27, <1>28, <1>29, <1>30, <1>31, <1>32
     DEF Next, Application, TaskSteps, GuardSteps, Coordinator

\* Every step of the code keeps the rest of IInv: one step per action, and
\* under it one per conjunct whose proof needs another conjunct.
LEMMA PartsStep == IInv /\ [Next]_vars /\ TypeOK' => Parts'
<1> SUFFICES ASSUME TypeOK, TaskHomes, Registry, Stage, Gates, MainStage, Teardowns,
                      PanicsCounted, Drained, Verdict, Reports, Failure, Outcome,
                      [Next]_vars, TypeOK'
             PROVE  Parts'
  BY DEF IInv, Parts
<1> USE RuntimeAssumption DEF RT, TaskStates, TrackedStates, ActiveStates,
    UncountedStates, GoneStates, Phases, taskVars, signalVars, stageVars, taskFrame,
    appFrame, Beginning, InStage, GateShut, Ending, TypeOK
<1>1. ASSUME NEW r \in Runtimes, Register(r) PROVE Parts'
  <2>1. Registry'
    BY <1>1 DEF Register, Registry, Stage
  <2>2. Gates'
    BY <1>1 DEF Register, Gates, Stage
  <2>3. Reports'
    BY <1>1 DEF Register, Reports, Stage
  <2>4. Outcome'
    BY <1>1 DEF Register, Outcome, Stage, Failure
  <2> QED
    BY <1>1, <2>1, <2>2, <2>3, <2>4 DEF Parts, Register, TaskHomes, Stage,
      MainStage, Teardowns, PanicsCounted, Drained, Verdict, Failure
<1>2. ASSUME NEW t \in Tasks, NEW r \in RT, Spawn(t, r) PROVE Parts'
  <2>1. Drained'
    BY <1>2 DEF Spawn, Drained, Verdict, Gates, TaskHomes
  <2>2. Reports'
    BY <1>2 DEF Spawn, Reports, Gates
  <2>3. TaskHomes' /\ Gates' /\ PanicsCounted' /\ Teardowns'
    BY <1>2 DEF Spawn, TaskHomes, Gates, PanicsCounted, Teardowns
  <2>4. Verdict'
    BY <1>2 DEF Spawn, Verdict, Gates
  <2> QED
    BY <1>2, <2>1, <2>2, <2>3, <2>4 DEF Parts, Spawn, Registry, Stage, MainStage,
      Failure, Outcome
<1>3. CASE RequestShutdown
  BY <1>3 DEF Parts, RequestShutdown, TaskHomes, Registry, Stage, Gates,
    MainStage, Teardowns, PanicsCounted, Drained, Verdict, Reports, Failure, Outcome
<1>4. CASE RequestShutdownWithError
  <2>1. Failure'
    <3>1. CASE errPc = 0
      BY <1>4, <3>1 DEF RequestShutdownWithError, Failure
    <3>2. CASE errPc # 0
      <4>1. errPc > 0 /\ failed
        BY <3>2 DEF Failure
      <4> QED
        BY <1>4, <4>1 DEF RequestShutdownWithError, Failure
    <3> QED
      BY <3>1, <3>2
  <2> QED
    BY <1>4, <2>1 DEF Parts, RequestShutdownWithError, TaskHomes, Registry,
      Stage, Gates, MainStage, Teardowns, PanicsCounted, Drained, Verdict, Reports,
      Outcome
<1>5. CASE OsSignal
  BY <1>5 DEF Parts, OsSignal, TaskHomes, Registry, Stage, Gates, MainStage,
    Teardowns, PanicsCounted, Drained, Verdict, Reports, Failure, Outcome
<1>6. ASSUME NEW t \in Tasks, StartBlocking(t) PROVE Parts'
  BY <1>6 DEF Parts, StartBlocking, TaskHomes, Registry, Stage, Gates,
    MainStage, Teardowns, PanicsCounted, Drained, Verdict, Reports, Failure, Outcome
<1>7. ASSUME NEW t \in Tasks, Complete(t) PROVE Parts'
  <2>1. PanicsCounted'
    BY <1>7 DEF Complete, Count, TaskHomes, PanicsCounted
  <2>2. Drained' /\ Verdict' /\ Reports'
    BY <1>7 DEF Complete, Count, Drained, Verdict, Reports
  <2> QED
    BY <1>7, <2>1, <2>2 DEF Parts, Complete, Count, TaskHomes, Registry, Stage, Gates,
      MainStage, Teardowns, Failure, Outcome
<1>8. ASSUME NEW t \in Tasks, Panic(t) PROVE Parts'
  <2>1. PanicsCounted'
    BY <1>8 DEF Panic, Count, TaskHomes, PanicsCounted
  <2>2. Drained' /\ Verdict' /\ Reports'
    BY <1>8 DEF Panic, Count, Drained, Verdict, Reports
  <2> QED
    BY <1>8, <2>1, <2>2 DEF Parts, Panic, Count, TaskHomes, Registry, Stage, Gates,
      MainStage, Teardowns, Failure, Outcome
<1>9. ASSUME NEW t \in Tasks, StoreFailed(t) PROVE Parts'
  BY <1>9 DEF Parts, StoreFailed, TaskHomes, Registry, Stage, Gates, MainStage,
    Teardowns, PanicsCounted, Drained, Verdict, Reports, Failure, Outcome
<1>10. ASSUME NEW t \in Tasks, RequestAfterPanic(t) PROVE Parts'
  BY <1>10 DEF Parts, RequestAfterPanic, TaskHomes, Registry, Stage, Gates,
    MainStage, Teardowns, PanicsCounted, Drained, Verdict, Reports, Failure, Outcome
<1>11. ASSUME NEW t \in Tasks, DropTask(t) PROVE Parts'
  BY <1>11 DEF Parts, DropTask, Count, TaskHomes, Registry, Stage, Gates,
    MainStage, Teardowns, PanicsCounted, Drained, Verdict, Reports, Failure, Outcome
<1>12. ASSUME NEW t \in Tasks, Leave(t) PROVE Parts'
  BY <1>12 DEF Parts, Leave, TaskHomes, Registry, Stage, Gates, MainStage,
    Teardowns, PanicsCounted, Drained, Verdict, Reports, Failure, Outcome
<1>13. CASE ObserveSignal
  BY <1>13 DEF Parts, ObserveSignal, TaskHomes, Registry, Stage, Gates,
    MainStage, Teardowns, PanicsCounted, Drained, Verdict, Reports, Failure, Outcome
<1>14. CASE ObserveRequest
  BY <1>14 DEF Parts, ObserveRequest, TaskHomes, Registry, Stage, Gates,
    MainStage, Teardowns, PanicsCounted, Drained, Verdict, Reports, Failure, Outcome
<1>15. CASE BeginShutdown
  BY <1>15 DEF Parts, BeginShutdown, TaskHomes, Registry, Stage, Gates,
    MainStage, Teardowns, PanicsCounted, Drained, Verdict, Reports, Failure, Outcome
<1>16. CASE PlanStages
  <2>1. Stage'
    BY <1>16 DEF PlanStages, Stage, Registry
  <2> QED
    BY <1>16, <2>1 DEF Parts, PlanStages, TaskHomes, Registry, Gates, MainStage,
      Teardowns, PanicsCounted, Drained, Verdict, Reports, Failure, Outcome
<1>17. ASSUME NEW r \in RT, SkipStage(r) PROVE Parts'
  <2>1. Stage'
    BY <1>17 DEF SkipStage, StageIsNext, DeclaredNext, DeclaredStaged, Stage,
      Registry
  <2>2. Gates'
    BY <1>17 DEF SkipStage, StageIsNext, DeclaredNext, DeclaredStaged, Gates,
      Registry
  <2>3. Reports'
    BY <1>17 DEF SkipStage, StageIsNext, DeclaredNext, DeclaredStaged, Reports,
      Registry, Stage
  <2> QED
    BY <1>17, <2>1, <2>2, <2>3 DEF Parts, SkipStage, StageIsNext, DeclaredNext,
      DeclaredStaged, TaskHomes, Registry, MainStage, Teardowns, PanicsCounted,
      Drained, Verdict, Failure, Outcome
<1>18. ASSUME NEW r \in RT, EnterStage(r) PROVE Parts'
  <2>1. Stage'
    <3>1. r \in handles /\ r \notin staged
      BY <1>18 DEF EnterStage, Registry
    <3>2. r = Main => handles \subseteq staged \cup {Main}
      <4> SUFFICES ASSUME r = Main, NEW h \in handles, h # Main PROVE h \in staged
        OBVIOUS
      <4>1. DeclaredStaged /\ omitted \subseteq staged
        BY <1>18, <3>1 DEF EnterStage, StageIsNext, DeclaredNext, Stage
      <4> QED
        BY <1>18, <4>1 DEF EnterStage, DeclaredStaged, Stage
    <3> QED
      BY <1>18, <3>1, <3>2 DEF EnterStage, Stage
  <2> QED
    BY <1>18, <2>1 DEF Parts, EnterStage, TaskHomes, Registry, Gates, MainStage,
      Teardowns, PanicsCounted, Drained, Verdict, Reports, Failure, Outcome
<1>19. CASE CloseGate
  BY <1>19 DEF Parts, CloseGate, TaskHomes, Registry, Stage, Gates, MainStage,
    Teardowns, PanicsCounted, Drained, Verdict, Reports, Failure, Outcome
<1>20. CASE CancelStage
  BY <1>20 DEF Parts, CancelStage, TaskHomes, Registry, Stage, Gates, MainStage,
    Teardowns, PanicsCounted, Drained, Verdict, Reports, Failure, Outcome
<1>21. CASE TrackerDrained
  <2>1. Drained'
    <3>1. cur \notin torn
      BY <1>21 DEF TrackerDrained, Verdict, Teardowns, Stage
    <3>2. ASSUME NEW t \in Tasks, home[t] = cur PROVE st[t] \in {"left", "unwound"}
      <4>1. st[t] \in {"idle", "left", "unwound", "aborted"}
        BY <1>21, <3>2 DEF TrackerDrained, Verdict, Tracked
      <4>2. st[t] # "idle" /\ st[t] # "aborted"
        BY <1>21, <3>1, <3>2 DEF TrackerDrained, Verdict, TaskHomes, Teardowns, Stage
      <4> QED
        BY <4>1, <4>2
    <3> QED
      BY <1>21, <3>2 DEF TrackerDrained, Verdict, AfterWait, Drained
  <2> QED
    BY <1>21, <2>1 DEF Parts, TrackerDrained, Verdict, AfterWait, TaskHomes, Registry,
      Stage, Gates, MainStage, Teardowns, PanicsCounted, Reports, Failure,
      Outcome
<1>22. CASE TrackerTimeout
  BY <1>22 DEF Parts, TrackerTimeout, AfterWait, TaskHomes, Registry, Stage,
    Gates, MainStage, Teardowns, PanicsCounted, Drained, Verdict, Reports, Failure,
    Outcome
<1>23. CASE RemoveRuntime
  <2>1. Registry'
    BY <1>23 DEF RemoveRuntime, Registry, Stage
  <2> QED
    BY <1>23, <2>1 DEF Parts, RemoveRuntime, TaskHomes, Stage, Gates, MainStage,
      Teardowns, PanicsCounted, Drained, Verdict, Reports, Failure, Outcome
<1>24. CASE StartTeardown
  BY <1>24 DEF Parts, StartTeardown, TaskHomes, Registry, Stage, Gates,
    MainStage, Teardowns, PanicsCounted, Drained, Verdict, Reports, Failure, Outcome
<1>25. CASE ReadNames
  BY <1>25 DEF Parts, ReadNames, TaskHomes, Registry, Stage, Gates, MainStage,
    Teardowns, PanicsCounted, Drained, Verdict, Reports, Failure, Outcome
<1>29. ASSUME NEW joinError \in BOOLEAN, ReadPanicked(joinError) PROVE Parts'
  <2>1. Verdict'
    <3>1. /\ UNCHANGED <<home, st, cur>>
          /\ draft'.outcome = StageOutcome(joinError)
      BY <1>29 DEF ReadPanicked, StageReports
    <3> SUFFICES ASSUME StageOutcome(joinError) = "graceful", NEW t \in Tasks,
                        home[t] = cur
                 PROVE  st[t] = "left"
      BY <3>1 DEF Verdict
    <3>2. waitOk /\ ~(counts[cur]["panicked"] > 0)
      BY DEF StageOutcome
    <3>3. st[t] \in {"left", "unwound"}
      BY <1>29, <3>2 DEF ReadPanicked, Drained
    <3> QED
      BY <3>2, <3>3 DEF PanicsCounted
  <2> QED
    BY <1>29, <2>1 DEF Parts, ReadPanicked, TaskHomes, Registry, Stage, Gates, MainStage,
      Teardowns, PanicsCounted, Drained, Reports, Failure, Outcome
<1>30. CASE ReadCompleted
  <2>1. Verdict'
    BY <1>30 DEF ReadCompleted, Verdict, StageReports
  <2> QED
    BY <1>30, <2>1 DEF Parts, ReadCompleted, TaskHomes, Registry, Stage, Gates, MainStage,
      Teardowns, PanicsCounted, Drained, Reports, Failure, Outcome
<1>31. CASE ReportStage
  <2>1. Registry'
    BY <1>31 DEF ReportStage, Registry, Stage
  <2>2. Reports'
    <3>1. cur \in RT /\ cur \in handles /\ cur \notin staged
      BY <1>31 DEF ReportStage, Stage
    <3>2. PICK new \in StageReports : /\ report' = [report EXCEPT ![cur] = new]
                                     /\ new.outcome = draft.outcome
      <4>0. StageRemaining \in SUBSET Tasks
        BY DEF StageRemaining, StageReports
      <4>1. counts[cur]["cancelled"] \in Nat
        BY <3>1, CountersTyped
      <4>2. [draft EXCEPT !.cancelled = counts[cur]["cancelled"],
                          !.remaining = StageRemaining] \in StageReports
        BY <4>0, <4>1 DEF StageReports
      <4>3. [draft EXCEPT !.cancelled = counts[cur]["cancelled"],
                          !.remaining = StageRemaining].outcome = draft.outcome
        BY DEF StageReports
      <4> QED
        BY <1>31, <4>2, <4>3 DEF ReportStage
    <3>3. report'[cur] = new /\ \A r \in RT : r # cur => report'[r] = report[r]
      BY <3>1, <3>2
    <3>4. new # None
      BY RuntimeAssumption
    <3>5. new.outcome = "graceful" => \A t \in Tasks : home[t] = cur => st[t] = "left"
      BY <1>31, <3>2 DEF ReportStage, Verdict
    <3>6. /\ UNCHANGED <<home, st, handles>>
          /\ staged' = staged \cup {cur}
      BY <1>31 DEF ReportStage
    <3> SUFFICES ASSUME NEW r \in RT
                 PROVE  /\ report'[r] # None => r \in staged' /\ r \in handles'
                        /\ r \in staged' /\ r \in handles' => report'[r] # None
                        /\ report'[r] # None /\ report'[r].outcome = "graceful" =>
                              \A t \in Tasks : home'[t] = r => st'[t] = "left"
      BY Zenon DEF Reports
    <3>7. CASE r = cur
      <4>1. report'[r] = new
        BY <3>3, <3>7
      <4> QED
        BY <3>1, <3>4, <3>5, <3>6, <3>7, <4>1
    <3>8. CASE r # cur
      <4>1. report'[r] = report[r]
        BY <3>3, <3>8
      <4> QED
        BY <3>6, <3>8, <4>1 DEF Reports
    <3> QED
      BY <3>7, <3>8
  <2>3. Outcome'
    BY <1>31 DEF ReportStage, Outcome, Failure
  <2> QED
    BY <1>31, <2>1, <2>2, <2>3 DEF Parts, ReportStage, TaskHomes, Stage, Gates,
      MainStage, Teardowns, PanicsCounted, Drained, Verdict, Failure
<1>32. ASSUME NEW t \in Tasks, Deregister(t) PROVE Parts'
  BY <1>32 DEF Parts, Deregister, TaskHomes, Registry, Stage, Gates, MainStage,
    Teardowns, PanicsCounted, Drained, Verdict, Reports, Failure, Outcome
<1>26. CASE TakeMain
  <2>1. Registry'
    BY <1>26 DEF TakeMain, Registry, Stage
  <2>2. Teardowns'
    BY <1>26 DEF TakeMain, Teardowns, Stage, Registry
  <2> QED
    BY <1>26, <2>1, <2>2 DEF Parts, TakeMain, TaskHomes, Stage, Gates,
      MainStage, PanicsCounted, Drained, Verdict, Reports, Failure, Outcome
<1>27. CASE Conclude
  <2>1. Outcome'
    <3> SUFFICES ASSUME outcome' = "graceful", NEW r \in handles
                 PROVE  report[r] # None /\ report[r].outcome = "graceful"
      BY <1>27 DEF Conclude, Outcome
    <3>1. StageOutcomes \subseteq {"graceful"}
      BY <1>27 DEF Conclude
    <3>2. r \in RT /\ report[r] # None
      BY <1>27 DEF Conclude, Reports, Stage
    <3>3. report[r].outcome \in StageOutcomes
      BY <3>2 DEF StageOutcomes
    <3> QED
      BY <3>1, <3>2, <3>3
  <2> QED
    BY <1>27, <2>1 DEF Parts, Conclude, TaskHomes, Registry, Stage, Gates,
      MainStage, Teardowns, PanicsCounted, Drained, Verdict, Reports, Failure
<1>28. CASE UNCHANGED vars
  BY <1>28 DEF vars, Parts, TaskHomes, Registry, Stage, Gates, MainStage,
    Teardowns, PanicsCounted, Drained, Verdict, Reports, Failure, Outcome
<1> QED
  BY <1>1, <1>2, <1>3, <1>4, <1>5, <1>6, <1>7, <1>8, <1>9, <1>10, <1>11, <1>12,
    <1>13, <1>14, <1>15, <1>16, <1>17, <1>18, <1>19, <1>20, <1>21, <1>22, <1>23,
    <1>24, <1>25, <1>26, <1>27, <1>28, <1>29, <1>30, <1>31, <1>32
    DEF Next, Application, TaskSteps, GuardSteps, Coordinator

\* The initial state: Main registered, nothing spawned, no shutdown.
LEMMA InitIInv == Init => IInv
<1> SUFFICES ASSUME Init PROVE IInv
  OBVIOUS
<1> USE RuntimeAssumption DEF Init, RT
<1>1. TypeOK
  <2>1. counts \in [RT -> [Counters -> Nat]]
    <3>1. [c \in Counters |-> 0] \in [Counters -> Nat]
      OBVIOUS
    <3> QED
      BY <3>1
  <2>2. report \in [RT -> StageReports \cup {None}] /\ draft \in StageReports
    BY DEF BlankReport, StageReports
  <2>3. st \in [Tasks -> TaskStates] /\ home \in [Tasks -> RT \cup {None}]
    BY DEF TaskStates
  <2>4. accepting \in [RT -> BOOLEAN] /\ cancel \in [RT -> BOOLEAN]
    OBVIOUS
  <2>5. /\ runtimes \subseteq RT /\ handles \subseteq RT /\ torn \subseteq RT
        /\ cur \in RT \cup {None} /\ omitted \subseteq RT /\ staged \subseteq RT
    OBVIOUS
  <2>6. phase \in Phases /\ errPc \in 0..3 /\ outcome \in Outcomes \cup {"none"}
    BY DEF Phases
  <2> QED
    BY <2>1, <2>2, <2>3, <2>4, <2>5, <2>6 DEF TypeOK
<1>2. TaskHomes /\ Registry /\ Stage /\ Gates
  BY DEF TaskHomes, Registry, Stage, Gates, Beginning, InStage, GateShut, Ending
<1>3. MainStage /\ Teardowns /\ PanicsCounted /\ Drained /\ Verdict
  BY DEF MainStage, Teardowns, PanicsCounted, Drained, Verdict, Ending
<1>4. Reports /\ Failure /\ Outcome
  BY DEF Reports, Failure, Outcome
<1> QED
  BY <1>1, <1>2, <1>3, <1>4 DEF IInv, Parts

\* IInv is inductive, hence an invariant of every behaviour.
LEMMA Invariance == Spec => []IInv
<1>1. IInv /\ [Next]_vars => IInv'
  BY TypeStep, PartsStep DEF IInv
<1> QED
  BY InitIInv, <1>1, PTL DEF Spec

----------------------------------------------------------------------------
(* The order of stages.                                                    *)

\* The runtime whose stage is under way has its turn: those declared before it
\* are over.
Turn ==
    phase \in InStage /\ cur # Main =>
        \A i \in 1..Len(Orders) :
            Orders[i] = cur /\ (\A k \in 1..(i - 1) : Orders[k] # cur)
                => \A j \in 1..(i - 1) : Orders[j] \in staged \cup {Main}

\* ... and so are all declared ones if it is not among them.
OmittedTurn ==
    phase \in InStage /\ cur # Main /\ (\A i \in 1..Len(Orders) : Orders[i] # cur)
        => DeclaredStaged

OrderInv == Turn /\ DeclaredOrderKept /\ OmittedTurn /\ OmittedAfterDeclared

\* Stages are entered in turn, and only the stage under way is cancelled.
LEMMA OrderStep == IInv /\ OrderInv /\ [Next]_vars => OrderInv'
<1> SUFFICES ASSUME TypeOK, Stage, Turn, DeclaredOrderKept, OmittedTurn,
                    OmittedAfterDeclared, [Next]_vars PROVE OrderInv'
  BY DEF IInv, Parts, OrderInv
<1> USE RuntimeAssumption DEF OrderInv, RT, Phases, InStage, TypeOK, DeclaredStaged
<1>1. ASSUME UNCHANGED <<cur, cancel, staged>>, phase' \in InStage => phase \in InStage
      PROVE  OrderInv'
  BY <1>1 DEF Turn, DeclaredOrderKept, OmittedTurn, OmittedAfterDeclared
<1>2. CASE Application \/ TaskSteps
  <2>1. UNCHANGED <<phase, cur, cancel, staged>>
    BY <1>2 DEF Application, TaskSteps, Register, Spawn, RequestShutdown,
      RequestShutdownWithError, OsSignal, StartBlocking, Complete, Panic, GuardSteps,
      Deregister,
      StoreFailed, RequestAfterPanic, DropTask, Leave, taskFrame, stageVars
  <2> QED
    BY <1>1, <2>1
<1>3. CASE ObserveSignal \/ ObserveRequest \/ BeginShutdown \/ PlanStages
  BY <1>1, <1>3 DEF ObserveSignal, ObserveRequest, BeginShutdown, PlanStages
<1>4. ASSUME NEW r \in RT, SkipStage(r) PROVE OrderInv'
  BY <1>4 DEF SkipStage, Turn, DeclaredOrderKept, OmittedTurn, OmittedAfterDeclared
<1>5. ASSUME NEW r \in RT, EnterStage(r) PROVE OrderInv'
  <2>1. ASSUME r # Main, NEW i \in 1..Len(Orders), Orders[i] = r,
               \A k \in 1..(i - 1) : Orders[k] # r, NEW j \in 1..(i - 1)
        PROVE  Orders[j] \in staged \cup {Main}
    <3>1. CASE DeclaredStaged
      BY <2>1, <3>1 DEF DeclaredStaged
    <3>2. CASE DeclaredNext(r)
      <4>1. PICK n \in 1..Len(Orders) : /\ Orders[n] = r
                                        /\ \A k \in 1..(n - 1) : Orders[k] \in staged \cup {Main}
        BY <3>2 DEF DeclaredNext
      <4>2. i <= n
        BY <2>1, <4>1
      <4> QED
        BY <2>1, <4>1, <4>2
    <3> QED
      BY <1>5, <2>1, <3>1, <3>2 DEF EnterStage, StageIsNext
  <2>2. Turn'
    BY <1>5, <2>1 DEF EnterStage, Turn
  <2>3. OmittedTurn'
    BY <1>5 DEF EnterStage, StageIsNext, DeclaredNext, OmittedTurn
  <2> QED
    BY <1>5, <2>2, <2>3 DEF EnterStage, DeclaredOrderKept, OmittedAfterDeclared
<1>6. CASE CancelStage
  <2>1. Turn'
    BY <1>6 DEF CancelStage, Turn
  <2>2. OmittedTurn' /\ OmittedAfterDeclared'
    BY <1>6 DEF CancelStage, OmittedTurn, OmittedAfterDeclared
  <2> QED
    <3> SUFFICES ASSUME NEW i \in 1..Len(Orders), NEW j \in 1..Len(Orders), j < i,
                        Orders[j] # Main, Orders[i] # Main, cancel'[Orders[i]],
                        \A k \in 1..(i - 1) : Orders[k] # Orders[i]
                 PROVE  Orders[j] \in staged
      BY <1>6, <2>1, <2>2 DEF CancelStage, DeclaredOrderKept
    <3>1. CASE Orders[i] = cur
      <4>1. phase \in InStage /\ cur # Main /\ j \in 1..(i - 1)
        BY <1>6, <3>1 DEF CancelStage
      <4>2. Orders[j] \in staged \cup {Main}
        BY <3>1, <4>1 DEF Turn
      <4> QED
        BY <4>2
    <3>2. CASE Orders[i] # cur
      <4>1. cancel[Orders[i]]
        BY <1>6, <3>2 DEF CancelStage
      <4> QED
        BY <4>1 DEF DeclaredOrderKept
    <3> QED
      BY <3>1, <3>2
<1>7. CASE CloseGate \/ TrackerDrained \/ TrackerTimeout \/ RemoveRuntime \/ StartTeardown
  BY <1>1, <1>7 DEF CloseGate, TrackerDrained, TrackerTimeout, AfterWait, RemoveRuntime,
    StartTeardown
<1>11. CASE ReadNames \/ ReadCompleted \/ \E joinError \in BOOLEAN : ReadPanicked(joinError)
  BY <1>1, <1>11 DEF ReadNames, ReadCompleted, ReadPanicked
<1>8. CASE ReportStage
  BY <1>8 DEF ReportStage, Turn, DeclaredOrderKept, OmittedTurn, OmittedAfterDeclared
<1>9. CASE TakeMain \/ Conclude
  BY <1>1, <1>9 DEF TakeMain, Conclude
<1>10. CASE UNCHANGED vars
  BY <1>1, <1>10 DEF vars, stageVars
<1> QED
  BY <1>2, <1>3, <1>4, <1>5, <1>6, <1>7, <1>8, <1>9, <1>10, <1>11
    DEF Next, Coordinator

----------------------------------------------------------------------------
(* The numbers of the reports.                                             *)

\* However many tasks an application has, those spawned so far are finitely many.
BalanceInv == CountersBalance /\ \A r \in RT : IsFiniteSet(TasksOf(r))

\* The guard's count takes a task from the uncounted ones.
LEMMA CountBalances ==
    ASSUME TypeOK, BalanceInv, NEW t \in Tasks, home[t] \in RT, st[t] \in UncountedStates,
           NEW field \in Counters, NEW next, next \notin UncountedStates,
           Count(t, field, next)
    PROVE  BalanceInv'
<1>1. counts \in [RT -> [Counters -> Nat]] /\ st \in [Tasks -> TaskStates]
  BY DEF TypeOK
<1>2. \A r \in RT : TasksOf(r)' = TasksOf(r)
  BY DEF Count, TasksOf
<1> SUFFICES ASSUME NEW r \in RT
             PROVE  Total(counts'[r]) + Cardinality(Uncounted(r)') = Cardinality(TasksOf(r))
  BY <1>2 DEF BalanceInv, CountersBalance
<1>3. /\ counts[r]["completed"] \in Nat /\ counts[r]["cancelled"] \in Nat
      /\ counts[r]["panicked"] \in Nat
  BY <1>1
<1>4. IsFiniteSet(Uncounted(r)) /\ Cardinality(Uncounted(r)) \in Nat
  <2>1. Uncounted(r) \in SUBSET TasksOf(r)
    BY DEF Uncounted, TasksOf
  <2>2. IsFiniteSet(TasksOf(r))
    BY DEF BalanceInv
  <2> QED
    BY <2>1, <2>2, FS_Subset, FS_CardinalityType
<1>5. Total(counts[r]) + Cardinality(Uncounted(r)) = Cardinality(TasksOf(r))
  BY DEF BalanceInv, CountersBalance
<1>6. CASE r = home[t]
  <2>1. Uncounted(r)' = Uncounted(r) \ {t} /\ t \in Uncounted(r)
    BY <1>1, <1>6 DEF Count, Uncounted
  <2>2. Cardinality(Uncounted(r)') = Cardinality(Uncounted(r)) - 1
    BY <1>4, <2>1, FS_RemoveElement
  <2>3. counts'[r] = [counts[r] EXCEPT ![field] = @ + 1]
    BY <1>1, <1>6 DEF Count
  <2>4. counts[r] \in [Counters -> Nat]
    BY <1>1
  <2> HIDE DEF Counters
  <2>5. counts'[r][field] = counts[r][field] + 1
        /\ \A c \in Counters \ {field} : counts'[r][c] = counts[r][c]
    BY <2>3, <2>4
  <2> USE DEF Counters
  <2> QED
    BY <1>3, <1>4, <1>5, <2>2, <2>5 DEF Total
<1>7. CASE r # home[t]
  <2>1. Uncounted(r)' = Uncounted(r)
    BY <1>1, <1>7 DEF Count, Uncounted
  <2>2. counts'[r] = counts[r]
    BY <1>1, <1>7 DEF Count
  <2> QED
    BY <1>5, <2>1, <2>2
<1> QED
  BY <1>6, <1>7

\* Every step of the code keeps the balance.
LEMMA BalanceStep == IInv /\ BalanceInv /\ [Next]_vars => BalanceInv'
<1> SUFFICES ASSUME TypeOK, TaskHomes, BalanceInv, [Next]_vars PROVE BalanceInv'
  BY DEF IInv, Parts
<1> USE DEF UncountedStates, ActiveStates, TrackedStates, TaskStates, GoneStates
<1>1. ASSUME UNCHANGED <<home, counts>>,
             \A t \in Tasks : st'[t] \in UncountedStates <=> st[t] \in UncountedStates
      PROVE  BalanceInv'
  <2>1. \A r : Uncounted(r)' = Uncounted(r) /\ TasksOf(r)' = TasksOf(r)
    BY <1>1 DEF Uncounted, TasksOf
  <2> QED
    BY <1>1, <2>1 DEF BalanceInv, CountersBalance
<1>2. ASSUME NEW r \in Runtimes, Register(r) PROVE BalanceInv'
  BY <1>1, <1>2 DEF Register, taskVars
<1>3. ASSUME NEW t \in Tasks, NEW r \in RT, Spawn(t, r) PROVE BalanceInv'
  <2>1. home[t] = None /\ home' = [home EXCEPT ![t] = r] /\ counts' = counts
        /\ home \in [Tasks -> RT \cup {None}] /\ st \in [Tasks -> TaskStates]
        /\ st[t] = "idle"
    BY <1>3 DEF Spawn, TaskHomes, TypeOK
  <2>2. None \notin RT
    BY RuntimeAssumption
  <2> SUFFICES ASSUME NEW q \in RT
               PROVE  /\ IsFiniteSet(TasksOf(q)')
                      /\ Total(counts[q]) + Cardinality(Uncounted(q)')
                             = Cardinality(TasksOf(q)')
    BY <2>1 DEF BalanceInv, CountersBalance
  <2>3. /\ IsFiniteSet(TasksOf(q))
        /\ Total(counts[q]) + Cardinality(Uncounted(q)) = Cardinality(TasksOf(q))
    BY DEF BalanceInv, CountersBalance
  <2>4. Total(counts[q]) \in Nat
    BY DEF TypeOK, Total
  <2>5. IsFiniteSet(Uncounted(q)) /\ Cardinality(Uncounted(q)) \in Nat
    <3>1. Uncounted(q) \in SUBSET TasksOf(q)
      BY DEF Uncounted, TasksOf
    <3> QED
      BY <2>3, <3>1, FS_Subset, FS_CardinalityType
  <2>6. CASE q = r
    <3>1. TasksOf(q)' = TasksOf(q) \cup {t} /\ t \notin TasksOf(q)
      BY <2>1, <2>2, <2>6 DEF TasksOf
    <3>2. Uncounted(q)' = Uncounted(q) \cup {t} /\ t \notin Uncounted(q)
      BY <1>3, <2>1, <2>6 DEF Spawn, Uncounted
    <3>3. Cardinality(TasksOf(q)') = Cardinality(TasksOf(q)) + 1 /\ IsFiniteSet(TasksOf(q)')
      BY <2>3, <3>1, FS_AddElement
    <3>4. Cardinality(Uncounted(q)') = Cardinality(Uncounted(q)) + 1
      BY <2>5, <3>2, FS_AddElement
    <3> QED
      BY <2>3, <2>4, <2>5, <3>3, <3>4
  <2>7. CASE q # r
    <3>1. TasksOf(q)' = TasksOf(q)
      BY <2>1, <2>2, <2>7 DEF TasksOf
    <3>2. Uncounted(q)' = Uncounted(q)
      BY <1>3, <2>1, <2>2, <2>7 DEF Spawn, Uncounted
    <3> QED
      BY <2>3, <3>1, <3>2
  <2> QED
    BY <2>6, <2>7
<1>4. CASE RequestShutdown \/ RequestShutdownWithError \/ OsSignal
  BY <1>1, <1>4 DEF RequestShutdown, RequestShutdownWithError, OsSignal, taskVars
<1>5. ASSUME NEW t \in Tasks, StartBlocking(t) \/ GuardSteps(t) \/ Leave(t)
      PROVE BalanceInv'
  BY <1>1, <1>5 DEF StartBlocking, GuardSteps, Deregister, StoreFailed, RequestAfterPanic, Leave,
     TypeOK
<1>6. ASSUME NEW t \in Tasks, Complete(t) \/ Panic(t) \/ DropTask(t) PROVE BalanceInv'
  <2>1. home[t] \in RT /\ st[t] \in UncountedStates
    BY <1>6 DEF Complete, Panic, DropTask, TaskHomes, TypeOK
  <2>2. PICK field \in Counters, next \in {"returning", "panicking", "dropping"} :
            Count(t, field, next)
    BY <1>6 DEF Complete, Panic, DropTask
  <2> QED
    BY <2>1, <2>2, CountBalances
<1>7. CASE Coordinator
  <2>1. UNCHANGED <<home, st, counts>>
    BY <1>7 DEF Coordinator, ObserveSignal, ObserveRequest, BeginShutdown, PlanStages,
      SkipStage, EnterStage, CloseGate, CancelStage, TrackerDrained, TrackerTimeout,
      AfterWait, RemoveRuntime, StartTeardown, ReadNames, ReadPanicked, ReadCompleted,
      ReportStage, TakeMain, Conclude, appFrame
  <2> QED
    BY <1>1, <2>1
<1>8. CASE UNCHANGED vars
  BY <1>1, <1>8 DEF vars, taskVars
<1> QED
  BY <1>2, <1>3, <1>4, <1>5, <1>6, <1>7, <1>8 DEF Next, Application, TaskSteps

----------------------------------------------------------------------------
(* The names in the reports.                                               *)

\* What is active or has been dropped after names were read is among them.
NamesRead ==
    phase \in {"teardown"} \cup Reading /\ cur # Main =>
        \A t \in Tasks : home[t] = cur /\ st[t] \in ActiveStates \cup {"dropped", "aborted"}
                            => t \in before

SeenActive ==
    phase \in Reading \ {"read_names"} =>
        \A t \in Tasks : home[t] = cur /\ st[t] \in ActiveStates => t \in draft.remaining

\* Main's tasks run on until every stage has been reported.
MainStands == Main \in torn => phase \in {"outcome", "done"}

NamedInv == NamesRead /\ SeenActive /\ MainStands /\ UnfinishedTasksNamed

\* Every step of the code keeps the names complete.
LEMMA NamedStep == IInv /\ NamedInv /\ [Next]_vars => NamedInv'
<1> SUFFICES ASSUME TypeOK, TaskHomes, Stage, Gates, Teardowns, Verdict, Reports,
                    NamesRead, SeenActive, MainStands, UnfinishedTasksNamed, [Next]_vars
             PROVE  NamedInv'
  BY DEF IInv, Parts, NamedInv
<1> USE RuntimeAssumption DEF NamedInv, RT, UncountedStates, ActiveStates,
    TrackedStates, TaskStates, GoneStates, Phases, InStage, GateShut, TypeOK
<1>1. ASSUME UNCHANGED <<home, cur, before, draft, report>>, MainStands',
             phase' \in {"teardown"} \cup Reading /\ cur # Main
                => phase \in {"teardown"} \cup Reading,
             phase' \in Reading \ {"read_names"} => phase \in Reading \ {"read_names"},
             \A t \in Tasks :
                 /\ st'[t] \in ActiveStates => st[t] \in ActiveStates
                 /\ st'[t] \in {"dropped", "aborted"} =>
                       st[t] \in ActiveStates \cup {"dropped", "aborted"}
      PROVE  NamedInv'
  BY <1>1 DEF NamesRead, SeenActive, UnfinishedTasksNamed
<1>2. ASSUME NEW r \in Runtimes, Register(r) PROVE NamedInv'
  BY <1>1, <1>2 DEF MainStands, Register, taskVars, stageVars
<1>3. ASSUME NEW t \in Tasks, NEW r \in RT, Spawn(t, r) PROVE NamedInv'
  <2>1. report[r] = None
    BY <1>3 DEF Spawn, Reports, Gates
  <2>2. phase \in {"teardown"} \cup Reading => r # cur
    BY <1>3 DEF Spawn, Gates
  <2>3. NamesRead' /\ SeenActive'
    BY <1>3, <2>2 DEF Spawn, stageVars, NamesRead, SeenActive
  <2>4. UnfinishedTasksNamed'
    BY <1>3, <2>1 DEF Spawn, stageVars, UnfinishedTasksNamed
  <2> QED
    BY <1>3, <2>3, <2>4 DEF Spawn, stageVars, MainStands
<1>4. CASE RequestShutdown \/ RequestShutdownWithError \/ OsSignal
  BY <1>1, <1>4 DEF MainStands, RequestShutdown, RequestShutdownWithError, OsSignal,
     taskVars, stageVars
<1>5. ASSUME NEW t \in Tasks, StartBlocking(t) \/ GuardSteps(t) \/ Leave(t)
      PROVE NamedInv'
  BY <1>1, <1>5 DEF MainStands, StartBlocking, GuardSteps, Deregister, StoreFailed, RequestAfterPanic,
    Leave,
     taskFrame, stageVars
<1>6. ASSUME NEW t \in Tasks, Complete(t) \/ Panic(t) \/ DropTask(t) PROVE NamedInv'
  BY <1>1, <1>6 DEF MainStands, Complete, Panic, DropTask, Count, taskFrame, stageVars
<1>7. CASE ObserveSignal \/ ObserveRequest \/ BeginShutdown \/ PlanStages
  BY <1>1, <1>7 DEF MainStands, ObserveSignal, ObserveRequest, BeginShutdown, PlanStages, appFrame
<1>8. ASSUME NEW r \in RT, SkipStage(r) PROVE NamedInv'
  BY <1>1, <1>8 DEF MainStands, SkipStage, appFrame
<1>9. ASSUME NEW r \in RT, EnterStage(r) PROVE NamedInv'
  BY <1>9 DEF MainStands, EnterStage, appFrame, NamesRead, SeenActive,
     UnfinishedTasksNamed
<1>10. CASE CloseGate \/ CancelStage \/ TrackerDrained \/ TrackerTimeout \/ StartTeardown
  BY <1>1, <1>10 DEF MainStands, Stage, CloseGate, CancelStage, TrackerDrained,
     TrackerTimeout, AfterWait,
    StartTeardown, appFrame
<1>11. CASE RemoveRuntime
  <2>1. \A t \in Tasks : home[t] = cur => st[t] \notin {"dropped", "aborted"}
    BY <1>11 DEF RemoveRuntime, Teardowns, Stage
  <2> QED
    BY <1>11, <2>1 DEF MainStands, RemoveRuntime, Active, appFrame, NamesRead,
      SeenActive, UnfinishedTasksNamed
<1>15. CASE ReadNames
  <2>1. draft'.remaining = Active(cur)
    BY <1>15 DEF ReadNames, StageReports
  <2> QED
    BY <1>15, <2>1 DEF ReadNames, Active, appFrame, MainStands, NamesRead, SeenActive,
      UnfinishedTasksNamed
<1>16. CASE ReadCompleted \/ \E joinError \in BOOLEAN : ReadPanicked(joinError)
  <2>1. draft'.remaining = draft.remaining
    BY <1>16 DEF ReadCompleted, ReadPanicked, StageReports
  <2> QED
    BY <1>16, <2>1 DEF ReadCompleted, ReadPanicked, appFrame, MainStands, NamesRead,
      SeenActive, UnfinishedTasksNamed
<1>12. CASE ReportStage
  <2>1. cur \in RT /\ cur \notin staged
    BY <1>12 DEF ReportStage, Stage
  <2>2. PICK new : /\ report' = [report EXCEPT ![cur] = new]
                   /\ new.remaining = StageRemaining
    <3>1. [draft EXCEPT !.cancelled = counts[cur]["cancelled"],
                        !.remaining = StageRemaining].remaining = StageRemaining
      BY DEF StageReports
    <3> QED
      BY <1>12, <3>1 DEF ReportStage
  <2>3. ASSUME NEW t \in Tasks, home[t] = cur, st[t] \in ActiveStates
        PROVE  t \in StageRemaining
    BY <1>12, <2>3 DEF ReportStage, StageRemaining, SeenActive
  <2>4. ASSUME NEW t \in Tasks, home[t] = cur, st[t] \in {"dropped", "aborted"}
        PROVE  StageRemaining # {}
    <3>1. cur # Main /\ t \in before
      <4>1. cur # Main
        BY <1>12, <2>1, <2>4 DEF ReportStage, MainStands, Teardowns
      <4> QED
        BY <1>12, <2>4, <4>1 DEF ReportStage, NamesRead
    <3>2. draft.outcome # "graceful"
      BY <1>12, <2>4 DEF ReportStage, Verdict
    <3> QED
      BY <3>1, <3>2 DEF StageRemaining
  <2>5. /\ report'[cur] = new /\ \A r \in RT : r # cur => report'[r] = report[r]
        /\ UNCHANGED <<home, st>>
    BY <1>12, <2>1, <2>2 DEF ReportStage, appFrame
  <2>6. UnfinishedTasksNamed'
    BY <2>2, <2>3, <2>4, <2>5 DEF UnfinishedTasksNamed
  <2>7. NamesRead' /\ SeenActive'
    BY <1>12 DEF ReportStage, NamesRead, SeenActive
  <2> QED
    BY <1>12, <2>6, <2>7 DEF ReportStage, MainStands
<1>13. CASE TakeMain \/ Conclude
  BY <1>1, <1>13 DEF MainStands, TakeMain, Conclude, appFrame
<1>14. CASE UNCHANGED vars
  BY <1>1, <1>14 DEF MainStands, vars, taskVars, stageVars
<1> QED
  BY <1>2, <1>3, <1>4, <1>5, <1>6, <1>7, <1>8, <1>9, <1>10, <1>11, <1>12, <1>13, <1>14,
     <1>15, <1>16 DEF Next, Application, TaskSteps, Coordinator

----------------------------------------------------------------------------
(* The numbers in the reports.                                             *)

\* Adding up: what has been read so far and what is still to be read is
\* together enough, and nothing read is more than the counter shows.
TotalsRead ==
    LET live == counts[cur]
        missing == Cardinality(TasksOf(cur)) - Cardinality(draft.remaining)
    IN  /\ phase = "read_panicked" =>
              live["panicked"] + live["completed"] + live["cancelled"] >= missing
        /\ phase = "read_completed" =>
              draft.panicked + live["completed"] + live["cancelled"] >= missing
        /\ phase = "read_cancelled" =>
              draft.panicked + draft.completed + live["cancelled"] >= missing
        /\ phase \in {"read_completed", "read_cancelled"} =>
              draft.panicked <= live["panicked"]
        /\ phase = "read_cancelled" => draft.completed <= live["completed"]

\* The names are those of tasks of the stage, and a graceful one has none.
NamesOwn ==
    /\ phase \in Reading \ {"read_names"} => draft.remaining \subseteq TasksOf(cur)
    /\ IF phase \in {"teardown"} \cup Reading THEN before \subseteq TasksOf(cur)
                                            ELSE before = {}
    /\ phase \in {"read_completed", "read_cancelled"} /\ draft.outcome = "graceful" =>
          draft.remaining = {} /\ draft.panicked = 0

TotalsInv == TotalsRead /\ NamesOwn /\ TotalsBounded

\* Every step of the code keeps the reports' numbers within their bounds.
LEMMA TotalsStep == IInv /\ BalanceInv /\ TotalsInv /\ [Next]_vars => TotalsInv'
<1> SUFFICES ASSUME TypeOK, TaskHomes, Stage, Gates, Reports, BalanceInv, TotalsRead,
                    NamesOwn, TotalsBounded, [Next]_vars
             PROVE  TotalsInv'
  BY DEF IInv, Parts, TotalsInv
<1> DEFINE n == Cardinality(TasksOf(cur))
           m == Cardinality(draft.remaining)
\* The numbers are numbers.
<1>a. ASSUME NEW r \in RT
      PROVE  /\ Cardinality(TasksOf(r)) \in Nat
             /\ \A S \in SUBSET TasksOf(r) : Cardinality(S) \in Nat
             /\ \A c \in Counters : counts[r][c] \in Nat
  BY FS_Subset, FS_CardinalityType DEF BalanceInv, TypeOK
<1>b. ASSUME phase \in Reading
      PROVE  /\ cur \in RT /\ n \in Nat
             /\ \A c \in Counters : counts[cur][c] \in Nat
             /\ phase # "read_names" => m \in Nat
  <2>1. cur \in RT
    BY <1>b DEF Stage, InStage, TypeOK
  <2>2. phase # "read_names" => draft.remaining \in SUBSET TasksOf(cur)
    BY <1>b DEF NamesOwn
  <2> QED
    BY <1>a, <2>1, <2>2
<1>c. draft.panicked \in Nat /\ draft.completed \in Nat
  BY DEF TypeOK, StageReports
<1> HIDE DEF n, m
\* What the application and the tasks do: counters only grow, and no task
\* joins a runtime whose gate is shut.
<1>1. ASSUME UNCHANGED stageVars,
             \A r \in RT, c \in Counters : counts'[r][c] \in Nat /\ counts'[r][c] >= counts[r][c],
             phase \in {"teardown"} \cup Reading => TasksOf(cur)' = TasksOf(cur),
             \A r \in RT : report[r] # None => TasksOf(r)' = TasksOf(r)
      PROVE  TotalsInv'
  <2>1. TotalsRead'
    <3>1. CASE phase \notin Reading
      BY <1>1, <3>1 DEF TotalsRead, stageVars
    <3>2. CASE phase \in Reading
      <4>1. UNCHANGED <<phase, draft, cur>> /\ TasksOf(cur)' = TasksOf(cur)
        BY <1>1, <3>2 DEF stageVars
      <4>2. /\ counts[cur]["completed"] \in Nat /\ counts[cur]["panicked"] \in Nat
            /\ counts[cur]["cancelled"] \in Nat /\ cur \in RT
        BY <1>b, <3>2
      <4>3. /\ counts'[cur]["completed"] \in Nat /\ counts'[cur]["panicked"] \in Nat
            /\ counts'[cur]["cancelled"] \in Nat
            /\ counts'[cur]["completed"] >= counts[cur]["completed"]
            /\ counts'[cur]["panicked"] >= counts[cur]["panicked"]
            /\ counts'[cur]["cancelled"] >= counts[cur]["cancelled"]
        BY <1>1, <4>2
      <4> QED
        BY <1>b, <1>c, <3>2, <4>1, <4>2, <4>3 DEF TotalsRead, n, m
    <3> QED
      BY <3>1, <3>2
  <2>2. NamesOwn'
    BY <1>1 DEF NamesOwn, stageVars
  <2>3. TotalsBounded'
    BY <1>1 DEF TotalsBounded, stageVars
  <2> QED
    BY <2>1, <2>2, <2>3 DEF TotalsInv
\* What the coordinator does outside the reading.
<1>2. ASSUME UNCHANGED <<home, counts, report>>, phase' \notin Reading \ {"read_names"},
             NamesOwn'
      PROVE  TotalsInv'
  <2>1. \A r : TasksOf(r)' = TasksOf(r)
    BY <1>2 DEF TasksOf
  <2>2. TotalsBounded'
    BY <1>2, <2>1 DEF TotalsBounded
  <2>3. TotalsRead'
    BY <1>2 DEF TotalsRead
  <2> QED
    BY <1>2, <2>2, <2>3 DEF TotalsInv
<1>3. CASE Application \/ TaskSteps
  <2>1. UNCHANGED stageVars
    BY <1>3 DEF Application, TaskSteps, Register, Spawn, RequestShutdown,
      RequestShutdownWithError, OsSignal, StartBlocking, Complete, Panic, GuardSteps,
      Deregister, StoreFailed, RequestAfterPanic, DropTask, Leave, taskFrame
  <2>2. CASE \E t \in Tasks, r \in RT : Spawn(t, r)
    <3>1. PICK t \in Tasks, r \in RT : Spawn(t, r)
      BY <2>2
    <3>2. home[t] = None /\ home' = [home EXCEPT ![t] = r] /\ counts' = counts
      BY <3>1 DEF Spawn, TaskHomes
    <3>3. home \in [Tasks -> RT \cup {None}] /\ None \notin RT
      BY RuntimeAssumption DEF TypeOK
    <3>4. \A q \in RT : q # r => TasksOf(q)' = TasksOf(q)
      BY <3>2, <3>3 DEF TasksOf
    <3>5. report[r] = None
      BY <3>1 DEF Spawn, Reports, Gates
    <3>6. phase \in {"teardown"} \cup Reading => r # cur /\ cur \in RT
      BY <3>1 DEF Spawn, Gates, GateShut, Stage, InStage, TypeOK
    <3>7. \A q \in RT, c \in Counters : counts'[q][c] \in Nat /\ counts'[q][c] >= counts[q][c]
      BY <1>a, <3>2
    <3>8. phase \in {"teardown"} \cup Reading => TasksOf(cur)' = TasksOf(cur)
      BY <2>1, <3>2, <3>3, <3>6 DEF TasksOf, stageVars
    <3> QED
      BY <1>1, <2>1, <3>4, <3>5, <3>7, <3>8
  <2>3. CASE \E t \in Tasks : Complete(t) \/ Panic(t) \/ DropTask(t)
    <3>1. PICK t \in Tasks : Complete(t) \/ Panic(t) \/ DropTask(t)
      BY <2>3
    <3>2. home[t] \in RT
      BY <3>1 DEF Complete, Panic, DropTask, TaskHomes, TypeOK
    <3>3. PICK field \in Counters, next \in {"returning", "panicking", "dropping"} :
              Count(t, field, next)
      BY <3>1 DEF Complete, Panic, DropTask
    <3>4. /\ counts' \in [RT -> [Counters -> Nat]]
          /\ \A r \in RT, c \in Counters : counts'[r][c] >= counts[r][c]
      BY <3>2, <3>3, CountCounts
    <3>5. \A r : TasksOf(r)' = TasksOf(r)
      BY <3>3 DEF Count, TasksOf
    <3>6. \A r \in RT, c \in Counters : counts'[r][c] \in Nat
      BY <3>4
    <3>7. TasksOf(cur)' = TasksOf(cur)
      BY <2>1, <3>3 DEF Count, TasksOf, stageVars
    <3> QED
      BY <1>1, <2>1, <3>4, <3>5, <3>6, <3>7
  <2>4. CASE UNCHANGED <<home, counts>>
    <3>1. \A r : TasksOf(r)' = TasksOf(r)
      BY <2>4 DEF TasksOf
    <3>2. \A r \in RT, c \in Counters : counts'[r][c] \in Nat /\ counts'[r][c] >= counts[r][c]
      BY <1>a, <2>4
    <3>3. TasksOf(cur)' = TasksOf(cur)
      BY <2>1, <2>4 DEF TasksOf, stageVars
    <3> QED
      BY <1>1, <2>1, <3>1, <3>2, <3>3
  <2> QED
    BY <1>3, <2>2, <2>3, <2>4 DEF Application, TaskSteps, Register, RequestShutdown,
      RequestShutdownWithError, OsSignal, StartBlocking, GuardSteps, Deregister,
      StoreFailed, RequestAfterPanic, Leave, taskVars
<1>4. CASE \/ ObserveSignal \/ ObserveRequest \/ BeginShutdown \/ PlanStages
           \/ (\E r \in RT : SkipStage(r) \/ EnterStage(r))
           \/ CloseGate \/ CancelStage \/ TrackerDrained \/ TrackerTimeout
           \/ TakeMain \/ Conclude
  <2>1. /\ UNCHANGED <<home, counts, report, before>>
        /\ phase' \notin Reading \ {"read_names"} /\ phase' # "teardown"
        /\ phase \notin {"teardown"} \cup Reading
    BY <1>4 DEF ObserveSignal, ObserveRequest, BeginShutdown, PlanStages, SkipStage,
      EnterStage, CloseGate, CancelStage, TrackerDrained, TrackerTimeout, AfterWait,
      TakeMain, Conclude, appFrame
  <2>2. NamesOwn'
    BY <2>1 DEF NamesOwn
  <2> QED
    BY <1>2, <2>1, <2>2
<1>5. CASE RemoveRuntime \/ StartTeardown
  <2>1. /\ UNCHANGED <<home, counts, report, cur>>
        /\ phase' \in {"teardown", "read_names"}
    BY <1>5 DEF RemoveRuntime, StartTeardown, appFrame
  <2>2. TasksOf(cur)' = TasksOf(cur)
    BY <2>1 DEF TasksOf
  <2>3. before' \subseteq TasksOf(cur)
    BY <1>5 DEF RemoveRuntime, StartTeardown, NamesOwn, Active, TasksOf
  <2>4. NamesOwn'
    BY <2>1, <2>2, <2>3 DEF NamesOwn
  <2> QED
    BY <1>2, <2>1, <2>4
\* The reading itself leaves the tasks, the counters and the reports alone.
<1>d. ASSUME UNCHANGED <<home, counts, report, cur, before>>, TotalsRead', phase \in Reading,
             phase' \in Reading \ {"read_names"},
             draft'.remaining \subseteq TasksOf(cur),
             phase' # "read_panicked" /\ draft'.outcome = "graceful" =>
                draft'.remaining = {} /\ draft'.panicked = 0
      PROVE  TotalsInv'
  <2>1. \A r : TasksOf(r)' = TasksOf(r)
    BY <1>d DEF TasksOf
  <2>2. TotalsBounded'
    BY <1>d, <2>1 DEF TotalsBounded
  <2>3. NamesOwn'
    BY <1>d, <2>1 DEF NamesOwn
  <2> QED
    BY <1>d, <2>2, <2>3 DEF TotalsInv
<1>6. CASE ReadNames
  <2>1. /\ UNCHANGED <<home, counts, report, cur, before>> /\ phase = "read_names"
        /\ phase' = "read_panicked" /\ draft'.remaining = Active(cur)
    BY <1>6 DEF ReadNames, appFrame, TypeOK, StageReports
  <2>2. Active(cur) \subseteq TasksOf(cur) /\ TasksOf(cur)' = TasksOf(cur)
    BY <2>1 DEF Active, TasksOf
  <2>3. cur \in RT /\ IsFiniteSet(TasksOf(cur)) /\ IsFiniteSet(Active(cur))
    BY <1>b, <2>1, <2>2, FS_Subset DEF BalanceInv
  <2>4. Cardinality(Uncounted(cur)) <= Cardinality(Active(cur))
    <3>1. Uncounted(cur) \in SUBSET Active(cur)
      BY DEF Uncounted, Active, ActiveStates
    <3> QED
      BY <2>3, <3>1, FS_Subset
  <2>5. Total(counts[cur]) + Cardinality(Uncounted(cur)) = Cardinality(TasksOf(cur))
    BY <2>3 DEF BalanceInv, CountersBalance
  <2>6. Cardinality(Uncounted(cur)) \in Nat /\ Cardinality(Active(cur)) \in Nat
    <3>1. Uncounted(cur) \in SUBSET TasksOf(cur) /\ Active(cur) \in SUBSET TasksOf(cur)
      BY DEF Uncounted, Active, TasksOf
    <3> QED
      BY <1>a, <2>3, <3>1
  <2>7. counts[cur]["panicked"] + counts[cur]["completed"] + counts[cur]["cancelled"]
          >= Cardinality(TasksOf(cur)) - Cardinality(Active(cur))
    BY <1>a, <2>3, <2>4, <2>5, <2>6 DEF Total
  <2>8. TotalsRead'
    BY <2>1, <2>2, <2>7 DEF TotalsRead
  <2> QED
    BY <1>d, <2>1, <2>2, <2>8
<1>7. ASSUME NEW joinError \in BOOLEAN, ReadPanicked(joinError) PROVE TotalsInv'
  <2>1. /\ UNCHANGED <<home, counts, report, cur, before>> /\ phase = "read_panicked"
        /\ phase' = "read_completed" /\ draft'.remaining = draft.remaining
        /\ draft'.panicked = counts[cur]["panicked"]
        /\ draft'.outcome = StageOutcome(joinError)
    BY <1>7 DEF ReadPanicked, appFrame, TypeOK, StageReports
  <2>2. TasksOf(cur)' = TasksOf(cur)
    BY <2>1 DEF TasksOf
  <2>3. TotalsRead'
    BY <1>b, <2>1, <2>2 DEF TotalsRead
  <2>4. draft'.outcome = "graceful" => draft'.remaining = {} /\ draft'.panicked = 0
    BY <1>b, <2>1 DEF StageOutcome
  <2>5. draft'.remaining \subseteq TasksOf(cur)
    BY <2>1 DEF NamesOwn
  <2> QED
    BY <1>d, <2>1, <2>3, <2>4, <2>5
<1>8. CASE ReadCompleted
  <2>1. /\ UNCHANGED <<home, counts, report, cur, before>> /\ phase = "read_completed"
        /\ phase' = "read_cancelled" /\ draft'.remaining = draft.remaining
        /\ draft'.panicked = draft.panicked /\ draft'.outcome = draft.outcome
        /\ draft'.completed = counts[cur]["completed"]
    BY <1>8 DEF ReadCompleted, appFrame, TypeOK, StageReports
  <2>2. TasksOf(cur)' = TasksOf(cur)
    BY <2>1 DEF TasksOf
  <2>3. TotalsRead'
    BY <1>b, <2>1, <2>2 DEF TotalsRead
  <2>4. draft'.outcome = "graceful" => draft'.remaining = {} /\ draft'.panicked = 0
    BY <2>1 DEF NamesOwn
  <2>5. draft'.remaining \subseteq TasksOf(cur)
    BY <2>1 DEF NamesOwn
  <2> QED
    BY <1>d, <2>1, <2>3, <2>4, <2>5
<1>9. CASE ReportStage
  <2>1. /\ phase = "read_cancelled" /\ cur \in RT
        /\ phase' \notin {"teardown"} \cup Reading /\ before' = {}
        /\ UNCHANGED <<home, counts, cur>>
    BY <1>9, <1>b DEF ReportStage, appFrame
  <2>2. PICK new : /\ report' = [report EXCEPT ![cur] = new]
                   /\ new.remaining = StageRemaining /\ new.outcome = draft.outcome
                   /\ new["completed"] = draft.completed
                   /\ new["panicked"] = draft.panicked
                   /\ new["cancelled"] = counts[cur]["cancelled"]
    <3> DEFINE new == [draft EXCEPT !.cancelled = counts[cur]["cancelled"],
                                    !.remaining = StageRemaining]
    <3>1. /\ new.remaining = StageRemaining /\ new.outcome = draft.outcome
          /\ new["completed"] = draft.completed /\ new["panicked"] = draft.panicked
          /\ new["cancelled"] = counts[cur]["cancelled"]
      BY DEF TypeOK, StageReports
    <3>2. report' = [report EXCEPT ![cur] = new]
      BY <1>9 DEF ReportStage
    <3> HIDE DEF new
    <3> QED
      BY <3>1, <3>2
  <2>3. \A r : TasksOf(r)' = TasksOf(r)
    BY <2>1 DEF TasksOf
  <2>4. report'[cur] = new /\ \A r \in RT : r # cur => report'[r] = report[r]
    BY <2>1, <2>2 DEF TypeOK
  <2>5. StageRemaining \in SUBSET TasksOf(cur)
    BY <2>1 DEF StageRemaining, NamesOwn
  <2>6. Cardinality(StageRemaining) \in Nat /\ Cardinality(StageRemaining) >= m
    <3>1. Cardinality(StageRemaining) \in Nat
      BY <1>a, <2>1, <2>5
    <3>2. CASE draft.remaining = {}
      <4>1. m = 0
        BY <3>2, FS_EmptySet DEF m
      <4> QED
        BY <3>1, <4>1
    <3>3. CASE draft.remaining # {}
      <4>1. StageRemaining = draft.remaining
        BY <3>3 DEF StageRemaining
      <4> QED
        BY <3>1, <4>1 DEF m
    <3> QED
      BY <3>2, <3>3
  <2>7. /\ draft.panicked + draft.completed + counts[cur]["cancelled"] >= n - m
        /\ draft.panicked <= counts[cur]["panicked"]
        /\ draft.completed <= counts[cur]["completed"]
    BY <2>1 DEF TotalsRead, n, m
  <2>8. Total(counts[cur]) <= n
    <3>1. Total(counts[cur]) + Cardinality(Uncounted(cur)) = n
      BY <2>1 DEF BalanceInv, CountersBalance, n
    <3>2. Uncounted(cur) \in SUBSET TasksOf(cur)
      BY DEF Uncounted, TasksOf
    <3>3. Cardinality(Uncounted(cur)) \in Nat
      BY <1>a, <2>1, <3>2
    <3> QED
      BY <1>b, <2>1, <3>1, <3>3 DEF Total
  <2>9. /\ Total(new) <= n
        /\ Total(new) + Cardinality(new.remaining) >= n
    BY <1>b, <1>c, <2>1, <2>2, <2>6, <2>7, <2>8 DEF Total
  <2>10. new.outcome = "graceful" => new.remaining = {} /\ new.panicked = 0
    <3> SUFFICES ASSUME draft.outcome = "graceful"
                 PROVE  StageRemaining = {} /\ draft.panicked = 0
      BY <2>2
    <3> QED
      BY <2>1 DEF NamesOwn, StageRemaining
  <2>11. TotalsBounded'
    <3> SUFFICES ASSUME NEW r \in RT, report'[r] # None
                 PROVE  /\ Total(report'[r]) <= Cardinality(TasksOf(r))
                        /\ Total(report'[r]) + Cardinality(report'[r].remaining)
                              >= Cardinality(TasksOf(r))
                        /\ report'[r].outcome = "graceful" =>
                              report'[r].remaining = {} /\ report'[r].panicked = 0
      BY <2>3 DEF TotalsBounded, Total
    <3>1. CASE r = cur
      BY <2>4, <2>9, <2>10, <3>1 DEF n
    <3>2. CASE r # cur
      <4>1. report'[r] = report[r]
        BY <2>4, <3>2
      <4> QED
        BY <4>1 DEF TotalsBounded
    <3> QED
      BY <3>1, <3>2
  <2>12. TotalsRead' /\ NamesOwn'
    BY <2>1 DEF TotalsRead, NamesOwn
  <2> QED
    BY <2>11, <2>12 DEF TotalsInv
<1>10. CASE UNCHANGED vars
  <2>1. \A r : TasksOf(r)' = TasksOf(r)
    BY <1>10 DEF TasksOf, vars, taskVars
  <2> QED
    BY <1>10, <2>1 DEF vars, taskVars, stageVars, TotalsInv, TotalsRead, NamesOwn,
      TotalsBounded
<1> QED
  BY <1>3, <1>4, <1>5, <1>6, <1>7, <1>8, <1>9, <1>10 DEF Next, Coordinator

----------------------------------------------------------------------------
\* Every variable keeps its type, for any number of runtimes and tasks.
THEOREM TypeCorrect == Spec => []TypeOK
<1>1. IInv => TypeOK
  BY DEF IInv
<1> QED
  BY Invariance, <1>1, PTL

\* order_shutdown reports a graceful shutdown only if every task that spawn or
\* spawn_blocking ever accepted has returned by itself.
THEOREM GracefulCorrect == Spec => []GracefulMeansQuiescent
<1>1. IInv => GracefulMeansQuiescent
  <2> SUFFICES ASSUME TypeOK, TaskHomes, Reports, Outcome, outcome = "graceful",
                      NEW t \in Tasks
               PROVE  st[t] \in {"idle", "left"}
    BY DEF IInv, Parts, GracefulMeansQuiescent
  <2>1. CASE home[t] = None
    BY <2>1 DEF TaskHomes
  <2>2. CASE home[t] # None
    <3>1. home[t] \in handles /\ home[t] \in RT
      BY <2>2 DEF TaskHomes, TypeOK
    <3> QED
      BY <3>1 DEF Outcome, Reports
  <2> QED
    BY <2>1, <2>2
<1> QED
  BY Invariance, <1>1, PTL

\* A shutdown triggered by a panic or by request_shutdown_with_error is never
\* reported graceful or timed out, because failed is stored before
\* shutdown_requested is cancelled.
THEOREM FailureCorrect == Spec => []FailureIsReported
<1>1. IInv => FailureIsReported
  BY DEF IInv, Parts, Failure, FailureIsReported
<1> QED
  BY Invariance, <1>1, PTL

\* order_shutdown returns only after a stage for every runtime register ever
\* accepted, with an empty registry.
THEOREM StagingCorrect == Spec => []EveryRuntimeStaged
<1>1. IInv => EveryRuntimeStaged
  BY DEF IInv, Parts, Registry, Stage, Ending, EveryRuntimeStaged
<1> QED
  BY Invariance, <1>1, PTL

\* The Main runtime, which carries the shutdown itself, is cancelled only when
\* no other runtime is registered.
THEOREM MainLast == Spec => []MainCancelledLast
<1>1. IInv => MainCancelledLast
  <2> SUFFICES ASSUME Registry, Stage, MainStage, cancel[Main], NEW r \in runtimes
               PROVE  r = Main
    BY DEF IInv, Parts, MainCancelledLast
  <2>1. CASE phase \in Ending
    BY <2>1 DEF Registry, Stage
  <2>2. CASE cur = Main /\ phase \in {"await"} \cup Reading
    BY <2>2 DEF Registry, Stage, InStage
  <2> QED
    BY <2>1, <2>2 DEF MainStage
<1> QED
  BY Invariance, <1>1, PTL

\* order_shutdown cancels the runtimes in the declared order, then those the
\* order leaves out, and Main last.
THEOREM OrderCorrect == Spec => []StagesInOrder
<1>1. Init => OrderInv
  BY RuntimeAssumption DEF Init, OrderInv, Turn, DeclaredOrderKept, OmittedTurn,
     OmittedAfterDeclared, InStage, RT
<1>2. Spec => []OrderInv
  BY Invariance, OrderStep, <1>1, PTL DEF Spec
<1>3. OrderInv /\ MainCancelledLast => StagesInOrder
  BY DEF OrderInv, StagesInOrder
<1> QED
  BY <1>2, <1>3, MainLast, PTL

\* Every task accepted on a runtime is counted once or named in the runtime's
\* report, for any number of tasks and however they settle while the report's
\* fields are read one after the other.
THEOREM ReportsCorrect == Spec => []ReportsAccountForAll
<1>1. Init => BalanceInv
  <2> SUFFICES ASSUME Init PROVE BalanceInv
    OBVIOUS
  <2>1. \A r \in RT : TasksOf(r) = {} /\ Uncounted(r) = {}
    BY RuntimeAssumption DEF Init, TasksOf, Uncounted
  <2>2. \A r \in RT : counts[r]["completed"] = 0 /\ counts[r]["cancelled"] = 0
                        /\ counts[r]["panicked"] = 0
    BY DEF Init
  <2> QED
    BY <2>1, <2>2, FS_EmptySet DEF BalanceInv, CountersBalance, Total
<1>2. Spec => []BalanceInv
  BY Invariance, BalanceStep, <1>1, PTL DEF Spec
<1>3. Init => NamedInv
  BY DEF Init, NamedInv, NamesRead, SeenActive, MainStands, UnfinishedTasksNamed
<1>4. Spec => []NamedInv
  BY Invariance, NamedStep, <1>3, PTL DEF Spec
<1>5. Init => TotalsInv
  BY DEF Init, TotalsInv, TotalsRead, NamesOwn, TotalsBounded
<1>6. Spec => []TotalsInv
  BY Invariance, TotalsStep, <1>2, <1>5, PTL DEF Spec
<1>7. TypeOK /\ BalanceInv /\ NamedInv /\ TotalsInv => ReportsAccountForAll
  BY DEF BalanceInv, NamedInv, TotalsInv, ReportsAccountForAll
<1> QED
  BY <1>2, <1>4, <1>6, <1>7, TypeCorrect, PTL
=============================================================================
