--------------------------- MODULE DaemonControl ----------------------------
(***************************************************************************)
(* base/src/daemon/mod.rs and unix.rs: the commands start [-d], stop,      *)
(* restart and status of one executable, and the services they leave       *)
(* behind.  They meet in two files: .meta, which start rewrites, and .pid. *)
(*                                                                         *)
(* The daemonize crate is external: `execute' returns in the command as    *)
(* soon as the first child is gone; the service then opens the pid file,   *)
(* locks it (and dies if it cannot), runs init_privilege, and only then    *)
(* writes its pid.  The lock is on the file and not on its name, and goes  *)
(* with the process.  A pid is the service's number and is not used again; *)
(* a pid file is known by the service that created it.  Commands may be    *)
(* given by several users, who all have access to the two files; a service *)
(* belongs to the user whose command it was.  Time is counted in ticks, of *)
(* which a service that is not hung needs at most AppTimeout to shut down. *)
(***************************************************************************)
EXTENDS Integers, FiniteSets

CONSTANTS Commands,      \* processes that carry out a command at a time
          Users, Root,   \* who gives commands; Root may signal every process
          MaxServices, MaxCommands,   \* bounds
          StopTimeout,   \* DAEMON_STOP_TIMEOUT_SECS
          AppTimeout,    \* APPLICATION_SHUTDOWN_TIMEOUT
          Absent         \* no file, or no pid in it

DaemonAssumption ==
    /\ {MaxServices, MaxCommands, StopTimeout, AppTimeout} \subseteq Nat
    /\ AppTimeout < StopTimeout
    /\ Absent \notin Nat

VARIABLES
    meta,      \* the .meta file: Absent, "empty", "daemon" or "foreground"
    pidFile,   \* the file .pid names, or Absent
    text,      \* per file: the pid in it, or Absent
    svc,       \* per service: its life
    owner,     \* per service: its user, or Absent
    fd,        \* per service: the pid file it has open
    age,       \* per service: ticks since it began to shut down
    hung,      \* services that will not shut down by themselves
    cmd,       \* per command process: what it does and where it is
    given,     \* commands given so far
    mistaken,  \* services that a command which may not signal them took for dead
    unlinked,  \* services whose pid file a command removed while they lived
    overlap,   \* a command was given before the last, and its service, had settled
    killed     \* services sent SIGKILL

daemonVars == <<meta, pidFile, text, svc, owner, fd, age, hung, cmd, given, mistaken,
                unlinked, overlap, killed>>

Services == 1..MaxServices

Idle == [op |-> "none", at |-> "idle", user |-> Absent, pid |-> Absent, waited |-> 0]

DaemonInit ==
    /\ meta = Absent /\ pidFile = Absent
    /\ text = [s \in Services |-> Absent]
    /\ svc = [s \in Services |-> "none"]
    /\ owner = [s \in Services |-> Absent] /\ fd = [s \in Services |-> Absent]
    /\ age = [s \in Services |-> 0] /\ hung = {}
    /\ cmd = [c \in Commands |-> Idle] /\ given = 0
    /\ mistaken = {} /\ unlinked = {} /\ overlap = FALSE /\ killed = {}

Alive(s) == svc[s] \notin {"none", "dead"}

MaySignal(c, s) == cmd[c].user \in {Root, owner[s]}

\* is_process_running, by a command process: kill(pid, 0) = 0, which also fails
\* for a living process that the user may not signal.
IsRunning(c, s) == Alive(s) /\ MaySignal(c, s)

serviceVars == <<text, svc, owner, fd, age, hung, killed>>

Proceed(c, where) == cmd' = [cmd EXCEPT ![c].at = where]
Exit(c) == cmd' = [cmd EXCEPT ![c] = Idle]

----------------------------------------------------------------------------
(* The commands: daemon::run.                                              *)

Give(c, op, user) ==
    /\ cmd[c] = Idle /\ given < MaxCommands
    /\ given' = given + 1
    /\ overlap' = (overlap \/ (\E o \in Commands : cmd[o] # Idle)
                           \/ \E s \in Services : svc[s] \in {"forked", "opened", "init"})
    /\ cmd' = [cmd EXCEPT ![c] = [Idle EXCEPT !.op = op, !.user = user,
                  !.at = CASE op \in {"start", "foreground"} -> "save"
                           [] op \in {"stop", "restart"} -> "load"
                           [] op = "status" -> "read"]]
    /\ UNCHANGED <<meta, pidFile, serviceVars, mistaken, unlinked>>

\* save_meta truncates the file and writes it, whatever becomes of the start.
TruncateMeta(c) ==
    /\ cmd[c].at = "save"
    /\ meta' = "empty"
    /\ Proceed(c, "write")
    /\ UNCHANGED <<pidFile, serviceVars, given, mistaken, unlinked, overlap>>

WriteMeta(c) ==
    /\ cmd[c].at = "write"
    /\ meta' = IF cmd[c].op = "start" THEN "daemon" ELSE "foreground"
    /\ Proceed(c, IF cmd[c].op = "start" THEN "read" ELSE "fork")
    /\ UNCHANGED <<pidFile, serviceVars, given, mistaken, unlinked, overlap>>

\* load_meta panics without a meta to read; only a daemon is stopped.
LoadMeta(c) ==
    /\ cmd[c].at = "load"
    /\ \/ meta = "daemon" /\ Proceed(c, "read")
       \/ meta # "daemon" /\ Exit(c)
    /\ UNCHANGED <<meta, pidFile, serviceVars, given, mistaken, unlinked, overlap>>

\* read_pid: no file, or one without a pid yet, is Absent.
ReadPid(c) ==
    /\ cmd[c].at = "read"
    /\ LET pid == IF pidFile = Absent THEN Absent ELSE text[pidFile]
       IN  \/ pid # Absent /\ cmd' = [cmd EXCEPT ![c].pid = pid, ![c].at = "check"]
           \/ pid = Absent /\ cmd[c].op = "start" /\ Proceed(c, "fork")
           \/ pid = Absent /\ cmd[c].op = "restart"
              /\ cmd' = [cmd EXCEPT ![c].op = "start", ![c].at = "read"]
           \/ pid = Absent /\ cmd[c].op \in {"stop", "status"} /\ Exit(c)
    /\ UNCHANGED <<meta, pidFile, serviceVars, given, mistaken, unlinked, overlap>>

\* Mutant of CheckPid: start does not look whether the process runs.
CheckPidBlindly(c) ==
    LET s == cmd[c].pid
    IN  /\ cmd[c].at = "check"
        /\ \/ cmd[c].op = "start" /\ Proceed(c, "remove") /\ UNCHANGED mistaken
           \/ cmd[c].op \in {"stop", "restart"} /\ IsRunning(c, s)
              /\ Proceed(c, "term") /\ UNCHANGED mistaken
           \/ /\ cmd[c].op # "status" /\ ~IsRunning(c, s)
              /\ Proceed(c, "remove")
              /\ mistaken' = IF Alive(s) THEN mistaken \cup {s} ELSE mistaken
        /\ UNCHANGED <<meta, pidFile, serviceVars, given, unlinked, overlap>>

\* A running service is not started again; a pid file taken to be left behind is
\* removed.
CheckPid(c) ==
    LET s == cmd[c].pid
    IN  /\ cmd[c].at = "check"
        /\ \/ cmd[c].op = "start" /\ IsRunning(c, s) /\ Exit(c) /\ UNCHANGED mistaken
           \/ cmd[c].op \in {"stop", "restart"} /\ IsRunning(c, s)
              /\ Proceed(c, "term") /\ UNCHANGED mistaken
           \/ /\ cmd[c].op # "status" /\ ~IsRunning(c, s)
              /\ Proceed(c, "remove")
              /\ mistaken' = IF Alive(s) THEN mistaken \cup {s} ELSE mistaken
        /\ UNCHANGED <<meta, pidFile, serviceVars, given, unlinked, overlap>>

\* status_service prints what it finds, and leaves a stale file where it is.
ReportStatus(c) ==
    /\ cmd[c].at = "check" /\ cmd[c].op = "status"
    /\ Exit(c)
    /\ UNCHANGED <<meta, pidFile, serviceVars, given, mistaken, unlinked, overlap>>

\* remove_pid_file goes by the name, whoever has written the file by now.
RemovePidFile(c) ==
    /\ cmd[c].at = "remove"
    /\ pidFile' = Absent
    /\ unlinked' = unlinked \cup {s \in Services : Alive(s) /\ fd[s] # Absent /\ fd[s] = pidFile}
    /\ \/ cmd[c].op = "start" /\ Proceed(c, "fork")
       \/ cmd[c].op = "restart"
          /\ cmd' = [cmd EXCEPT ![c] = [Idle EXCEPT !.op = "start", !.at = "read",
                                                    !.user = cmd[c].user]]
       \/ cmd[c].op = "stop" /\ Exit(c)
    /\ UNCHANGED <<meta, serviceVars, given, mistaken, overlap>>

\* A process that becomes a service is the next one.
NewService(c, life) ==
    /\ \E s \in Services :
          /\ svc[s] = "none" /\ \A o \in Services : o < s => svc[o] # "none"
          /\ svc' = [svc EXCEPT ![s] = life]
          /\ owner' = [owner EXCEPT ![s] = cmd[c].user]
    /\ Exit(c)
    /\ UNCHANGED <<meta, pidFile, text, fd, age, hung, given, mistaken, unlinked, overlap, killed>>

\* Daemonize::execute says started as soon as the first child is gone ...
Fork(c) == cmd[c].at = "fork" /\ cmd[c].op = "start" /\ NewService(c, "forked")

\* ... and run_foreground is the service itself: it has no pid file, and looks for
\* none.
RunForeground(c) == cmd[c].at = "fork" /\ cmd[c].op = "foreground" /\ NewService(c, "running")

----------------------------------------------------------------------------
(* stop_service.                                                           *)

\* kill -TERM.  A service without handlers dies, one with them shuts down, and
\* whether it ever gets there is up to the application.
Terminate(c) ==
    LET s == cmd[c].pid
    IN  /\ cmd[c].at = "term"
        /\ \/ ~IsRunning(c, s) /\ Exit(c) /\ UNCHANGED <<svc, hung>>
           \/ /\ IsRunning(c, s) /\ Proceed(c, "wait")
              /\ \/ svc[s] = "written" /\ svc' = [svc EXCEPT ![s] = "dead"] /\ UNCHANGED hung
                 \/ /\ svc[s] = "running" /\ svc' = [svc EXCEPT ![s] = "stopping"]
                    /\ hung' \in {hung, hung \cup {s}}
                 \/ svc[s] = "stopping" /\ UNCHANGED <<svc, hung>>
        /\ UNCHANGED <<meta, pidFile, text, owner, fd, age, given, mistaken, unlinked,
                       overlap, killed>>

\* Mutants of WaitedEnough: half the time, and no limit.
WaitedHalf(c) == 2 * cmd[c].waited >= StopTimeout
WaitedNever(c) == FALSE

WaitedEnough(c) == cmd[c].waited >= StopTimeout

\* wait_for_process_exit looks from time to time ...
SeesExit(c) ==
    /\ cmd[c].at = "wait" /\ ~WaitedEnough(c) /\ ~IsRunning(c, cmd[c].pid)
    /\ Proceed(c, "remove")
    /\ UNCHANGED <<meta, pidFile, serviceVars, given, mistaken, unlinked, overlap>>

\* ... and does not look once more before the SIGKILL ...
Kill(c) ==
    /\ cmd[c].at = "wait" /\ WaitedEnough(c)
    /\ killed' = IF Alive(cmd[c].pid) THEN killed \cup {cmd[c].pid} ELSE killed
    /\ Proceed(c, "killed")
    /\ UNCHANGED <<meta, pidFile, text, svc, owner, fd, age, hung, given, mistaken, unlinked,
                   overlap>>

\* ... but does so a moment later: a process that is still there keeps its pid
\* file, and is not started again.
AfterKill(c) ==
    /\ cmd[c].at = "killed"
    /\ \/ ~IsRunning(c, cmd[c].pid) /\ Proceed(c, "remove")
       \/ IsRunning(c, cmd[c].pid) /\ Exit(c)
    /\ UNCHANGED <<meta, pidFile, serviceVars, given, mistaken, unlinked, overlap>>

----------------------------------------------------------------------------
(* The service: daemonize's child, and the application.                    *)

commandVars == <<meta, cmd, given, mistaken, unlinked, overlap, owner, hung, age, killed>>

\* The pid file is opened and, if it is not there, created empty ...
OpenPidFile(s) ==
    /\ svc[s] = "forked"
    /\ pidFile' = IF pidFile = Absent THEN s ELSE pidFile
    /\ fd' = [fd EXCEPT ![s] = pidFile']
    /\ svc' = [svc EXCEPT ![s] = "opened"]
    /\ UNCHANGED <<commandVars, text>>

\* ... and locked, or the service dies.
LockPidFile(s) ==
    /\ svc[s] = "opened"
    /\ LET holders == {o \in Services : /\ svc[o] \in {"init", "written", "running", "stopping"}
                                        /\ fd[o] = fd[s]}
       IN  svc' = [svc EXCEPT ![s] = IF holders = {} THEN "init" ELSE "dead"]
    /\ UNCHANGED <<commandVars, pidFile, text, fd>>

\* After init_privilege, even if it failed.
WritePid(s) ==
    /\ svc[s] = "init"
    /\ text' = [text EXCEPT ![fd[s]] = s]
    /\ svc' = [svc EXCEPT ![s] = "written"]
    /\ UNCHANGED <<commandVars, pidFile, fd>>

RunApp(s) ==
    /\ svc[s] = "written"
    /\ svc' = [svc EXCEPT ![s] = "running"]
    /\ UNCHANGED <<commandVars, pidFile, text, fd>>

\* init_privilege or run_app ends, or the process dies: the pid file stays.  A
\* hung one dies of the SIGKILL.
EndService(s) ==
    /\ \/ svc[s] \in {"opened", "init", "written", "running"}
       \/ svc[s] = "stopping" /\ s \notin hung \ killed
    /\ svc' = [svc EXCEPT ![s] = "dead"]
    /\ UNCHANGED <<commandVars, pidFile, text, fd>>

Tick ==
    /\ \A s \in Services : svc[s] = "stopping" /\ s \notin hung => age[s] < AppTimeout
    /\ \E c \in Commands : cmd[c].at = "wait" /\ ~WaitedEnough(c)
    /\ age' = [s \in Services |-> IF svc[s] = "stopping" /\ age[s] < AppTimeout
                                  THEN age[s] + 1 ELSE age[s]]
    /\ cmd' = [c \in Commands |-> IF cmd[c].at = "wait" /\ cmd[c].waited < StopTimeout
                                  THEN [cmd[c] EXCEPT !.waited = @ + 1] ELSE cmd[c]]
    /\ UNCHANGED <<meta, pidFile, text, svc, owner, fd, hung, given, mistaken, unlinked,
                   overlap, killed>>

CommandStep(c) ==
    \/ TruncateMeta(c) \/ WriteMeta(c) \/ LoadMeta(c) \/ ReadPid(c) \/ CheckPid(c)
    \/ ReportStatus(c)
    \/ RemovePidFile(c) \/ Fork(c) \/ RunForeground(c) \/ Terminate(c) \/ SeesExit(c) \/ Kill(c)
    \/ AfterKill(c)

DaemonNext ==
    \/ \E c \in Commands :
          \/ \E op \in {"start", "foreground", "stop", "restart", "status"}, user \in Users :
                Give(c, op, user)
          \/ CommandStep(c)
    \/ \E s \in Services :
          \/ OpenPidFile(s) \/ LockPidFile(s) \/ WritePid(s) \/ RunApp(s) \/ EndService(s)
    \/ Tick

\* A command runs on, and time passes; a service that is not hung is held to
\* its limit by Tick's guard.
DaemonFairness ==
    /\ \A c \in Commands : WF_daemonVars(CommandStep(c))
    /\ WF_daemonVars(Tick)
    /\ \A s \in Services : WF_daemonVars(svc[s] = "stopping" /\ EndService(s))

DaemonSpec == DaemonInit /\ [][DaemonNext]_daemonVars /\ DaemonFairness

----------------------------------------------------------------------------
(* Properties.                                                             *)

\* The services started with -d that are past their lock.  A service in the
\* foreground has no pid file and is not among them: any number of those may run,
\* beside each other and beside a daemon.
Daemons ==
    {s \in Services : fd[s] # Absent /\ svc[s] \in {"init", "written", "running", "stopping"}}

\* There is one daemon at a time, not counting those that lost their pid file, to
\* which the commands have no way any more.  A daemon loses it in two ways only:
\* to a command given before the last one, and its service, had settled; or to
\* one of a user who may not signal it.  So commands given one after the other by
\* users who may signal each other's services never leave two daemons.
OneDaemon ==
    /\ Cardinality(Daemons \ unlinked) <= 1
    /\ ~overlap => unlinked \subseteq mistaken

\* SIGKILL is the last resort: a service that shuts down within the time the
\* application grants itself is never killed.
KilledOnlyWhenHung == killed \subseteq hung

\* stop and restart come to an end, even with a service that hangs.
StopEnds ==
    \A c \in Commands : (cmd[c].at = "term") ~> (cmd[c].at \notin {"term", "wait", "killed"})
=============================================================================
