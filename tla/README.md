# A TLA+ model of pigs

pigs is a Rust scaffold: a managed application runtime, packet networking over
TCP and UDP, two expiring caches, message buses, a daemon launcher, RPC and
database helpers. This directory holds TLA+ modules translated from its source,
the TLC configurations that check them on small instances, and TLAPS proofs of
the properties that matter most, for instances of any size.

`PROJECT.json` lists the components, the runs with their properties, the
definition-to-source map, the hazards and the theorems. To repeat a run:
`tlc -config MCPacketWriter.cfg MCPacketWriter`; to repeat a proof:
`tlapm PacketWriterProofs.tla`.

## 1. Inventory

### 1.1 Components, their state and operations

| Component | Source | State | Operations |
| --- | --- | --- | --- |
| Managed runtime | `base/src/utils/rt.rs`, `base/src/daemon/signal.rs` | registry of runtimes; per runtime: gate, `accepting`, cancel token, task tracker, active table, counters; `shutting_down`, `failed`, `shutdown_requested`, `SHUTDOWN` | `register`, `spawn`, `spawn_blocking`, `request_shutdown[_with_error]`, `order_shutdown` (staged) |
| TCP writer registry | `base/src/net/rw.rs` (`PacketWriter`) | `tcp_writers`, `tcp_writer_addrs_by_ip`, registry lock, `next_tcp_writer_id`, `closed`, `tcp_writer_ready` | `insert_tcp_sink`, `remove_*`, `tcp_sink[_by_ip]`, `wait_tcp_sink`, `write_to`, `close` |
| Managed endpoint | `base/src/net/rw.rs` (`ManagedPacketIo`) | active connections, connect reservations, close state per connection and per endpoint, reports | `connect_tcp`, both `close_and_wait`, listener, UDP receiver, supervisor |
| TCP sinks and encoding | `base/src/net/rw.rs` | bounded write queue, stream mutex, cancel token | `write`, `try_write`, `handle_tcp_write`, `shutdown`, vectored writes |
| Unmanaged readers | `base/src/net/rw.rs` | accept back-off, read buffer per connection, a token | `reader`, `owned_reader`: listener, `handle_tcp`, UDP loop |
| Delay-queue cache | `base/src/cache/mod.rs` | map, command channel, delay queue, callback channel, permits | `insert`, `remove`, `refresh`, purge task, callback worker |
| Timing-wheel cache | `base/src/cache/c100k.rs` | slab, free list, hash index, three wheels, tick, event batch | `insert`, `refresh`, `delete`, `on_tick`, `next_batch` |
| Stream supervisor, retry | `base_rpc/src/{stream_supervisor,retry}.rs` | connection state, generation, attempt, tokens | `spawn`, `connected`, `shutdown`, `permits`, `delay` |
| Message buses | `base/src/bus/*.rs` | a sharded map with a channel per message type | `publish`, `try_publish`, `sub_type_channel`, receive, clean-up every 60 s |
| Daemon control | `base/src/daemon/*.rs` | the meta and pid files, the processes | `start [-d]`, `stop`, `restart`, `status` |
| Failure episodes | `base/src/logger/episode.rs` | start, last summary, saturating counters | `record_failure`, `record_success`, `reset` |
| Migrations | `base_db/src/migration.rs` | the table of applied migrations | `run_sqlite_migrations`, `run_mysql_migrations` |
| Pools, backup, logger, sockets, utilities, macros, errors, metrics | `base_db/`, `base/src/{logger.rs,net/listen.rs,utils}`, `macros/`, `exception/`, `sys_metrics/` | little or none | configuration, conversions, formatting, I/O |

### 1.2 How they interact

An application registers runtimes, spawns named tasks on them and ends in
`order_shutdown`. Everything long-lived hangs on a runtime's cancellation token:
an endpoint's token is a child of it, and the delay cache's two tasks stop with
the main runtime's. An endpoint owns a `PacketWriter`; every connection task,
accepted or dialled, registers a sink there, and removes it again when one of
its halves ends. The sinks' tokens are in turn children of the endpoint's,
unless a caller registered a sink with a token of its own. What a sink puts on
the wire is what the read loop of the other side gets in other pieces. A daemon
command reaches a service through its pid file and SIGTERM, which is the exit
signal of the managed runtime; its stop timeout is longer than the time the
runtime grants itself. The timing-wheel cache, the buses, the stream
supervisor, failure episodes and migrations stand alone.

### 1.3 What is hard

Nearly everything here runs on several threads and shares its state through
short critical sections, channels and tokens, so the hard behaviours are
interleavings: a gate closed while a task is admitted, a registration that
races the close of its table, a late removal that meets a newer registration,
two callers closing one connection, a timer that fires while the command that
replaces it is queued. The rest are futures dropped half-way, time-outs that
race late completions, guards held across an await, files shared by processes
that may die at any step, and the modular arithmetic of the wheels.
`PROJECT.json` lists each hazard at its line.

## 2. The modules

| Module | Models | Run by | Proofs |
| --- | --- | --- | --- |
| `GlobalRuntime` | `rt.rs`, `signal.rs` | `MCGlobalRuntime`, `MCServiceProcess` | `GlobalRuntimeProofs` |
| `PacketWriter` | the writer registry and `close` in `rw.rs` | `MCPacketWriter` | `PacketWriterProofs` |
| `ManagedPacketIo` | endpoint, connections and both closes in `rw.rs` | `MCManagedPacketIo` | `ManagedPacketIoProofs` |
| `TcpSink` | both TCP sinks, encoders and `handle_tcp_write` in `rw.rs` | `MCTcpLink` | `TcpLinkProofs` |
| `PacketReader` | `reader`, `owned_reader` and their tasks in `rw.rs` | `MCServices`, `MCTcpLink` | `ServiceProofs`, `TcpLinkProofs` |
| `TcpLink` | one connection: `TcpSink` composed with `PacketReader` | `MCTcpLink` | `TcpLinkProofs` |
| `DelayCache` | `cache/mod.rs` | `MCDelayCache` | `DelayCacheProofs` |
| `TimingWheel` | one shard of `cache/c100k.rs` | `MCTimingWheel` | `TimingWheelProofs` |
| `ExpiringKeys` | what a shard promises (abstract) | refined by `TimingWheel` | `TimingWheelProofs` |
| `StreamSupervisor` | `stream_supervisor.rs`, `retry.rs` | `MCServices` | `ServiceProofs` |
| `BroadcastBus`, `MpscBus` | `bus/broadcast.rs`, `bus/mpsc.rs` | `MCServices` | `ServiceProofs` (broadcast) |
| `FailureEpisode` | `logger/episode.rs` | `MCServices` | `ServiceProofs` |
| `SchemaMigrations` | `base_db/src/migration.rs` | `MCServices` | `ServiceProofs` |
| `DaemonControl` | `daemon/mod.rs`, `daemon/unix.rs` | `MCServiceProcess` | `ServiceProofs` |
| `SequenceLemmas` | facts about sequences that the proofs share | | itself |

`MCServices` puts the components that stand alone into one state space: a
behaviour picks one of them (`part`) and runs it, with the fairness of its own
`Spec`, while the others keep their initial state. It extends five components
about which `ServiceProofs` has theorems, whose names are therefore distinct, and
instantiates `MpscBus` and a second `PacketWriter`, with a UDP writer, for the
liveness of `close`. `MCServiceProcess` does the same with `GlobalRuntime` and
`DaemonControl`, the two sides of a process that is told to end.

Definitions named *Mutant of X* are wrong variants of `X`, such as a dropped
guard or a swapped order. No action uses them; they record, for each property,
a mistake in the code that the property detects.

### 2.1 GlobalRuntime

A task is `queued` (blocking, not picked up yet) or `running` until its
`TaskGuard` counts it; it keeps its tracker token until it is `left`, `unwound`
or `aborted`. `complete`, `panic` and `Drop` are two steps each: `Count` is the
`fetch_add`, `Deregister` takes the task off the active table, and in between a
reader finds it in both. A panic takes two steps more (`failed`,
`shutdown_requested`) because other threads run in between. `order_shutdown` is
a sequence of `phase`s: wait, `BeginShutdown`, `PlanStages`, and per runtime
`CloseGate`, `CancelStage`, `TrackerDrained` or `TrackerTimeout`,
`RemoveRuntime`, `StartTeardown`; then the fields of the report are read one by
one while tasks go on settling (`ReadNames`, `ReadPanicked`, `ReadCompleted`,
`ReportStage`, which reads the cancelled tasks); at last `TakeMain` and
`Conclude`. Where the code holds the task gate or the registry gate, the check
and the change are one step. Time is abstracted: a bounded wait may give up
whenever what it waits for has not happened. The tokio runtime's teardown may
drop any future and any queued closure of the runtime (`DropTask`), at any
moment after it has begun.

### 2.2 PacketWriter

A connection `c` stands for one registration: its sink, address and
`writer_id`. `insert_tcp_sink` is `InsertCheck`, `InsertLocked`,
`CloseDisplaced`, `NotifyWaiters`; the removal by a connection that ends is
`RemoveRegistered`, `CloseRemoved`; `remove_tcp_writer` is `RemoveTcpWriter`,
`CloseDismissed`. `wait_tcp_sink` is the five `Wait*` steps around the `Notify`
protocol. `close` is cancelled, snapshots the table, closes the sinks one by
one and takes the UDP socket; `Abandon` drops its future where it awaits.
`Owned` are the sinks whose token is the endpoint's child, `Direct` those whose
shutdown is awaited.

### 2.3 ManagedPacketIo

Each connection has a task with a read and a write half; each `connect_tcp`
call, each owner of a handle and each caller of the endpoint's `close_and_wait`
is a process that runs `ManagedTcpConnection::close_and_wait` (`CloseNext`,
`LockConnection`, `AwaitTask`, `Finalize`, `MergeReport`, `RemoveConnection`)
on one connection after the other. The registry is the table of `PacketWriter`,
each of whose operations is one step here: their interleavings are that
module's subject. A report is the number of times each connection has been
counted in it. `Drop*` actions drop a caller's future at any await. The
listener accepts, backs off after a failed accept, or drains its connections.

### 2.4 TcpSink

The write side of one connection. Each caller writes one packet through the
queue (`PollSend`, `Send`, or `TrySend`) or directly (`LockStream`, `PollWrite`,
`WriteSome`); `handle_tcp_write` is `TaskReceives`, `TaskWrites` or `TaskFails`,
`TaskStops`, `TaskCancels`, `TaskEnds`. A packet is one or two slices of byte
tokens, `Advance` cuts them by what the socket took, and `wire` is what it has
taken so far. The order of `select!` matters here: the direct write polls its
token before the socket, every time it is polled, while the task behind the
queue does not poll it during a write.

### 2.5 DelayCache

The map is changed by callers directly (`InsertMap`, `RemoveMap`), the delay
queue only by the purge task that receives their commands (`HandleCommand`,
`Expire`). A value is inserted once; a command carries the value that stands for
its ttl. An armed timer may fire at any moment. The callback worker takes
expired values from a bounded channel and runs each callback under a permit.
`overtook` is a history variable: the values with a ttl that entered the map
between the two steps of an insertion of their key without one.

### 2.6 TimingWheel and ExpiringKeys

A bucket is a set of (slot, version) tuples with the level and index at which
`schedule` put them. `TurnWheel` is one iteration of `on_tick`: the cascades and
taking the bucket, whose tuples are then skipped, moved or expired one by one.
The clock moves while the loop waits, and may be ahead of the shard's `tick`.
`TtlToTick` rounds milliseconds up to ticks. `due` is a history variable: the
time, in milliseconds, at which the ttl of a slot ends. The event channel is a
count of batches; a batch that finds it full is lost, as in the code.
`ExpiringKeys` has only a deadline per key: a key expires in the tick of its
deadline or the next one. `KeepsPromise` is that specification with `deadline`
and `ttl` read from the slot that holds the key.

### 2.7 PacketReader and TcpLink

A byte is a pair of a frame and a position, so that a frame that is cut, lost or
mixed with another shows. `ReadSome` is one turn of the loop of `handle_tcp`: a
read of any size up to the buffer's spare capacity, the check against
`MAX_BUF_SIZE`, the splitter and the dispatcher, between which the task does not
await. `Overflows` sees the buffer before the splitter has taken anything off. A
dispatcher that refuses a frame leaves the loop without `close`
(`DispatchFails`). The splitter is the application's; the model's takes whole
frames off the front. `Streams` is what the network may bring. `TcpLink`
instantiates the reader on the `wire` of `TcpSink`, and its `fin`.

### 2.8 StreamSupervisor

`step` follows the loop of `spawn`. `ConnectionReporter::connected` is two steps,
`ReportReads` and `ReportSends`, by any caller for any generation, because a
reporter may be cloned and kept. `overtaken` records that a report was sent after
the state it had checked was replaced. `connect_and_run` returns or panics
(`ConnectorPanics`); a panic ends the supervisor's task where it is (`crashed`),
without `connection_cancel.cancel()` and without a further state. Delays are computed as in `retry.rs`, with
an `f64` that becomes infinite above `FloatMax`, and jitter as a set of values.

### 2.9 The buses

In `BroadcastBus` a channel has a number, so that the one a subscriber holds and
the one publishers find can differ; `CloneSender` and `Subscribe` are the two
halves of `sub_type_channel`, `CleanupLooks` and `CleanupRemoves` those of the
cleanup. `MpscBus` is about who waits for whom: a `publish` that waits for room
keeps a shared guard of its shard (`Guards`), a subscription that wants the shard
exclusively blocks a worker thread (`Blocked`), and whoever is woken needs a
thread (`FreeThread`).

### 2.10 FailureEpisode and SchemaMigrations

An episode is `StartEpisode`, then `Summarize` or `Suppress`; the caller passes
the time, which may go back. `failures`, `summaries` and `covered` are history
variables. A migration is `Select`, `ApplySql`, `InsertRecord`, `Commit` by any
number of runners; `FailOrDie` is any of the `?`, or the end of the process, after
which the runner may start again. What a transaction covers is the database's:
in MySQL a DDL statement takes effect at once and ends the transaction.

### 2.11 DaemonControl

Command processes and the services they leave behind share `meta` and `pidFile`.
A command takes one step per file operation or signal; `restart` is a stop that
goes on as a start. The service's side of `daemonize` opens, locks and writes the
pid file in that order; its lock is on the file, not on the name, which is why
`RemovePidFile` matters. A command and a service belong to a user. `IsRunning`
is `kill(pid, 0)` by the command's user: it also fails for a living service that
the user may not signal, which `CheckPid` records in `mistaken`. A service that
`Kill` was aimed at may still be there when `AfterKill` looks (it dies of the
signal later): its pid file is then kept, and `restart` given up. A foreground
`start` reads no pid file and has none. `Tick` is one unit of the stop timeout.
`unlinked` are the services whose file was removed while they lived, `overlap`
records that commands were not given one after the other.

## 3. The runs

| Run | Instance | What it shows |
| --- | --- | --- |
| `global_runtime` | 2 runtimes and Main, one declared twice, one omitted; an async and a blocking task | reports are truthful: graceful means quiescent, failures are never hidden, every task is counted once or named, every runtime is staged |
| `service_process` | from the inside: 3 runtimes and Main, one declared twice, one omitted; 1 task. From the outside: 2 users, one of them root; 2 processes, 3 commands, 3 services | see below |
| `packet_writer` | 3 connections, two of them at one address, all at one IP; a waiter; one abandoned close | no sink leaks, no late removal hurts a newer registration, the IP index is exact, nothing enters a closed table, no wake-up is lost |
| `close_resume` | sinks with tokens of their own | **violated**: see findings |
| `timing_wheel` | 2 keys, 2 slots, wheels of size 2, ttls of 3 and 17 ms at 2 ms a tick | the wheels implement `ExpiringKeys`, no key expires before its ttl has passed since the shard's tick, no slot leaks, no key sits in two slots |
| `delay_cache` | 1 key, 2 values with a ttl and one without, a removal, a refresh, 1 permit, a channel of 1 | a value is called back at most once and never after `remove` returned it; none outlives its timer unless it overtook an insertion without a ttl; expired values get their callback |
| `delay_cache_own_timer` | the same | **violated**: see findings |
| `managed_io` | 2 `connect_tcp` calls to one peer, an owner, a close, a UDP socket, 1 dropped future | every task is counted once, a failed connect leaves nothing behind, no stale registration, no displacement |
| `managed_io_listener` | a listener with an accepted connection, a dialled one, queued writers | `close_and_wait` returns, then everything has ended |
| `external_cancel` | an endpoint that only dials | **violated**: see findings |
| `tcp_link` | 3 callers, packets of 1 to 4 bytes, one that cannot be prefixed; both sinks, both encoders, a queue of 1; a peer that reads up to 3 bytes at a time | packets reach the peer's dispatcher whole, once and in order, and do reach it; what a caller is told is true; a shutdown ends although the peer may never read again |
| `services` | one instance of each component of `MCServices` | see below |

What `service_process` shows:

* **Inside**: stages keep the declared order, the omitted one after them, Main
  last; a panic or any exit request ends with `order_shutdown` returning,
  whatever the tasks do.
* **Outside**: one daemon at a time, apart from those that lost their pid file;
  they lose it only to overlapping commands or to a user who may not signal
  them; no SIGKILL for a service that shuts down in time; `stop` ends, whether
  or not its SIGKILL works at once.

What `services` shows:

* **Stream supervisor** (3 policies, 2 concurrent reports, 3 connections): the
  published state is true unless a report was overtaken between its check and
  its send, and every connection it does not show has been told to stop;
  attempts and pauses follow the policy; `shutdown` returns, also after a panic.
* **Broadcast bus** (1 type, 2 subscribers, 3 channels, 3 messages, a buffer of
  1): a subscriber misses no message silently. If the cleanup removes a channel
  during its subscription, it is told `ChannelClosed`.
* **MPSC bus** (2 types in one shard, 2 publishers, 1 subscriber, 2 threads): a
  publisher that waits with a guard in its hands is served.
* **Failure episodes** (counters that saturate at 5, a clock that goes back):
  every failure is accounted for once.
* **Migrations** (3 runners, 3 migrations, one of them DDL, one list with another
  name; SQLite and MySQL): table and schema agree whoever dies where.
* **Readers** (2 peers, frames of 6, 1 and 4 bytes, a limit of 5, reads of up to
  2): frames are dispatched as sent, the end is announced once and last, a frame
  that fits is not cut off; cancelling the token stops everything.
* **Writer close** (2 connections, a UDP send that may hang): `close` ends.

### 3.1 Bounds and why they are enough

* Two tasks (one of each kind) and two runtimes besides Main give every pair of
  orders that the shutdown tells apart: declared twice, declared but
  unregistered, omitted. The third runtime of `service_process` is for two declared
  ones, in order, and an omitted one after them. The theorems of section 4 remove
  the bound.
* `packet_writer`: the generation check needs two registrations of one address,
  the index a second address of the same IP. The theorems remove this bound too,
  except for the index.
* Wheels of two slots make a span of 8 ticks: a ttl of 2 is the first that goes
  to the second wheel, one of 9 goes to the third and further than once around
  it; 11 ticks (`MaxClock`) let it expire. The code's sizes (512, 128, 128) only
  change how long a lap is. `MaxInserts` = 3 allows two keys and one replacement
  or reuse of a slot, `MaxVersion` = 2 one refresh between insertions. `MaxLag`
  = 3 exceeds `MaxCatchup`, so that the shard also handles commands while it is
  behind. It then counts the ttl from its own, late tick, and so does
  `NotBeforeTtl`: counted from the clock, the key would be early. `KeySymmetry`
  is sound: keys are only compared, and the temporal properties of that run are
  safety properties.
* `delay_cache`: races are between calls on one key, so one key suffices; the
  values compete for the callback channel and the permit all the same.
  Insertions with and without a ttl overlap: map and delay queue may then see
  them in opposite orders, and a value with a ttl never expires, or one without
  does (hazard at `mod.rs:185`). `NothingOutlivesItsTimer` exempts these values,
  and no others, by `overtook`.
* `managed_io`: two dialled connections are needed for displacement and
  reaping, one owner for two closers of one connection, one dropped future for
  the resumption of a close. `ActiveSymmetry` is sound: the two calls differ in
  nothing.
* `tcp_link`: two packets are needed for one to follow another on the wire, a
  third caller for a queue that is full while one packet is being written; four
  bytes in two slices are cut before, at and behind their boundary. `QueueSize`
  = 0 becomes a queue of one, as in the code. One write future may be dropped
  (`MaxDrops`). A read of 3 bytes ends inside a packet and reaches into the next.
* `services`: two reports overlap each other and a change of state; three
  channels let one be orphaned and replaced twice; one subscriber and two threads
  are the smallest instance in which a blocked subscription leaves a thread.
  Reads of up to 2 with a limit of 5 reach the limit, pass it by one, and stay
  below it. The theorems of section 4 remove the bounds of the supervisor
  (safety), the episodes and the migrations.
* `service_process`: three commands are a start, a stop that overlaps it or is
  another user's, and a second start, which is what two daemons take; the third
  service is for commands that all start one. `StopTimeout` = 3 exceeds
  `AppTimeout` = 2 as 10 s exceed 8 s in the code.
* `CHECK_DEADLOCK FALSE` everywhere: these systems stop when they have been
  closed, and an application may stop calling them.

### 3.2 Fairness

* `GlobalRuntime`: the thread in `order_shutdown` runs and its bounded waits
  end; a guard that has counted its task, and a panicking task until its unwind,
  are in straight-line code. No task is assumed to finish.
* `PacketWriter`: a `close` that is awaited keeps being polled, and the
  `closed` branch of a `select!` is polled. A UDP send may hang for ever.
* `DelayCache`: `insert` and `remove` do not await between their two steps; both
  tasks are scheduled; timers fire; every `expire_call` ends.
* `ManagedPacketIo`: `FairSpec` has every task and call that can go on polled;
  strong fairness for the write half's view of its token comes from `select!`,
  which picks at random among ready branches. Peers, owners and creators owe
  nothing. `ReadingSpec` adds `PeersRead`: a write that has begun ends. The code
  does not see to this (`rw.rs:2209` awaits the socket where the cancellation
  branch is not polled), and for queued writers `close_and_wait` needs it. With
  direct writers, whose writes race the token, it is not needed.
* `TcpSink`: a future that is awaited is polled, a free Mutex is handed on (it
  is fair), and a non-blocking socket call returns. It may say "would block" for
  ever. `TcpLink` adds, for `SentIsDispatched`, a peer that reads as long as its
  task has not ended.
* `StreamSupervisor`: the task runs, and a connector that is told to stop returns
  or panics. The pause between attempts need not end.
* `MpscBus`: a call of the map returns when its shard is free; strong fairness
  for woken tasks, because tokio's run queues are first come first served and a
  thread becomes free again and again; the owner of a receiver keeps receiving.
  `MpscAssumption` excludes as many concurrent subscriptions as there are threads.
* `DaemonControl`: commands run and time passes; a service that does not hang ends
  within `AppTimeout`, by `Tick`'s guard, and one that does after its SIGKILL.
* `PacketReader`: a ready `cancelled()` branch is taken eventually, by random or
  by exhausted budget. Peers owe nothing.
* In `MCServices` every one of these is conditional on the part that runs.

### 3.3 Findings

* `close_resume` (`rw.rs:888`): `close` empties the maps before it closes the
  sinks; a `close_and_wait` dropped in between loses those with tokens of their
  own, contrary to "cancellation-safe".
* `delay_cache_own_timer` (`mod.rs:135`): the timer of a replaced value may
  expire the value that replaced it.
* `external_cancel` (`rw.rs:1820`): an endpoint with neither listener nor UDP
  socket ignores the cancellation token it was given.

Met while modelling, and left out of the properties: after a panic the
application shuts down without the exit signal `SHUTDOWN` ever being raised
(`rt.rs:542` cancels only `shutdown_requested`), although `signal.rs:5` offers
it to be held wherever the exit of the process matters. And a caller that drops
the future of a direct write half-way leaves part of a packet on a stream that
stays open; `PacketsArriveWhole` excepts it. The same holds of these: a
report of a connection that has passed its check overwrites the state the
supervisor has set since (`overtaken`, `stream_supervisor.rs:41`); a stop or a
start that overlaps another removes the pid file of a service just started
(`unlinked`, `unix.rs:46`), after which `stop` does not find it and a second one
starts; and a DDL migration in MySQL that dies before its record takes effect
again at the next run, which then fails unless the statement can be repeated
(`migration.rs:72`). Nor does anything forbid these: a user who may not signal a
service removes its pid file as stale (`unix.rs:38`); a foreground `start` runs
beside a daemon and makes `stop` refuse, since `.meta` then says foreground
(`mod.rs:126`); a connector that panics leaves its connection shown, with a token
nobody cancels (`stream_supervisor.rs:104`). No doc or test says otherwise, so none of them is a finding.

## 4. What is proved

Every invariant and every action property that a passing run checks is also a
theorem. The theorems are of the form `Spec => []P`, `Spec => [][A]_vars` or,
for the timing wheel, one specification implementing another, and
hold for every value of the constants: every set of runtimes, tasks,
connections, addresses, callers, keys, policies, runners and migrations, every
stage order, every size of a wheel, channel, buffer or batch, every timeout, and
every bound. They rest only on the named assumptions of the modules
(`RuntimeAssumption`: Main is not an ordinary runtime, None is neither a runtime
nor a report; the corresponding ones of `PacketWriter`, `DelayCache`,
`ManagedPacketIo`, whose callers of different kinds are different callers, and
`TimingWheel`, whose sizes are positive; and, as the hypothesis of the theorems
about them, `SupervisorAssumption`, `EpisodeAssumption`, `MigrationsAssumption`,
`BroadcastAssumption`, `DaemonAssumption`, `ReaderAssumption` and
`SinkAssumption`), which TLC evaluates in the runs. Two of them say more than a
type or a positive size. `DaemonAssumption` has the application's shutdown timeout below the one
`stop` waits for (`APPLICATION_SHUTDOWN_TIMEOUT` < `DAEMON_STOP_TIMEOUT_SECS`),
as the code's constants do. `SinkAssumption` leaves out empty payloads: a raw
one puts nothing on the wire, so that neither its arrival nor its loss can be
told.

| Theorem | Statement |
| --- | --- |
| `GlobalRuntimeProofs!TypeCorrect` | `[]TypeOK` |
| `GlobalRuntimeProofs!GracefulCorrect` | a graceful report implies that every accepted task returned by itself |
| `GlobalRuntimeProofs!FailureCorrect` | a shutdown that a failure triggered is reported incomplete |
| `GlobalRuntimeProofs!StagingCorrect` | when `order_shutdown` returns, every runtime has been staged |
| `GlobalRuntimeProofs!OrderCorrect` | runtimes are cancelled in the declared order, the omitted ones after all declared, Main last |
| `GlobalRuntimeProofs!ReportsCorrect` | a report counts no task twice and leaves none out: what its counters miss is named, and where nothing is named they are exact |
| `PacketWriterProofs!NoLeak` | no registered sink is lost |
| `PacketWriterProofs!GenerationSafe` | a late removal never takes a newer registration down |
| `PacketWriterProofs!ClosedIsEmpty` | nothing enters a table that `close` has emptied |
| `PacketWriterProofs!WakeupsKept` | `wait_tcp_sink` loses no wake-up |
| `PacketWriterProofs!IndexCorrect` | the index by IP lists exactly the registered peers of the IP, each once |
| `ManagedPacketIoProofs!NothingLeft` | a `connect_tcp` that failed leaves no task, a connection that ended well no registration |
| `ManagedPacketIoProofs!ReservationsHold` | two `connect_tcp` calls never displace each other's registration |
| `ManagedPacketIoProofs!ReportsOnce` | a completed close reports every connection the endpoint answers for exactly once |
| `ManagedPacketIoProofs!ClosedStops` | after the endpoint's close nothing it owns runs |
| `DelayCacheProofs!CacheCorrect` | a value is in one place at a time, and is handed out once |
| `DelayCacheProofs!TimersCorrect` | a value with a ttl has a timer or a command that arms one, unless it overtook an insertion of its key without a ttl |
| `TimingWheelProofs!SlabCorrect` | no slot leaks, none is handed out twice, a key has one slot |
| `TimingWheelProofs!TtlRespected` | no key is announced before its ttl has passed since the tick, late or not, its shard handled the command in |
| `TimingWheelProofs!WheelKeepsPromise` | the timing wheel implements `ExpiringKeys` |
| `TcpLinkProofs!AnswersAreTrue` | what a caller of `write` or `try_write` is told is true |
| `TcpLinkProofs!PacketsKeepTogether` | packets lie on the wire one after the other, and nothing follows one that was cut |
| `TcpLinkProofs!PacketsCross` | packets reach the peer's dispatcher whole, once and in the order of the wire |
| `ServiceProofs!FramesReachDispatcher` | a reader dispatches the frames as sent and announces the end once and last |
| `ServiceProofs!StateIsTruthful` | until a report is overtaken: the state shows the connection that runs, and every other one was told to stop; a connector that panics leaves its own shown |
| `ServiceProofs!RetriesFollowPolicy` | the supervisor gives up after exactly `max_attempts`, and its pauses grow up to `max_delay` |
| `ServiceProofs!FailuresCounted` | every failure is accounted for once, up to saturation |
| `ServiceProofs!RecordsMatch` | the table of migrations agrees with the schema |
| `ServiceProofs!NothingMissedSilently` | a subscriber of the broadcast bus has every message, or is told |
| `ServiceProofs!OneDaemonLives` | of the daemons that have their pid file one at most lives; they lose it only to overlapping commands or to a user who may not signal them |
| `ServiceProofs!KillsOnlyTheHung` | `stop` kills only what outlived its own timeout |

**GlobalRuntime.** None of these properties is inductive: a graceful outcome
says something about tasks that may have ended long before. The inductive
invariant `IInv` keeps the chain that links them: a task's home has a handle and
its counters (`PanicsCounted`: whoever panicked is counted); once a stage has
closed the gate and found the tracker drained, no task of that runtime is
tracked and none can start (`Drained`); a graceful stage report therefore means
that its tasks have left (`Reports`); `cause = "request"` implies that the
failure flag is stored (`Failure`); the overall outcome is graceful only if
every stage's is (`Outcome`). `Registry`, `Stage` and `Gates` tie registered,
handled and staged runtimes together through the phases. `OrderCorrect` adds
that the stages still to come are the rest of the plan, in its order
(`OmittedTurn` for the omitted ones). `ReportsCorrect` adds that the live counters
are the number of tasks that have been counted, since every step moves one task
from the uncounted ones to the others, and `TotalsRead`: the fields read so far,
the counters still to be read and the names together cover the tasks of the
stage. That holds because a guard counts before it leaves the active table and
the report reads the names before the counters; read the other way round, as in
the mutant `StageRemainingLate`, a task would fall between the two.

**PacketWriter.** The four properties are proved together, since each needs
another: that a waiter's sink is about to notify needs the registration to be
placed where its address says (`Placed`), that nothing enters a closed table
needs `closed` to be set before the snapshot (`Closing`), and that a closed sink
has a reason needs that a connection that has not registered yet is known to
nobody (`Reasons`). `IndexCorrect` is about `Vec::retain`, a recursive function
on lists. The library's induction theorems cannot be instantiated here, so
`NatSetInduction` (in `SequenceLemmas`) derives induction over a set of numbers
from the well-foundedness of `Nat` (`WFMin`), and `RetainProperties` applies it
to the set of lengths for which `retain` keeps exactly the chosen entries, each
once.

**ManagedPacketIo.** A connection passes through several hands: the call that
spawned its task, the handle, a reaping call, the endpoint's close. `TaskInv` says
that a read half that ended well has left the registry, `CallInv` how far a call
of `connect_tcp` is when its task runs, and `ReserveInv` that a call holds the
reservation of its address alone until it returns; they give `NothingLeft` and
`ReservationsHold`. `OwnerInv` says that whoever swapped `owner_registered` is the
one process that merges the report and empties the table, `CloseInv` and
`ListenInv` what the endpoint's close and the listener have passed, and
`CountInv` that a connection which is neither owned nor about to be merged is in
the pending or the taken report once; they give `ReportsOnce` and `ClosedStops`.

**DelayCache.** `PlaceInv` follows a value from the map to the channel, the
worker, a running callback and its end: these places are pairwise disjoint, and
a value that was not inserted yet is in none. `CoverInv` says that a mapped
value with a ttl is covered: a call on its key has yet to tell the purge task or
to take the value out, or the timer runs once the commands in the channel are
handled (`Armed`: a timer or a command that sets one, and none behind it that
clears it). A value that entered the map between the two steps of an insertion
without a ttl is in `overtook` and need not be covered: the command of that
insertion, which comes last, clears its timer.

**TimingWheel.** `Timely(w, x, now)` says that a tick after `now` takes the tuple
`w` out of its wheel, not later than tick x + 1, and not later than x if it has
to cascade. `CoverInv` says that every slot in use has a tuple of its version
that is timely for its `expire_tick` or is in the bucket being processed.
`PlaceIsTimely` (the arithmetic of `schedule`: the last multiple of the wheel's
span up to x lies after `now`) establishes it, `TurnCovers` shows that a turn
with its cascades keeps it, and `CoveredIsOnTime` that the wheels only turn when
nothing is overdue, which is the guard of the abstract `Tick`. Stale tuples need
no clause: they may be live again after the slot's reuse, and then only bring
the entry forward to be looked at once more. With `SlabInv` the refinement
mapping reads one slot per key (`MappingReadsSlots`), and each step is a step of
`ExpiringKeys` or a stutter (`PromiseStep`).

**StreamSupervisor.** `SupervisorInv` adds to `StateTruthful` that every report in
flight had found its generation current (`CallsWereCurrent`), which is what makes
a late one count as overtaken, and that the newest connection's token is cancelled
wherever the task is past it (`LastEnded`). `RetryInv` ties `attempt` to
the number of connections tried and the last pause to the delay of the last
attempt. That the delays do not shrink is a fact about `powi`, a recursive
function: `PowiUnfolds` shows that it has a solution, `PowiGrows` that it grows,
and `DelaysGrow` that neither the cap nor the overflow to infinity undoes that.

**FailureEpisode.** The counters saturate, so the invariant relates each to the
unbounded history variable by `SaturatingAdd(n, 0)`, and `covered` only as long
as nothing has saturated; `summaries < failures` closes the induction.

**SchemaMigrations.** A committed record must mean that the sql took effect, so
the invariant says where each runner can be (`RunPlaces`), that what it has passed
is recorded (`Behind`), and that a runner with an uncommitted insert is alone
with it and its version is still free, or, outside of a transaction, that its sql
took effect before (`Uncommitted`).

**BroadcastBus.** `DeliveredOrTold` only speaks of subscribers that are not
orphaned. The invariant adds why the others are up to date: a channel number
belongs to one type (`OneTypeEach`), so a publisher reaches exactly the holders
of the channel that is in the map; and whoever holds that channel has every
message since its subscription, or is marked as lagged (`HoldersUpToDate`). A
channel that has left the map never comes back, so its holders become orphans
for good once no sender of it is left.

**DaemonControl.** Two daemons can only be past their lock if they locked two
files, so `OneOwner` says that a file is locked by one service, whose pid is in
it once written, and `FileNamed` that this is the file `.pid` names until a
command unlinks it. `TimeKept` bounds the time a service has been stopping from
below by the time its command has waited: SIGKILL after `StopTimeout` then finds
a service that is past `AppTimeout`. `PidsKnown` says that a command which waits
for a process may signal it, so that a failing `kill(pid, 0)` means its end, and
that whoever removes the file found the process gone or took it for gone
(`mistaken`). Without overlap there is one command at a time and no service still
on its way (`OneAtATime`), so what a command saw is still so when the file is
removed.

**PacketReader.** `ReadSoFar` says that the dispatched frames followed by the
buffer are the part of the stream that was taken, and that each frame has its
own length. `ConnHolds` adds that no whole frame is left in the buffer of a
connection that reads on, from which it follows that a buffer over the limit
holds a frame that does not fit.

**TcpSink and TcpLink.** In `SinkInv` every packet is one block on the wire, as
far as it is there (`Blocks`); what is left of the packet in hand continues the
block at the end of the wire (`HandContinues`), so `poll_write` may take any
number of bytes across the boundary of the two slices; and a packet that is cut
short is in hand, or nothing will be written after it (`CutAtEnd`). `DirectCalls`
and `QueuedCalls` relate the caller's place and its answer to how much of its
packet is there. `LinkInv` adds `ReadSoFar` for the peer. That what it has
dispatched are packets is an induction along the wire: a frame boundary of the
reader is a boundary of two blocks, since the byte there is the first of its
packet and announces its length.

**SequenceLemmas.** `FlattenSeq` and the splitter are recursive functions. As for
`retain`, the lemmas show that the recursion has a solution, then by induction
over a set of lengths what it computes: the frames the splitter takes off and
what it leaves make up the buffer, each frame has its length, and none is left.

Only model-checked: the liveness properties (`ShutdownCompletes`,
`ExpiredAreCalledBack`, `CloseCompletes`, `SentIsDispatched`, `ShutdownEnds`,
`StreamShutdownEnds`, `PublisherServed`, `StopEnds`, `CancelStopsReader`,
`WriterCloseCompletes`), which are beyond this prover, as is `ENABLED`. Nothing
but liveness is stated of `MpscBus`, so it has no theorem. The properties of the
three runs that end in a violation are false and have none either.

## 5. Not modelled, and why

* The kinds of outcome counted in a close report, the length of the accept
  back-off, and the abort of connection tasks by a runtime's teardown: left out
  of `ManagedPacketIo`.
* Packet contents beyond the identity of a byte, and splitters that do anything
  else than take whole frames off the front. `rw` and `direct_rw` start the
  listener and the UDP receiver that `ManagedPacketIo` has, without an owner.
* `try_write_to` over UDP and the copying `write_slice_to`, which differ from the
  modelled ones in their errors only.
* What `status` prints, a pid that the system gives to another process, and users
  who may not open or replace the meta and pid files.
* The timing wheel's command channel (a delay) and its hash index (a map from
  keys to slots, collisions being resolved by comparing keys); shards do not
  interact.
* Logger, error types, configuration and constructor macros, build helper,
  system metrics, TLS and channel set-up: conversions and I/O without state of
  their own. Database pools, health checks and backups configure and call sqlx.
* `dig62`, tokens and cryptography are pure conversions that unit tests reach;
  `BoundedQueue` wraps a channel.

## 6. Plan

In the order of what they would add:

1. The kinds of outcome in the reports of `ManagedPacketIo`, and the abort of its
   tasks by the teardown of `GlobalRuntime`: a composition of the two.
2. Backups, if the file system's crash semantics are to be modelled.
