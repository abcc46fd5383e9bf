# JianManager: TLA+ models of instance supervision and log delivery

JianManager runs game servers (Java processes) on many machines. A *Control
Plane* keeps the database and the user interface; a *Worker* on every machine
supervises the instances. An instance of the usual kind ("daemon") hangs on a
*wrapper*, a small process that owns the Java process and is meant to survive
the Worker, so that the Worker can be updated without stopping any game server.

These modules model the part of the system in which that is decided: who starts
and ends a Java process, who knows about it, what the Control Plane records of it
and of the long tasks it hands out, and what remains true when the Control Plane,
the Worker, the wrapper, Java and the callers act in an unlucky order. One more
module follows the lines of a log file from the file to what queries see.

## Checking it

    tlc -config Wrapper_all.cfg Wrapper                    # one of the runs
    tlapm WrapperProofs.tla                                # the proofs
    tlapm LifecycleProofs.tla
    tlapm BackoffProofs.tla
    tlapm ReconcileProofs.tla
    tlapm LogDeliveryProofs.tla
    tlapm CircuitProofs.tla
    tlapm TaskProofs.tla
    tlapm WaitProofs.tla

`PROJECT.json` lists the runs with their expected outcome, for every
definition the source lines it stands for, for every property a plausible bug
of the code (a "mutant", written in the module beside the definition it
changes) that makes TLC find the property violated, the findings and the hazards.

## The system

### Components, state, operations

| component | state | operations | hard behaviour | modelled in |
|---|---|---|---|---|
| daemon wrapper (`worker/daemon/wrapper.go`) | the fields under `w.mu` (state, closed, javaCmd, javaStarting, deferred stop, autoRestartOff, fast crashes), the PID file | launch, reap, restart; frames stop, kill, disable, enable; timers of graceful stops; close and clean up | a stop in the launch window; stale timers; several connections; two wrappers of one instance | `Wrapper`, `WrapperProofs`, `Backoff`, `BackoffProofs`; from outside: `Supervisor`, `WrapperLife` |
| instance lifecycle (`worker/process/manager.go`, `daemon.go`, `lifecycle_gate.go`) | the Instance record under `Manager.mu`, the gate of the instance, strategy objects, wrapper handles, PID file | Start, Stop, Restart, RestartIfRunning, Kill, SetLaunchConfig; the reapers | reapers and edits run beside the gate; a prior generation still ending; cancelled callers; failed stops | `InstanceLifecycle`, `LifecycleProofs`; as its callers see it: `WorkerInstance`, `LifecycleContract` |
| circuit breaker (`worker/process/health_scan.go`) | healthState.broken, crash window, AutoRestart, the `.circuit` file, autoRestartOff in the wrapper | scan, break, disarm, release by a start, re-registration, restore | four copies of one truth without a common lock; frames lost or overtaken; a file that cannot be written or removed; Worker restarts | `CircuitBreaker`, `CircuitProofs` |
| self-healing of the health scan (`health_scan.go`) | zombie verdicts, grace counts | probe, restart an instance that looks dead | evidence that is stale when it is used | input of `CircuitBreaker`; `Heal` in `InstanceLifecycle` |
| direct and docker strategies (`direct.go`, `docker.go`) | the strategy object (state, cmd, spec), one wait loop per process | start, wait loop, stop, kill | the wait loop sleeps between check and restart; a loop of an older process; a container name that is taken; calls to Docker that fail | `WaitLoop`, `WaitProofs`; as its callers see it: `WorkerInstance` |
| control connection (`process/daemon.go`, `daemon/conn.go`, `frame.go`) | one current connection per wrapper, reconnect loop | dial, replace, send | every dial replaces the current connection; a written frame may be lost or overtaken | two connections in `CircuitBreaker`, lost stop frames in `InstanceLifecycle` |
| recovery (`manager.go`, `recover_orphan.go`, `adopt_orphan.go`, `orphan_scan.go`, `delete_reap.go`) | PID records, candidate processes | reconnect, adopt, reap | a process that ends while it is adopted; adoption beside a removal | `WorkerCrash`, `Adopt`, `Reap` of `Reconcile`; `WorkerRestart` of `CircuitBreaker` |
| tasks (`service/task.go`, `worker/taskreg`, `worker/heartbeat`) | the row and its log lines; the Worker's registry | create, report, cancel, finalize; log, conclude, drop | four writers that read first; a payload sent twice; cancel against completion; restarts; statements that fail | `TaskReport`, `TaskProofs` |
| the row of an instance (`service/instance.go`, `service/provision.go`, `controlplane/grpc/handler.go`, `evidence.go`) | status, reason and its source, the lock of the instance, grace counts | start, stop, restart, kill, delete, rebuild, resync; heartbeats; reconciliation of missing instances | three writers without a transaction; answers that come late or never; handlers that outlive their callers | `Reconcile`, `ReconcileProofs` |
| registration, tunnel (`worker/register`, `tunnel`) | node identity, session | register, reconnect | back-off that is reset after a stable minute | no |
| log delivery (`worker/logs/acquire`, `ledger`, `pipeline`, `ingest/runtime.go`) | the tailer's cursor, the write-ahead log, the ledger's positions and gaps, the event store, the generations published to VictoriaLogs, the persisted state | poll, append, persist, deliver (append a generation or replace all), record the result, reclaim, pause and resume, close gaps, restart | seven copies of a line that lag behind each other; a step that fails in the middle of a batch; a paused source that has to come back by itself; a crash between any two steps | `LogDelivery`, `LogDeliveryProofs` |
| self-update (`platform/selfupdate`, `service/selfupdate*.go`) | binary, backup, marker | replace, restart, roll back | a crash between two file steps | planned |
| bot load and fleets (`service/bot_*`, `worker/bot`) | run state, reservations, shards | plan, start, barrier, reclaim | many actors with leases and timeouts | no |
| the other services, routers, MCP, frontends | rows, files, sessions | create, read, update, delete, query | mostly storage and formatting | no |

`PROJECT.json` ("components") lists the same parts by source file.

### How they interact

The Control Plane calls `StartInstance`, `StopInstance`, ... of a Worker over
gRPC. The Worker first releases the circuit breaker (`ReleaseCircuitBreaker`)
and then enters `Manager.Start`, which queues for the gate of the instance, builds
a strategy when there is none and lets it wait for the prior generation
(`WaitForPriorExit`, a probe of the socket) and spawn a wrapper. The Worker's
reaper goroutine waits for the wrapper and reports its end to the record. The
wrapper listens on a socket; the Worker's connection carries terminal data and
the control frames stop, kill, disable and enable. The wrapper restarts Java by
itself after a crash, with a growing delay and up to a limit of fast crashes; the
circuit breaker of the Worker counts the crashes it is told of over a longer
window and turns the automatic restart off, in its own memory, on disk, in the
record, and by a frame in the wrapper. Everything but frames and the PID file is
shared memory under several locks, which no operation holds together.

The Control Plane takes a lock of its own per instance, registers the instance
with the Worker, calls it, and writes what came of it; beside that lock the
handler of every heartbeat writes what the Worker reports, and a goroutine judges
the instances that a heartbeat does not mention. A call that is given up goes on in
the Worker. Long tasks take the same way: a row in the database, an entry in the
Worker's registry, and heartbeats that carry the entries until they are confirmed.

### What makes each modelled part correct

- wrapper: one Java at a time; no Java survives its wrapper unsupervised; a stop
  or kill, whenever it comes, ends the wrapper; a crash loop ends; a disabled
  wrapper does not idle; a timer kills only what it was set for.
- lifecycle: one generation at a time; the record says RUNNING of what runs and
  not of what has ended; a start uses the configuration of its day; every
  operation gives the gate back.
- direct and docker: an older process's loop does not spoil the record of the next
  process; a kill is no crash; a stop outlives the back-off; a broken circuit
  restarts nothing more.
- tasks: an end is recorded, notified and only then forgotten; the last log lines
  arrive; a cancellation arrives.
- the row: it comes to say what the Worker says; a reason keeps its author; a
  deleted instance is gone; nothing is started behind a stop that was reported.
- circuit breaker: its four places agree once nothing is under way, or a named failure
  parted them; a break survives lost frames.
- log delivery: a line that was read is somewhere, or a gap says that it is not;
  what queries could see they go on seeing; a paused source resumes.

## The modules and the code

One action is one critical section, one system call, one access to a file or one
frame sent: between two of them the code has released every lock of the model, so
anything may happen. Local variables that live across such a boundary are part of
the state (`target`, `scan.state`, `op.old`, ...), because values read before
and used after it are where this code could go wrong.

### Wrapper

`w` holds the fields that `w.mu` protects, under their names. `lpc` is the
position of the one goroutine that runs `startJava` and then `javaWait` and so
on; `mpc` is main (`run`), which waits for closing and then runs its deferred
calls; `spc[t]` and `target[t]` are the position and the `cmd` of a `stopJava`
that thread `t` has begun, where a thread is a `readLoop` handler or the launcher
replaying a deferred stop. `timers` and `woken` are the goroutines that graceful
stops leave behind, before and after they read `javaCmd`. `proc` is the operating
system's view: alive, killed (signalled, not yet dead), dead.

`startJava` is `StartSuppressed`/`StartCommit` (first critical section),
`StartExec` (`cmd.Start`), `StartFailed` and `StartSetCrashed` or `StartRegister`
(second critical section), `StartWritePID`, `ApplyDeferredStop`, `ReplayStop`,
`StartReturn`. `stopJava` is `StopLocked`, then `WriteStop` or `ForceKill`, then
`SignalClose`. `javaWait` is `Reap` ... `JavaWaitClose`. The PID file of the
wrapper may get lost and then be taken over by another wrapper (`PIDFileLost`,
`TakeOver`).

`Supervisor` is the abstract specification of the wrapper, in five variables: Java as
seen from outside, whether a stop was asked for and has still to be obeyed, whether some
goroutine has decided to close, the late launch, and whether the wrapper exists. The end
of `Wrapper` maps the fields, the program counters and the processes to them (`JavaSeen`,
`StopAsked`, `Closing`, `LauncherCloses`), and `SupervisorContract` says that `Wrapper`
implements it. What this adds to the invariants is about requests: between two critical
sections the request may live in `state`, in `stopDeferred`, in the launcher's position,
or in a goroutine that is about to close the wrapper, and every step that overwrites one
of them must leave another.

`WrapperLife` is what the Worker takes for granted of a wrapper: it boots, is up with
Java, is told to stop, is gone, and no Java is left unless it was killed. `Wrapper`
implements the part of it that a wrapper does by itself, from the moment it listens
(`WrapperLifeContract`); `InstanceLifecycle` does nothing to a wrapper and expects
nothing of one beyond it (`WrappersAsExpected` in `LifecycleContract`). So the two
modules meet in a specification that both are proved against.

Abstracted: terminal data, stdin, resize and heartbeat frames, the environment and the
arguments of Java, exit codes; the restart delay has no length here (`Backoff`
computes it); whether a crash was fast is a free choice.

### Backoff

`backoffDelay` as `javaWait` calls it, in the arithmetic of `time.Duration`
(int64). 5^9 * 2^(n+8) nanoseconds are kept as 5^9 in the 56 - n bits that
are left, so that TLC's integers suffice. The state is the pair of counters. `DelayDoubles` says
what the delays are until the product overflows, `DelayAfterOverflow` what they are from
then on.

### CircuitBreaker

One action per critical section of `HealthScanner`, with the scanner's locals in
`scan`; `spc` are StartInstance handlers, from `ReleaseCircuitBreaker` to
`StartContext`; `epc` are `SetLaunchConfig` calls made by a re-registration, which
read the circuit and write `AutoRestart` later. `chan` holds the frames on their way
over two connections, the present one and the one before it: the wrapper reads each in
a goroutine of its own (`WrapperReads`), so frames are in order on one connection and
not between two; a fresh connection may replace the present one at any time (`Redial`),
and the wrapper closes a replaced one with what it has not read of it (`FramesLost`).
The lifecycle itself is condensed to what the breaker can see: `Start`, `Stop`
and `Reap` are single steps here (they run under the gate, which the scanner
does not take; the steps inside are `InstanceLifecycle`'s subject). `WorkerRestart` is the death of the Worker
and `RecoverDaemonInstances`, with the wrapper and its connection's queue
surviving or not. With `"file"` among the `Faults` the file's writing or removal may
fail, which the code only logs.

`lapses` records what may have parted the file from the circuit since it last broke or was
released: `missing` (the write failed, or the circuit broke while a release had yet to
remove the file) and `stale` (the removal failed, or the circuit was released while a break
had yet to write the file). `FileFollows` says that nothing else parts them, from the
moment `breakCircuit` goes on to the end of a release. `astray` records that, since the
last enable of a StartInstance, an enable was lost or overtook a disable of an earlier
connection, or a Worker restart cut something short: `WrapperFollows` says that nothing
else leaves a wrapper disabled under a closed circuit, and the next StartInstance clears
it.

### InstanceLifecycle

`op[o]` is the position of an operation with what it remembers, `inst` the record
under `Manager.mu`, `gate` the `lifecycleGate`. A strategy object outlives the
operation that built it, so strategies are numbered objects (`strat`), as are
wrappers (`life`, `java`, `host`, `reaper`). `built` and `spawned` are the last
numbers given. `SetLaunchConfig` (`EditWrite`, `EditClose`, `EditFinish`) and the
reapers (`Reap`, `Decide`, `Mark`) do not take the gate.

A wrapper comes up in the steps of its code: it listens and writes its first PID record
(`WrapperUp`), launches Java (`LaunchJava`: `unrecorded`) and only then writes
`JavaPID` (`RecordJava`), and it may be killed between any two of them. Each of the two
writes may fail, which it only logs. `Dial` writes the stop frame to a wrapper that
listens; the frame may be lost when another connection replaces that one before it was
read, and the stop goes on all the same. `missed` records the wrappers to which this
happened, and `HealthyIsRecorded` excepts exactly them. `OneJava` excepts the Java of a
wrapper that was killed before it recorded it (`Unseen`), which no wait can see.

`PriorExited` is the loop of `WaitForPriorExit` at the moment it answers: the PID
file is gone or it names a wrapper that has ended (and been reaped, or the process
would still exist) and whose Java, if it is recorded, has ended. The deadline is the refusing disjunct of `WaitPrior`. A wrapper seen from outside boots, is up, is told to stop, is gone; `Wrapper` is its
inside. What is assumed here is `WrapperLife` for safety (no way back from a stop, no
Java after an end of its own), which `Wrapper` is proved to follow but for the late
launch described below, and an end after every stop for liveness, which is
`StopEndsWrapper` there.
`lateObituary` records that the report of an older wrapper's end changed the record.

### WorkerInstance and LifecycleContract

`WorkerInstance` is the abstract specification of the Worker: the state of the
record and the gate, and who may write which state when. `LifecycleContract` maps
`InstanceLifecycle` to it (`state <- inst.state`); the run `lifecycle` checks its
specification as a property and `LifecycleProofs` proves it. `WaitLoop` maps itself in the
same way, with the operator and the loops as the holders of the gate (`Contract`; run
`wait_loop`, theorem `WaitContractHolds`), so that the three start modes implement one
state machine. `Reconcile` uses the
actions of the same module for the Worker it puts behind the Control Plane, with
`Holders <- {"call", "late"}`, so that what it assumes of the state machine there
is what the detailed module guarantees. The strategies and the process of
`Reconcile` are its own, coarser steps.

### WaitLoop

`op` is the operation that has the gate, with its position, `strat` the strategy
objects, `proc` the processes or containers with the strategy that launched each
(`host`) and their wait loops (`loop`): `LoopBegin` (Wait), `LoopReap`,
`LoopDecide` (a stop or a crash, by `d.state`), `LoopMark` (the report),
`LoopCheck` (`autoRestartAllowed`), `LoopWake`, and `AutoTake`, the loop's own
call of `Manager.Start`. `Take`, `StopBegin` ... `Killed` are the operators'
steps; `Removed` is docker's forced removal of the name before a start; `Edit` is
`SetLaunchConfig`, `Evidence` and `BreakCircuit` the scan, `Release` the start
that releases the circuit. Mode "docker" differs where the code does: the name is
taken, and a stop waits for the container, which is killed after a grace period.
There every call to Docker may fail: a start fails or is cancelled with the container
already running (`NotLaunched`), ContainerWait returns an error, which is taken for the
end of the container (`WaitFails`), ContainerStop fails before or after the container
was asked to stop (`StopFails`), and a kill leaves it alive (`Fell`). `adrift` records
the containers that such a call left running; `HealthyIsRecorded` excepts exactly them.
`overlap` and `misforced` record the two races that spoil the record (findings,
below), so that the properties say that nothing else does.

### TaskReport

One task of one of two kinds. `row` is its row, `logs` the numbers in `task_logs`;
`issuer` the request that creates it (`InstallAsync`, or the goroutine of
`RunAsync`) with its reads and writes apart; `canceler` a `Cancel`; `reg`, `next`
and `job` the registry's entry and the goroutine that executes the task; `beat`
the heartbeat loop with the payload it holds on to over its attempts, `flight` the
heartbeats on their way or in a handler. Every UPDATE is an action of its own
(`SetState`), with `finalizeTerminal` (`Finalize`) after it, which tells the user (`notes`)
and records the JDK that was installed (`recorded`). A fault is a restart of either
program or failing statements of the database, those of `finalizeTerminal` included: the
code only logs them, and `undone` records what was not written.

### Reconcile

`row` is the instance in the database, `op` the operation that holds the lock of
the instance with what it has read, `call` its call of the Worker and `late` a
handler whose caller has given up. `Request` is the part of an operation before
its goroutine; `Prepared` (`preflightStart`), `Observe`, `Registered`, `Acted`,
`NotActed`, `Query`, `WriteQuery` are `delegateToWorker` statement by statement;
`Halted` and `Removed` are the deletion, `Resync` is `ResyncNode`. The handlers of
the Worker are `CreateBegin`/`Create`, `StartBegin`/`StartDone`,
`StopBegin`/`StopDone`/`StopFails`, `Kill`, `RemoveBegin`/`Remove`/`Reap`; each
with a beginning and an end serves the call or goes on without it (`who`).
`Beat`, `BeatStatus`, `BeatReason`, `BeatMissing` are a heartbeat and the two
statements of its handler; `RecList` ... `RecClear` the reconciliation;
`Rebuild...`, `BuildFails`, `BuildDone` the tasks that build the directory.

Assumptions: a queued handler sees that its caller has gone before a later call
takes effect (`lockInstanceOperationContext` selects on the context); the read
and the write of `transition` are one step; a process that is killed dies within
the wait of `ReapDaemonForDelete`; a resync happens only after a fault broke the
connection; the strategy is the daemon's. Left out: adopting a foreign runtime,
the registration by `EnsureProbePort`, several instances (the operations of two
instances meet only in `reconcileMissingInstances`, which treats them one by one).

### LogDelivery

The file is the lines 1..MaxLine; line i is also the position after it, so that a
position stands for a prefix and a gap for a set of lines. `op` is the batch under
the pipeline's lock with its next step: `Admit` (the capacity sample and the first
reclaim), `AppendToWAL` (`Append`, `Commit`), `PersistBatch`
(`persistDurableBeforeDelivery`), `Plan` (`deliver` up to its decision),
`Publish` (`writeProjectionDay`), `Store` (`appendEvents` and the end of
`writeProjectionPlan`), `Record` (`RecordHTTPResult` with its reclaim), `Proof`
(`releaseRecovery`). `Plan` has the three ways of the code: the fast path for the
tail of the source (`Fast`), the slow one that leaves out what the store has, and the
one that replaces every generation after an unconfirmed publication. `Drain` is a
delivery of the oldest entries of the WAL by the maintenance loop; `Roll`,
`EvaluateResume`, `AutoResolve` and `Persist` are its other work, and run between any
two steps of a batch. `Settle` is what every reclaim ends in: pruning the WAL and,
for a paused source, the judgement whether it may resume. `Crash` loads what was
persisted: entries that were persisted as references into the event store are
looked up there.

`lost` records the lines that the code gives up without a gap, at five places:

- `refused`: the sampling of the capacity fails after the tailer has moved on
  (acquire/pipeline.go:286).
- `leapt`: `releaseRecovery` releases the WAL up to the end of the batch, past lines
  whose delivery was put off or failed.
- `healed`: a resume closes the gaps of rejected and undelivered lines as lines that
  will be read again (acquire/wal.go:525); the tailer does not go back.
- `resolved`: a gap is closed because its lines were once read back from
  VictoriaLogs, though the generation they were in was never published and its
  lines never stored.
- `uncovered`: `EventsStoredThrough` is a maximum, so an entry below it that the
  store does not have is taken for a reference into it and is missing from the lines
  a slow or replacing delivery works with: it is published but never stored, and the
  next replacement takes it out of the view. The comment at runtime.go:73 says that a
  body not yet in the store is never treated so.

`LossOnlyKnown` says that there is no sixth, through any combination of faults.
`OutageIsSurvived` says which of them an outage of VictoriaLogs can reach: while failed
insertions and failed samples are the only faults (`faults.outage`), what is stored is
visible, what the WAL forgets is stored, and only lines that the WAL never had are given
up, `refused` or rejected and `healed`.

Left out: failing fsyncs of the WAL and lost acknowledgements (nothing outside the
tests installs the fsync hook, and only an environment variable sets `AckLost`),
rotation and archives, the pause by capacity, recovery segments that a crash leaves
between two of their states, graceful shutdown, sources that span several days, the rebuild and the reconcile loops and a
loss of VictoriaLogs' data. What is over-approximated: the background persist may
happen at any moment, and an insert that fails may have verified any of its
lines.

## The runs

| run | what it asks | result |
|---|---|---|
| `wrapper` | Two concurrent control connections, crashes, failing launches, stop, kill, disable and enable frames: types, orphans only by a late launch, the crash-loop limit, stops and disabled wrappers end; and the whole implements `Supervisor` | holds |
| `circuit` | Scans, starts, a re-registration that rewrites `AutoRestart`, Worker restarts, frames that are lost or overtaken, a file that cannot be written or removed: do the wrapper and the file follow the circuit, and does a break reach the wrapper? | holds, with the named exceptions (`astray`, `lapses`) |
| `lifecycle` (LifecycleContract) | Two callers, every kind of operation, a configuration change, reapers in any order, a wrapper killed at any point of its launch, lost stop frames: one generation, the record follows, current configuration, crashes noticed, operations end; and the whole implements `WorkerInstance` | holds |
| `lifecycle_orphan` | Does a kill take Java along? | not always: finding 1 |
| `backoff_delays` | Are the first 34 delays 1, 2, 4, 8, 16, 30, 30, ... s? | holds |
| `wait_loop` | Direct and docker mode, operators against wait loops, one edit, one broken circuit, a failing call to Docker: is what runs recorded, is a kill no crash, does a stop outlive the back-off, does a broken circuit restart nothing more, do operations end, and does the whole implement `WorkerInstance`? | holds |
| `tasks` | A task of either kind, a cancellation, a heartbeat sent twice, one restart or failing statements: what may be lost, and by what alone | holds |
| `tasks_once` | Is a task finalized once? | no: finding 2 |
| `reconcile` | Two requests, one fault of any kind, heartbeats, reconciliation, builds, adoption: is a deleted instance gone, do reasons keep their author, does nothing start behind a stop? | holds |
| `reconcile_live` | One request, one fault: does the row come to say what the Worker says? | holds |
| `reconcile_damaged` | Is what runs always built? | no: finding 3 |
| `log_delivery` | One source, three faults of any kind (a failed sample, a deferred persist, a stale plan, a failed insert or append, a crash): where can a line get lost, is an outage of VictoriaLogs survived without loss, does what queries saw stay visible, does a paused source resume? | holds, with the five named places |

Eight more configurations are kept beside them for the statements that the code
violates and that need no run of their own: `Wrapper_orphan.cfg`,
`Wrapper_owner.cfg`, `CircuitBreaker_file.cfg`, `InstanceLifecycle_obituary.cfg`,
`InstanceLifecycle_stopping.cfg`, `Backoff_overflow.cfg`,
`LogDelivery_reclaim.cfg`, `LogDelivery_visible.cfg` (each checks one
definition, which TLC finds violated; "Further disagreements", below).

### Bounds

- Wrapper: two handlers, three launches, two frames, crash-loop limit 2 (5 in the
  code). Two handlers are needed for a stop and an enable in each other's windows;
  three launches for two crashes in a row and a launch after them (limit 2 reached, or
  a timer left over from an earlier stop); every pair of frames meets every step of
  the launcher. The last explored launch does not crash by itself
  (`JavaExits`): otherwise a run would end because the bound is reached and the
  liveness properties would say something about the bound. The proofs hold for
  every bound.
- CircuitBreaker: threshold 1 and a window of one crash (the count is compared and
  cleared, never used otherwise), one frame on its way over each of the two connections,
  three events, each a start, a re-registration or a restart of the Worker (630,713
  states). A scan's disarm, a release, a second release and a restart fit, with frames
  in both orders and any of them lost. One handler is
  enough: the gate lets starts through one by one, and what is outside it (the release)
  is repeated by the second start while the first one's frames are on their way. The
  proofs hold for every bound and every set of faults.
- InstanceLifecycle: two handlers, three requests, hence three
  strategies and three wrappers, and one change of configuration. A late obituary
  needs a generation, its end and another start, which are three requests. Each
  request builds and spawns at most once, so the guards `s \in Ids` of `Build` and
  `w \in Ids` of `Spawn` never block (462,943 states). The proofs hold for every bound.
- Backoff: 40 crashes for the run, 60 for the configuration that shows the shrinking delay;
  the proofs hold for any number.
- WaitLoop: two requests, three processes (the requests' and one restart), one edit,
  one break: every race of the module needs two processes, and a loop that is left
  over meets the operations of the third. One container may be left running by a failing
  call (`MaxAdrift`); failures that leave none are not bounded (468,338 states).
- TaskReport: one line kept of two, two heartbeats at a time, one of them lost, one
  cancellation, one fault: a retry beside the handler of the first attempt needs
  two, and the registry's window slides with the second line (552,522 states). A fault
  of the database strikes one statement, or both of one `finalizeTerminal`.
- Reconcile: two requests (an operation and one that follows it, or a delete and
  a resync), one fault, one heartbeat and one reconciliation at a time, the grace of
  two in full; a call and a handler left over. For liveness one request. `givenUp`
  and `adopted` are reached, so the exceptions of `DeletedIsGone` are real. The
  proofs hold for any number of requests and any set of faults.

- LogDelivery: four lines, batches of up to two, a high-water mark of two entries,
  drains of two, three faults. A batch of two of which one line is treated
  unlike the other, a batch before and one after it, a pause while a batch
  is under way, and a drain beside a new batch all fit. Each of the five places is
  reached: four with at most two faults, `uncovered` with three (a batch is refused, the
  persist of the next one is deferred while a drain stores it, and a crash takes the
  tailer back behind both). With five lines the properties hold too
  (2.2 million states).

`CHECK_DEADLOCK FALSE` stands in every configuration: an instance that is stopped,
a wrapper that has exited, and a bound that is reached are ends of a behaviour,
not deadlocks. That operations do not wait for each other for ever is
checked as liveness (`OperationsEnd`, `StopEndsWrapper`, `PauseEnds`).

### Fairness

- Goroutines that can run do run (weak fairness of launcher, reapers, handlers
  in the middle of a call, main, the scanner): the Go scheduler is preemptive.
- The gate is a channel; a waiting caller that is offered it again and again gets
  it (strong fairness of `Lock`): Go serves channel waiters in order of arrival.
- A killed process dies; a wrapper that was told to stop ends (its own
  kill timer, a property of `Wrapper`). A process that was only asked to stop is not
  assumed to obey.
- A disarm frame that is sent again on every scan is not lost every time (strong
  fairness of `Reads`: the wrapper reads what it finds again and again).
- In TaskReport the heartbeat loop, its handlers, the request and the goroutine that
  executes the task go on (a ticker, deadlines, the scheduler); a download whose
  context is cancelled returns. In Reconcile the same holds of operations, handlers, heartbeats, the reconciliation and the
  adoption scan. A goroutine of WaitLoop runs on, and a loop that queues for the gate
  gets it; a container that is asked to stop ends (docker kills it) unless that call
  fails. Nothing is assumed of failing calls (`StopFails`, `WaitFails`).
- In LogDelivery a batch under the lock goes on (`Ingest`), and the maintenance loop,
  which comes round every ten seconds, drains, reclaims and judges the resume of every
  source that can. Reading, background persists and the closing of gaps are not
  assumed to happen.
- Nothing is assumed of callers, frames, crashes, edits, builds, or the PID file.

## What is proved

`WrapperProofs` proves, for every set of handlers, every crash limit and every
bound on launches and frames (`LauncherAssumption`, `ConfigAssumption`,
`BoundAssumption` in `Wrapper`):

| theorem | statement |
|---|---|
| `Inductive` | `Spec => []IInv`, the inductive invariant |
| `TypeCorrect` | `TypeOK` |
| `OneJavaSafety` | `OneJava` (proved only; the run checks the contract, which includes it) |
| `OrphanSafety` | `OrphanOnlyByLateLaunch` |
| `ClosedIsFinalTheorem` | `ClosedIsFinal`: a closed wrapper launches nothing, but for a late launch (proved only, no run repeats it) |
| `CrashLoopTheorem` | `CrashLoopGivesUp` |
| `KilledOnlyOnStopTheorem` | `KilledOnlyOnStop` (proved only, likewise) |
| `AskInvariant` | `ReplayInv` and `AskInv`: where a request to stop is remembered |
| `StopIsPursuedHolds` | `StopIsPursued`: at every moment of a stop somebody is on the way to end the wrapper (proved only) |
| `SupervisorContractHolds` | `SupervisorContract`: the wrapper implements `Supervisor` |
| `WrapperLifeHolds` | `WrapperLifeContract`: what the Worker takes a wrapper for (proved only) |

The properties are not inductive: nothing in `OneJava` says that `startJava` is
only reached after the last process was reaped. `IInv` adds where the launcher
may be:

- `LauncherInv`: `javaStarting` and `javaCmd` are functions of the launcher's
  position, so that what a handler sees under the lock says where the launcher is.
- `ProcInv`: only the latest process may be alive, and only while the
  launcher is between `cmd.Start` and `Reap`. It implies `OneJava`.
- `TargetInv`, `TimerInv`: a thread that is about to signal, and a timer that is
  set or awake, belong to a stop in progress of the latest process, or the launcher is past
  reaping it and will close (`StopInProgress`); the state STOPPING cannot be
  overwritten by a launch. This gives `KilledOnlyOnStop`.
- `CloseInv`: whoever decided to close did so when no process was alive or about to be,
  and this stays so, unless `startJava` commits to a launch in between
  (`lateLaunch`). It gives `OrphanOnlyByLateLaunch` and `ClosedIsFinal`.
- `FastInv`: between the check of the crash-loop limit and the next launch
  the count is below the limit.
- `MainInv`: main leaves its wait only for a closed wrapper or a launcher that is
  done.

Each part has a lemma of its own (`TypeStep`, `LauncherStep`, `ProcStep`,
`TargetStep`, `MainStepInv`, `CloseStep`) with one step per action that disturbs
it.

The refinement needs one more invariant, relative to `IInv`. `AskInv` says that a stop
that finds Java starting is deferred (so that `StartRegister` may overwrite STOPPING by
RUNNING), that a deferred stop is replayed before the launcher waits for Java, and that
STOPPING without Java in sight has a goroutine that closes, or the launch it was
deferred to has failed and closes itself (so that `StartCommit`, `CountCrash` and
`CrashAgain` overwrite only what another goroutine has answered). `ReplayInv` says
that the launcher is in `stopJava` only during that replay. `StartOutside`,
`WaitOutside` and `OthersOutside` then map every step of a goroutine: most are quiet
(`Quiet`: they ask, decide to close, or show nothing), some forget a request that has been
answered (`Forgets`), and cmd.Start, the two kills, the end of Java and the exit
are the steps of `Supervisor` of these names.

`StopIsPursued` is the safety part of `StopEndsWrapper`: it names who will act, and
fairness only has to let him. Besides `AskInv` it needs `WokenInv` (a timer that woke
holds the process that is being stopped, so its kill is not spent on an earlier one)
and `DoneInv` (the launcher is not through unless the wrapper closes). `PursueStep`
follows the duty from hand to hand: a deferred stop to the launcher, a write to the
timer or to the kill, the timer to the process, the process to `Reap`.

What the Worker sees (`WrapperLifeHolds`) follows from this promise and one more
invariant, `LateInv`: once somebody has decided to close, Java lives only by the late
launch. `SeenFollows` goes through the steps of `Supervisor`, not through those of
`Wrapper`: asking and deciding are `Told`, an exit is `Ends` (by `LateInv` it leaves no
Java), and everything else stutters, because what was asked for is forgotten only
once the wrapper is closing.

`BackoffProofs` proves, for any number of crashes and any limit of fast ones:

| theorem | statement |
|---|---|
| `BackoffInductive` | `Spec => []IInv`: the delay is that of the last crash |
| `DelayDoublesHolds` | `DelayDoubles` |
| `DelayAfterOverflowHolds` | `DelayAfterOverflow` |

The delay depends on the count through a shift alone, and from the 56th crash on every
bit has been shifted out (`NothingLeft`), so that the infinitely many counts are 55 values
and one rule. `NoOverflow` and `Overflow` compute them (up to 34 the product is intact;
from 35 to 55 its sign is a bit of 5^9), `CapPassed` compares them with the cap, and
`DelayValue` says what `BackoffDelay` returns for every count.

`LifecycleProofs` proves, for every set of callers and editors and every bound
(`OpsAssumption`, `BoundAssumption` in `InstanceLifecycle`):

| theorem | statement |
|---|---|
| `LifecycleInductive` | `Spec => []IInv`, the inductive invariant |
| `LifecycleTypeCorrect` | `TypeOK` |
| `OneJavaHolds` | `OneJava` |
| `HealthyIsRecordedHolds` | `HealthyIsRecorded` |
| `StartsFromCurrentConfigHolds` | `StartsFromCurrentConfig` |
| `WorkerContractHolds` | `WorkerContract`: `InstanceLifecycle` implements `WorkerInstance` |
| `WrappersAsExpectedHolds` | `WrappersAsExpected`: what is expected of wrappers is `WrapperLife` (proved only) |
| `CrashIsWatchedHolds` | `CrashIsWatched`: a record that says RUNNING has a reaper that will correct it (proved only) |
| `RefusalHasCauseHolds` | `RefusalHasCause`: STARTING and a reset are somebody's unfinished work (proved only) |
| `OnlyFailedStopHolds` | `OnlyFailedStopLeavesStopping`: nothing but a failed stop leaves STOPPING behind (proved only) |

The gate alone explains none of these, since edits, reapers and wrappers do not
take it. The parts of `IInv` say what its holder may rely on all the same:

- `GateInv`: whoever is inside holds the gate, so the other operations are idle or
  queued (lemma `OthersOut`, the frame of every later step). `FreshInv`: numbers of
  strategies and wrappers are given out in order, and a wrapper that is alive
  has a waiting reaper.
- `StrategyInv`: whoever is about to close a strategy, operation or edit, has taken
  it out of the record before; the record's own one is open and up to date
  unless it is marked stale. With the check of the mark at the start this is
  `StartsFromCurrentConfig`.
- `StateInv`: what state an operation may find in the middle of its work, obituaries
  included; a cancelled start therefore never puts back STARTING.
- `AliveInv`: a wrapper that is alive is the last one, and somebody answers for it
  (`Tended`): the record as RUNNING, a start about to write RUNNING, a stop on its way
  to it, or a kill that has taken its strategy out. It implies
  `HealthyIsRecorded`, where nobody is inside. An obituary that changes the
  record without being late is that of the last wrapper, hence nobody is alive.
- `ClearedInv`: from the check of the state on, a start finds no wrapper alive, and so
  does a stop or a kill once it has hit the wrapper.
- `JavaInv`: at most one wrapper is alive or has a recorded Java (`Occupies`), and the
  PID file names it, so what the socket and `WaitForPriorExit` show is all the Java there
  is, but for one that was never recorded (`Unseen`). It implies `OneJava`.

`AliveInv` and `ClearedInv` except the wrappers that missed a stop frame, since the stop went on
without them. These two and `JavaInv` hold until a late obituary changes the record (item 7 of the
findings), as the properties do. One lemma per part (`TypeStep`, `GateStep`, `FreshStep`,
`StrategyStep`, `StateStep`, `AliveStep`, `JavaStep`) has one step per action.

For `WorkerContractHolds`: most steps change
neither the state nor the gate; those that do need from `IInv` that whoever is inside holds the gate (`GateInv`) and which state
it may find there (`StateInv`): a cancelled start puts back the state it found, which
the contract allows only for STOPPED and CRASHED. For `WrappersAsExpectedHolds`,
`WrappersAlone` sorts out the steps that touch a wrapper at all; `LivedInv` (a number that
was given out has been a wrapper) says that a spawn never revives one.

`CrashIsWatched` is the safety part of `CrashIsNoticed`, and holds without the exception
for late obituaries. `LastInv`: the strategy of the last wrapper knows it as its own, so
the reaper of that wrapper never lets go silently. `StartingInv`: while the start that
spawned it is STARTING, that strategy is in the record, neither closed nor marked as stopping,
so that the verdict on a wrapper that ends meanwhile is a crash, which takes STARTING away
before `Cas` could write RUNNING (`Launched`).

`RefusalHasCause` and `OnlyFailedStopLeavesStopping` say what keeps an instance from being
started. Each of the three states that `startLocked` refuses has an operation or an edit
that set it and is still at work (`CauseSteps`, `CauseKept`); by `OperationsEnd` that work
ends, and only the failure in finding 8 ends it with STOPPING in the record.

`ReconcileProofs` proves, for every number of requests and every set of faults
(`FaultsAssumption`, `BoundAssumption` in `Reconcile`):

| theorem | statement |
|---|---|
| `ReconcileTypeCorrect` | `TypeOK` |
| `DeletedIsGoneHolds` | `DeletedIsGone` |
| `ReasonOwnedHolds` | `ReasonOwned` |
| `NoLateStartHolds` | `NoLateStart` |

- `RowStep`: every statement of the three writers is one of five kinds, each of
  which keeps the type, the existence and the author of the reason; only `Removed`
  deletes. This gives `ReasonOwned`.
- `CallInv`, `GateInv`, `LateInv`: no call is under way between two calls; the gate
  belongs to the handler that works behind it, with a caller or without; a
  registration without a caller is on record.
- `GoneInv`: from the first half of a removal on (`Clearing`), the gate having been free,
  no late handler can start or stop anything, and only such a registration or an
  adoption puts the entry back; from the answer on (`Removing`) there is no process
  left to adopt. It implies `DeletedIsGone` and is needed because the row is deleted
  after the answer.
- `HaltInv`: from the answer to a stop or kill on no start without a caller is
  left (it would have had the gate), and no start can be requested without ending
  `halted`. With `GateInv` this is `NoLateStart`: a process is brought up only by a
  start that has a caller who asked for it, or had one.
- `CountInv`: every rebuild has been requested, hence the type of the counter.

`LogDeliveryProofs` proves, for files, batches, high-water marks and drains of any
size and any number of faults of any kinds (`FaultAssumption`, `BoundAssumption` in
`LogDelivery`):

| theorem | statement |
|---|---|
| `DeliveryInductive` | `Spec => []IInv`, the inductive invariant |
| `DeliveryTypeCorrect` | `TypeOK` |
| `LossOnlyKnownHolds` | `LossOnlyKnown` |
| `ShownStaysHolds` | `ShownStays` |
| `OutageIsSurvivedHolds` | `OutageIsSurvived` |

`LossOnlyKnown` alone does not survive a step that forgets: a reclaim takes entries
out of the WAL, and a crash goes back to older copies of everything but the store.
`IInv` adds what makes forgetting safe:

- `OrderInv`: the positions are ordered, the WAL lies between `reclaim` and
  `durable`, and only a batch not yet appended is ahead of `durable`.
- `BatchInv`: nothing of the WAL lies between two lines of the batch, so that a
  release up to its end (`releaseRecovery`) leaps over nothing but what `leapt` records;
  the lines of a batch that was appended are in the WAL or stored.
- `DoneInv`: an entry with a recorded result, and therefore whatever the delivery
  position covers, is stored or was given up. This is what lets `Settle` prune.
- `WriteInv`: a generation that replaces the others includes the store. With it
  `ShownStays` is a property of `Publish` alone.
- `DiskInv`: the same order, results and whereabouts hold of the persisted copy,
  together with today's store. This is what a crash falls back on.

Most work is in `Record`, `Proof` and `Drain` (a reclaim, a release, a resume
and the closing of gaps in one step) and in `Crash`, which looks up persisted references
in the store. `Settled` and `SettledCovers` say once for all reclaims which lines
they leave uncovered.

`OutageIsSurvived` needs a second invariant beside `IInv`, `faults.outage => Intact`,
because during an outage the publication is what is behind:

- `ShownInv`: store and view are equal but between publishing and storing.
- `EntriesInv`: an entry of the WAL is stored or was persisted with its body, so that
  `Canonical` has it; entries not in the store are above `through`; without a pending
  publication the store has every entry but the batch's.
- `GenerationInv`: a generation under way brings in the whole WAL and the batch, and what
  it does not write is visible already.
- `PathInv`: a batch from the file is above everything stored and delivered, so that it
  takes the fast path unless a publication is pending; a drained one is stored already
  unless one is; what lies before a delivered batch is stored.
- `TraceInv`: results are recorded for stored lines, and delivery gaps cover lines that
  the WAL or the store has.

`Intact` does not survive a deferred persist or a crash, which is what disagreements 10
and 11 below are made of. `OutageStep` collects the steps that keep it, and `OutageGoesOn`
ties it to the faults.

`CircuitProofs` proves, for every set of handlers, every threshold, every bound and any set
of faults (`BoundAssumption` in `CircuitBreaker`):

| theorem | statement |
|---|---|
| `CircuitInductive` | `Spec => []IInv`, the inductive invariant |
| `CircuitTypeCorrect` | `TypeOK` |
| `FileFollowsHolds` | `FileFollows` |
| `WrapperFollowsHolds` | `WrapperFollows` |

- `CrossInv`: a release removes the file only while the circuit is closed, or `missing`
  says that it broke again meanwhile; a break writes it only while the circuit is broken,
  or `stale` says that it was released meanwhile. With it `FileFollows` is inductive.
- `FollowInv`: unless something went astray, the last word sent to the wrapper
  (`Disabled` looks at the last frame of the present connection, then of the one before
  it, then at the wrapper) is `disable` only under a broken circuit, or before a scan that
  will look again or a release that will enable. It implies `WrapperFollows`, where all
  frames are read and nobody is on the way.
- `GoneInv`: no frame is on its way to a wrapper that is gone, so the next one starts
  with nothing to read.

`TaskProofs` proves, for any number of lines, heartbeats, losses and cancellations and
every set of faults (`BoundAssumption` in `TaskReport`):

| theorem | statement |
|---|---|
| `TaskInductive` | `Spec => []IInv`, the inductive invariant |
| `TaskTypeCorrect` | `TypeOK` |
| `StuckOnlyByLossHolds` | `StuckOnlyByLoss` |
| `EndIsNotifiedHolds` | `EndIsNotified` |
| `LastLinesArriveHolds` | `LastLinesArrive` |

The registry forgets a task on an answer, and the answer says nothing of what was
written. `IInv` follows the report on its way:

- `JobInv`, `SnapInv`: an entry that succeeded or failed gets no more lines, so a payload
  that holds an end holds the last lines.
- `FlightInv`: the payload the heartbeat waits for is in the hands of one handler; once
  it goes on the lines are in the database, and when it is to answer so is an end, or a
  fault has happened. This is `LastLinesArrive` at the step that forgets.
- `RowInv`, `IssuerInv`: once a task had an end its row has one, unless a write
  replaced it; and wherever the request that issued the task is, the task has an end,
  or the registry has it, or a fault happened. Together they give `StuckOnlyByLoss`.
- `FinalInv`: a handler finalizes an end. With it and the lemma `Finalized` (what
  `finalizeTerminal` leaves: told and recorded, or in `undone`) `EndIsNotified` is
  inductive; it says who is to finalize (`Finalizing`) as long as nobody has.

`WaitProofs` proves, for any numbers of operations, processes, edits and broken
circuits and both start modes (`ModesAssumption`, `BoundAssumption` in `WaitLoop`):

| theorem | statement |
|---|---|
| `WaitInductive` | `Spec => []IInv`, the inductive invariant |
| `WaitTypeCorrect` | `TypeOK` |
| `HealthyIsRecordedHolds` | `HealthyIsRecorded` |
| `KillIsNoCrashHolds` | `KillIsNoCrash` |
| `WakeRespectsStopHolds` | `WakeRespectsStop` |
| `BrokenRestartsNothingHolds` | `BrokenRestartsNothing` |
| `WaitContractHolds` | `WorkerContract`: `WaitLoop` implements `WorkerInstance`, without exception |
| `CrashIsWatchedHolds` | `CrashIsWatched`: a record that says RUNNING has a loop that will correct it (proved only) |

The loops decide beside the gate, by the state of their strategy. `IInv` says what they
and the holder of the gate may rely on:

- `OpInv`, `HostInv`: what an operation has in its hands at each place; processes are
  launched in order, each of a strategy built before.
- `RetiredInv`: a strategy that is no longer the record's bears the mark of a stop
  (`Marked`), or an edit took it away; after a completed stop all of them do. It gives
  `WakeRespectsStop`.
- `FelledInv`: what was killed belongs to a marked strategy that nobody starts again,
  hence `KillIsNoCrash`.
- `ReportInv`, `TendedInv`: as long as no start overtook a report, only the latest loop
  has still to report, and somebody answers for a process that is alive and about which
  no call to Docker failed (`Kept`): the record as
  RUNNING, a start about to write it, or a stop or kill on its way. It implies
  `HealthyIsRecorded`.
- `BrokenInv`: a loop that may still restart under a broken circuit had passed it
  before (`BrokenRestartsNothing`).
- `CountInv`: a strategy is built when the last one was taken away, which bounds their
  number.

For `WaitContractHolds` the steps of the gate's holder (`HolderStep`) and those beside the
gate (`BesideStep`: reports, edits, breaks) are mapped apart; the report of a process's
end is the only step without the gate that writes the state. The races that
`overlap` and `misforced` record make the state wrong, but never move it along an edge
that the contract does not have.

`CrashIsWatched` has no such exception either: the latest loop has still to report, or a
kill is under way, which writes the state itself. `OnDuty` adds that its strategy does not bear
the mark of a stop, hence that its report will not be swallowed; it begins with the launch,
survives the reports of earlier loops and forced crashes, and ends with a stop or a kill.

Only model-checked: all liveness
(`StopEndsWrapper`, `DisabledWrapperEnds`, `BreakReachesWrapper`, `CrashIsNoticed`,
`OperationsEnd`, `CancelArrives`, `Converges`, `PauseEnds`, ...), since the prover handles
neither fairness nor ENABLED; of `StopEndsWrapper` and `CrashIsNoticed` the safety part is
proved, as said above. No run repeats the definitions marked "proved only"; TLC finds each of
them true on the instances of the component's runs. The prover also has no induction over data with an
operator parameter and no
RECURSIVE operators; no module needs either.

## Findings

Violations that the runs exhibit, each against what the repository says of itself:

1. `TreeDies` (run `lifecycle_orphan`). On Unix Kill sends the kill frame and SIGKILL
   to the wrapper alone; Java has its own process group and survives if the frame
   was not read.
2. `FinalizedOnce` (`tasks_once`). `finalizeTerminal` relies on callers that decide
   by a row they read earlier: the end of a task is notified twice, possibly as two
   different ends.
3. `DamagedMustBeRebuilt` (`reconcile_damaged`). A kill writes STOPPED over DAMAGED;
   the start that follows runs an instance that was never completely built.

Further disagreements, each stated by a definition that the configuration named
above shows violated:

4. `NoOrphanJava`. `stopJava` decides to close while no Java is in sight, releases
   `w.mu` and calls `signalClose`, which takes it again. If the launcher, at the
   end of its back-off, enters the first critical section of `startJava` in
   between, it finds `closed` false and launches Java; the wrapper then exits
   without it. `disableAutoRestart` has the same gap. `OrphanSafety` proves that
   this is the only way.
5. `RestartOnlyAsOwner`. The ownership of the PID record is checked before the
   back-off delay of up to 30 s; `closed` and `autoRestartOff` are checked again after it,
   ownership is not, and `startJava` overwrites the record.
6. `ReleasedLeavesNoFile`. `breakCircuit` writes the file after unlocking; a
   release in between removes a file that is not there yet. No fault is needed for it
   (a removal that fails does the same); `FileFollowsHolds` proves that these two are the
   only ways.
7. `HealthyIsRunning`. After Kill the strategy object is another one, so the old
   reaper's guard does not see the new generation and its STOPPED or CRASHED may
   be written over RUNNING or STARTING.
8. `StoppingEnds`. A failing `strategy.Stop` leaves STOPPING in the record; start,
   stop and restart then fail, only Kill helps. `OnlyFailedStopHolds` proves that nothing
   else leaves it there.
9. `DelayNeverShrinks`. The crash count is never reset, the shift overflows: no
   delay at all from the 56th crash of one wrapper on. `DelayAfterOverflowHolds` proves
   what happens at each crash after the 34th.
10. `ReclaimedWasDelivered`. When a persist is deferred a batch is not delivered
   (runtime.go:9646). The next batch is above both the store's and the delivery position, takes
   the fast path, and its `releaseRecovery` (runtime.go:7332) releases the WAL past
   the deferred one: the line is in no store and has no gap. The comments at
   acquire/pipeline.go:408 and runtime.go:7234 say that nothing undelivered is
   reclaimed.
11. `StoredIsVisible`. A slow delivery stores the batch together with every durable
   entry of the WAL (`canonicalRecoveryEvents`, runtime.go:8050) but publishes the
   lines of the batch alone (runtime.go:4626). The next delivery of those entries finds
   them in the store, answers 204, closes their gaps and counts them as verified; queries
   do not see them until the reconcile loop compares the counts. The configuration gets
   there by a crash; deferred persists and failed insertions do as well, with six lines
   and five faults. With failed insertions alone `OutageIsSurvived` has the opposite.

Also seen in the models, without a definition of their own:

- Kill does not set `daemonStrategy.state` before it kills, so a reaper that
  decides first reports CRASHED (daemon.go:286) and may do so after
  `killLocked` wrote STOPPED. `directStrategy.Kill` marks the stop first.
- `breakCircuit` forces CRASHED (health_scan.go:479) on evidence read before; an
  instance that was started in between is recorded CRASHED while it runs
  (`misforced` in `WaitLoop`).
- `SetLaunchConfig` reads the circuit (manager.go:529) and writes `AutoRestart` later;
  a circuit that breaks in between is broken with `AutoRestart` true.

- Direct mode: a restart does not wait for the wait loop of the process it stopped.
  The loop then finds the state of the next process, takes the stop for a crash and
  clears the new command (`overlap`); a loop may also wait on a command that is nil,
  which ends the Worker (direct.go:97).
- The circuit is asked before the back-off and not after it; a stop between the
  wake-up and the gate is undone by the restart; an edit that drops the strategy
  during the back-off lets the loop restart after a kill; in docker mode such a restart
  removes a healthy container by force.
- `MarkRunning` writes running over an end that came first; a task whose Worker
  restarts stays running. A restart of the Control Plane between the UPDATE and
  `finalizeTerminal` loses the notification and the record of the JDK, and so does a
  failing statement of `finalizeTerminal`: nobody tries again.
- A stop frame that was written and never read leaves STOPPED over a wrapper that goes
  on (`missed`); the next start finds its socket and refuses. A wrapper killed between
  cmd.Start and its PID record leaves a Java beside which the next start launches
  another (`Unseen`).
- An error of ContainerWait is reported as a crash, and the restart then removes the
  healthy container by force; a cancelled start, a failing stop or a failing kill leaves
  a container that the record does not show (`adrift`).
- A broken circuit whose file could not be written is closed after a Worker restart; an
  enable that overtakes a disable of an earlier connection leaves a wrapper that will not
  restart until the next StartInstance (`astray`).
- An adoption between `manager.Remove` and `ReapDaemonForDelete` leaves an entry for a
  deleted instance in the Worker's table (`adopted`), and so does a registration that
  went on after its caller gave up (`givenUp`). A reap without a caller may kill a
  process that was started since.
- `reconcileMissingInstances` replaces the reason of a failed operation by its own,
  which the next healthy heartbeat clears; its evidence is taken before the gate, so
  that it may set STOPPED over a start until the next heartbeat.
- A kill of an instance whose process is not adopted yet has no strategy to kill by and
  reports success; the process is adopted later. A stop of a recovered instance drops
  its stale strategy, so the scan may adopt the ending process as RUNNING.
- Rebuilding takes no long-operation gate (provision.go:246), so rebuilds overlap; the
  build tasks write a reason and leave its source, so that a healthy heartbeat can take
  a build's reason back. A Control Plane that dies while it builds leaves a task that
  never ends and that refuses every start.

## Plan

In this order; each module is to come with its runs, properties and mutants.

1. `ControlChannel`: dialling, replacing and losing connections, with frames in
   flight, and what `stopViaFreshDial` and `reconnectAndSend` promise; refines the
   pair of connections that `CircuitBreaker` assumes and the lossy stop of
   `InstanceLifecycle`.
2. `Recovery`: Worker restart, reconnecting, adopting and reaping orphans in detail,
   composed with `InstanceLifecycle`.
3. What `LogDelivery` leaves out: rotation, recovery segments over a crash, and the
   reconcile loop that repairs what VictoriaLogs lost; then self-update and the tunnel.

Theorems to prove next: that the connections of `CircuitBreaker` are implemented by the
channel of item 1, and the safety part of what `Converges` and `PauseEnds` rest on, as
it is done for `StopEndsWrapper` and `CrashIsNoticed`.

## Not modelled, and why

Terminal traffic, files, metrics, cgroups, the content of logs and their queries, the database
and the user interface are input and output around the state
modelled here. Probes of the operating system (is this PID that process?) are
taken at their word: PID reuse is out of the models. Time is abstract: delays and
deadlines are free choices between their outcomes. `Create` and `Remove`,
`StopAll`, and a Worker restart during a lifecycle operation are not in
`InstanceLifecycle` yet; a Worker restart is in `CircuitBreaker` and, with creation
and removal, in `Reconcile`. The map covers a small share of the repository's
lines: most of them are services that validate, store, format and serve data, and
generated code. On Windows,
where a kill ends the process tree, finding 1 does not apply; the models follow
the Unix build.
