------------------------------- MODULE WaitLoop -------------------------------
(***************************************************************************)
(* The two start modes without a wrapper: directStrategy (direct.go) and   *)
(* dockerStrategy (docker.go) under Manager (manager.go).  Every process   *)
(* or container that Start launches gets a goroutine, waitLoop, which      *)
(* waits for its end, decides between a stop and a crash by the state of   *)
(* the strategy, reports a crash, sleeps for the back-off and then calls   *)
(* Manager.Start like any operator.                                        *)
(*                                                                         *)
(* Operators and loops take the lifecycle gate of the instance in turn;    *)
(* the loops decide and report beside it, and so do the health scan, which *)
(* may break the circuit, and SetLaunchConfig.  One action is one critical *)
(* section of the strategy's or the manager's lock, or one signal.  Every  *)
(* call to Docker may fail, also after it has done something.  The finer   *)
(* steps of the manager that both modes share with the daemon mode are     *)
(* those of InstanceLifecycle.                                             *)
(***************************************************************************)
EXTENDS Integers, FiniteSets

CONSTANTS
    Modes,        \* the start modes looked at, of "direct" and "docker"
    MaxRequests,  \* bound: operations asked for by operators
    MaxProcs,     \* bound: processes launched; a launch beyond it fails
    MaxEdits,     \* bound: changes of the launch configuration
    MaxBreaks,    \* bound: times the circuit breaks
    MaxAdrift     \* bound: containers that failing calls to Docker leave running

ASSUME ModesAssumption == Modes \subseteq {"direct", "docker"}
ASSUME BoundAssumption == {MaxRequests, MaxProcs, MaxEdits, MaxBreaks, MaxAdrift} \subseteq Nat

VARIABLES
    mode,      \* the start mode of the instance
    op,        \* the operation that holds the gate
    inst,      \* the Instance record: state, strategy (0: nil), stale, AutoRestart
    strat,     \* the strategy objects: state, cmd (0: nil), spec.AutoRestart
    built,     \* strategies built so far
    proc,      \* the processes: "told" has been asked to stop and still runs
    host,      \* the strategy that launched each process
    loop,      \* waitLoop of each process
    spawned,   \* processes launched so far
    broken,    \* healthState.broken has an entry
    window,    \* the crash window has reached the threshold
    scan,      \* the health scan between its evidence and breakCircuit
    requests, edits, breaks,  \* counters for the bounds
    panicked,  \* the Worker died of a nil pointer
    stopped,   \* history: an operator's stop has completed and no start has begun since
    felled,    \* history: processes that Kill ended
    adrift,    \* history: containers left running by a call to Docker that failed
    asleep,    \* history: loops between the check of the circuit and their start at the break
    edited,    \* history: strategies that an edit took out of the record or marked stale
    overlap,   \* history: a start began while an earlier loop had still to report
    misforced  \* history: a circuit break wrote CRASHED over a live or starting process

book == <<mode, broken, scan, breaks, edits, panicked, asleep, edited, misforced>>
procs == <<proc, host, spawned, felled, adrift>>
counters == <<requests, edits, breaks>>
memory == <<stopped, window, overlap>>
vars == <<mode, op, inst, strat, built, proc, host, loop, spawned, broken, window, scan,
          requests, edits, breaks, panicked, stopped, felled, adrift, asleep, edited, overlap,
          misforced>>

States == {"STOPPED", "STARTING", "RUNNING", "STOPPING", "CRASHED"}
Kinds == {"start", "stop", "restart", "kill"}
PCs == {"start", "launch", "undo", "fail", "cas", "stop", "halt", "signal", "drain",
        "stopped", "kill", "mark", "fell", "killed"}
LoopPCs == {"none", "begin", "wait", "reaped", "mark", "check", "sleep", "start", "done"}
Procs == 1..MaxProcs
Strats == 1..(MaxRequests + MaxEdits + 1)

\* The type of each variable.
TypeOK ==
    /\ mode \in Modes
    /\ op \in [by : {"free", "operator", "loop"}, kind : Kinds, pc : PCs, old : States,
               str : Strats \cup {0}, cmd : Procs \cup {0}]
    /\ inst \in [state : States, strategy : Strats \cup {0}, stale : BOOLEAN, auto : BOOLEAN]
    /\ strat \in [Strats -> [st : States, cmd : Procs \cup {0}, auto : BOOLEAN]]
    /\ built \in 0..(MaxRequests + MaxEdits + 1) /\ spawned \in 0..MaxProcs
    /\ proc \in [Procs -> {"none", "alive", "told", "dead"}]
    /\ host \in [Procs -> Strats \cup {0}]
    /\ loop \in [Procs -> LoopPCs]
    /\ scan \in {"idle", "keep", "force"}
    /\ {broken, window, panicked, stopped, overlap, misforced} \subseteq BOOLEAN
    /\ felled \subseteq Procs /\ adrift \subseteq Procs /\ asleep \subseteq Procs /\ edited \subseteq Strats
    /\ requests \in 0..MaxRequests /\ edits \in 0..MaxEdits /\ breaks \in 0..MaxBreaks

Free == [by |-> "free", kind |-> "start", pc |-> "start", old |-> "STOPPED",
         str |-> 0, cmd |-> 0]

\* The instance has been created with AutoRestart and never started.
Init ==
    /\ mode \in Modes
    /\ op = Free
    /\ inst = [state |-> "STOPPED", strategy |-> 0, stale |-> FALSE, auto |-> TRUE]
    /\ strat = [s \in Strats |-> [st |-> "STOPPED", cmd |-> 0, auto |-> TRUE]]
    /\ proc = [p \in Procs |-> "none"] /\ host = [p \in Procs |-> 0]
    /\ loop = [p \in Procs |-> "none"]
    /\ built = 0 /\ spawned = 0 /\ requests = 0 /\ edits = 0 /\ breaks = 0
    /\ broken = FALSE /\ window = FALSE /\ scan = "idle" /\ panicked = FALSE
    /\ stopped = FALSE /\ felled = {} /\ adrift = {} /\ asleep = {} /\ edited = {}
    /\ overlap = FALSE /\ misforced = FALSE

-----------------------------------------------------------------------------
\* The gate

Active == {"STARTING", "RUNNING", "STOPPING"}

\* The first step of an operation that has the gate; a restart (and the restart of
\* a self-heal) stops first what may be running.
Entry(kind) ==
    IF kind # "restart" THEN kind ELSE IF inst.state \in Active THEN "stop" ELSE "start"

\* An operator's request gets the gate.
Take(kind) ==
    /\ op.by = "free"
    /\ requests < MaxRequests /\ requests' = requests + 1
    /\ op' = [Free EXCEPT !.by = "operator", !.kind = kind, !.pc = Entry(kind)]
    /\ UNCHANGED <<book, inst, strat, built, procs, loop, memory>>

\* The Manager.Start of a loop gets the gate.
AutoTake(p) ==
    /\ op.by = "free" /\ loop[p] = "start"
    /\ op' = [Free EXCEPT !.by = "loop", !.cmd = p]
    /\ loop' = [loop EXCEPT ![p] = "done"]
    /\ UNCHANGED <<book, inst, strat, built, procs, requests, memory>>

Goto(pc) == op' = [op EXCEPT !.pc = pc]
At(pc) == op.by # "free" /\ op.pc = pc

-----------------------------------------------------------------------------
\* startLocked and Start of the strategies

StartRefused ==
    /\ At("start") /\ inst.state \notin {"STOPPED", "CRASHED"}
    /\ op' = Free
    /\ UNCHANGED <<book, inst, strat, built, procs, loop, requests, memory>>

\* A loop that has not yet reported how its process ended.
Unreported(p) == loop[p] \in {"begin", "wait", "reaped", "mark"}

\* A stale strategy is closed and built anew, with the AutoRestart of the day.
Build ==
    LET fresh == inst.strategy = 0 \/ inst.stale
        s == IF fresh THEN built + 1 ELSE inst.strategy
    IN
    /\ At("start") /\ inst.state \in {"STOPPED", "CRASHED"}
    /\ op' = [op EXCEPT !.pc = "launch", !.old = inst.state, !.str = s]
    /\ inst' = [inst EXCEPT !.state = "STARTING", !.strategy = s, !.stale = FALSE]
    /\ built' = IF fresh THEN s ELSE built
    /\ strat' = IF fresh THEN [strat EXCEPT ![s].auto = inst.auto] ELSE strat
    /\ stopped' = FALSE
    /\ overlap' = (overlap \/ \E p \in Procs : Unreported(p))
    /\ UNCHANGED <<book, procs, loop, requests, window>>

\* A container of the same name is removed by force before the new one is
\* created; nothing of the kind happens to a process.
Removed == IF mode = "docker" THEN [q \in Procs |-> IF proc[q] = "none" THEN "none" ELSE "dead"]
                              ELSE proc

\* A goroutine of an earlier launch is scheduled before the next launch, which
\* is why none may be at "begin".
Scheduled == \A q \in Procs : loop[q] # "begin"

\* Mutant of Launch: the caller is looked at after cmd.Start.
LaunchThenUndo ==
    LET p == spawned + 1
        s == op.str
    IN
    /\ At("launch") /\ Scheduled /\ p \in Procs
    /\ Goto("cas") \/ (op.by = "operator" /\ Goto("undo"))
    /\ strat' = [strat EXCEPT ![s].st = "RUNNING", ![s].cmd = p]
    /\ proc' = [Removed EXCEPT ![p] = "alive"]
    /\ host' = [host EXCEPT ![p] = s]
    /\ loop' = [loop EXCEPT ![p] = "begin"]
    /\ spawned' = p
    /\ UNCHANGED <<book, inst, built, felled, adrift, requests, memory>>

\* A call to Docker has failed about a container that runs on.
Leave(p) ==
    /\ adrift' = adrift \cup {q \in {p} : proc'[q] = "alive"}
    /\ Cardinality(adrift') <= MaxAdrift

\* A direct start is cancelled before it touches anything; a container's may have come far.
\* ContainerStart may fail, or be cancelled, with the container running: the strategy knows
\* it, but no loop waits for it.
NotLaunched ==
    LET p == spawned + 1
        s == op.str
        ByCaller == op.by = "operator" /\ Goto("undo")
    IN
    /\ UNCHANGED <<felled, loop>>
    /\ \/ ByCaller /\ UNCHANGED <<strat, proc, host, spawned, adrift>>
       \/ /\ Goto("fail") \/ (mode = "docker" /\ ByCaller)
          /\ strat' = [strat EXCEPT ![s].st = "CRASHED"]
          /\ proc' \in {proc, Removed}
          /\ UNCHANGED <<host, spawned, adrift>>
       \/ /\ mode = "docker" /\ p \in Procs
          /\ Goto("fail") \/ ByCaller
          /\ strat' = [strat EXCEPT ![s].st = "CRASHED", ![s].cmd = p]
          /\ proc' = [Removed EXCEPT ![p] = "alive"]
          /\ host' = [host EXCEPT ![p] = s]
          /\ spawned' = p /\ Leave(p)

Launched ==
    LET p == spawned + 1
        s == op.str
    IN
    /\ p \in Procs /\ Goto("cas")
    /\ strat' = [strat EXCEPT ![s].st = "RUNNING", ![s].cmd = p]
    /\ proc' = [Removed EXCEPT ![p] = "alive"]
    /\ host' = [host EXCEPT ![p] = s]
    /\ loop' = [loop EXCEPT ![p] = "begin"]
    /\ spawned' = p
    /\ UNCHANGED <<felled, adrift>>

Launch ==
    /\ At("launch") /\ Scheduled
    /\ NotLaunched \/ Launched
    /\ UNCHANGED <<book, inst, built, requests, memory>>

\* A cancelled start puts back the state it found, a failed one leaves CRASHED.
Undo ==
    /\ At("undo") \/ At("fail")
    /\ inst' = [inst EXCEPT !.state = IF op.pc = "undo" THEN op.old ELSE "CRASHED"]
    /\ op' = Free
    /\ UNCHANGED <<book, strat, built, procs, loop, requests, memory>>

\* Mutant of Cas: the result of the start is written whatever the state is now.
CasBlind ==
    /\ At("cas")
    /\ inst' = [inst EXCEPT !.state = "RUNNING"]
    /\ op' = Free
    /\ UNCHANGED <<book, strat, built, procs, loop, requests, memory>>

\* RUNNING only if the state is still STARTING.
Cas ==
    /\ At("cas")
    /\ inst' = [inst EXCEPT !.state = IF inst.state = "STARTING" THEN "RUNNING" ELSE inst.state]
    /\ op' = Free
    /\ UNCHANGED <<book, strat, built, procs, loop, requests, memory>>

-----------------------------------------------------------------------------
\* stopLocked and Stop of the strategies

StopBegin ==
    /\ At("stop")
    /\ IF inst.strategy = 0
       THEN op' = Free /\ UNCHANGED inst
       ELSE /\ op' = [op EXCEPT !.pc = "halt", !.str = inst.strategy]
            /\ inst' = [inst EXCEPT !.state = "STOPPING"]
    /\ UNCHANGED <<book, strat, built, procs, loop, requests, memory>>

\* Mutant of Halt: with nothing to stop it returns before it has left its mark.
HaltUnmarked ==
    LET s == op.str IN
    /\ At("halt")
    /\ op' = [op EXCEPT !.pc = IF strat[s].cmd = 0 THEN "stopped" ELSE "signal",
                        !.cmd = strat[s].cmd]
    /\ strat' = IF strat[s].cmd = 0 THEN strat ELSE [strat EXCEPT ![s].st = "STOPPING"]
    /\ UNCHANGED <<book, inst, built, procs, loop, requests, memory>>

\* The strategy is marked and its current process copied out.
Halt ==
    LET s == op.str IN
    /\ At("halt")
    /\ op' = [op EXCEPT !.pc = IF strat[s].cmd = 0 THEN "stopped" ELSE "signal",
                        !.cmd = strat[s].cmd]
    /\ strat' = [strat EXCEPT ![s].st = "STOPPING"]
    /\ UNCHANGED <<book, inst, built, procs, loop, requests, memory>>

Asked(p) == [proc EXCEPT ![p] = IF proc[p] = "alive" THEN "told" ELSE proc[p]]

\* Mutant of Signal: a container that does not obey is waited for without a limit.
SignalForever ==
    /\ At("signal")
    /\ proc' = IF mode = "docker" THEN proc ELSE Asked(op.cmd)
    /\ IF mode = "docker" THEN Goto("drain") ELSE Goto("stopped")
    /\ UNCHANGED <<book, inst, strat, built, host, spawned, felled, adrift, loop, requests,
                   memory>>

\* SIGINT returns at once, and fails on a process that has been waited for, as
\* the kill tried next does: the record keeps STOPPING.  ContainerStop waits.
Signal ==
    /\ At("signal")
    /\ proc' = Asked(op.cmd)
    /\ \/ mode = "docker" /\ Goto("drain")
       \/ mode = "direct" /\ loop[op.cmd] \in {"begin", "wait"} /\ Goto("stopped")
       \/ mode = "direct" /\ loop[op.cmd] \notin {"begin", "wait"} /\ op' = Free
    /\ UNCHANGED <<book, inst, strat, built, host, spawned, felled, adrift, loop, requests,
                   memory>>

\* ContainerStop fails, before or after the container has been asked to stop: the record
\* keeps STOPPING.
StopFails ==
    /\ mode = "docker" /\ (At("signal") \/ At("drain"))
    /\ op' = Free
    /\ UNCHANGED <<book, inst, strat, built, proc, host, spawned, felled, loop, requests, memory>>
    /\ Leave(op.cmd)

\* ContainerStop returns: the container is down, by itself or by SIGKILL.
Drain ==
    /\ At("drain") /\ proc[op.cmd] = "dead"
    /\ Goto("stopped")
    /\ UNCHANGED <<book, inst, strat, built, procs, loop, requests, memory>>

\* A strategy that became stale is dropped, and the state is STOPPED.
Stopped ==
    LET drop == inst.strategy = op.str /\ inst.stale IN
    /\ At("stopped")
    /\ inst' = [inst EXCEPT !.state = "STOPPED", !.stale = inst.stale /\ ~drop,
                            !.strategy = IF drop THEN 0 ELSE inst.strategy]
    /\ window' = FALSE
    /\ IF op.kind = "stop" THEN op' = Free /\ stopped' = TRUE
                           ELSE Goto("start") /\ UNCHANGED stopped
    /\ UNCHANGED <<book, strat, built, procs, loop, requests, overlap>>

-----------------------------------------------------------------------------
\* killLocked and Kill of the strategies

KillBegin ==
    /\ At("kill")
    /\ op' = [op EXCEPT !.pc = IF inst.strategy = 0 THEN "killed" ELSE "mark",
                        !.str = inst.strategy]
    /\ inst' = [inst EXCEPT !.strategy = 0, !.stale = FALSE]
    /\ UNCHANGED <<book, strat, built, procs, loop, requests, memory>>

\* Mutant of KillMark: the strategy is not marked, as it once was not.
KillUnmarked ==
    LET s == op.str IN
    /\ At("mark")
    /\ op' = [op EXCEPT !.pc = IF strat[s].cmd = 0 THEN "killed" ELSE "fell",
                        !.cmd = strat[s].cmd]
    /\ UNCHANGED <<book, inst, strat, built, procs, loop, requests, memory>>

KillMark ==
    LET s == op.str IN
    /\ At("mark")
    /\ op' = [op EXCEPT !.pc = IF strat[s].cmd = 0 THEN "killed" ELSE "fell",
                        !.cmd = strat[s].cmd]
    /\ strat' = [strat EXCEPT ![s].st = "STOPPING"]
    /\ UNCHANGED <<book, inst, built, procs, loop, requests, memory>>

\* SIGKILL, or ContainerKill and ContainerRemove; an error is only logged, although the
\* container may live.
Fell ==
    /\ At("fell") /\ Goto("killed")
    /\ \/ /\ proc' = [proc EXCEPT ![op.cmd] = "dead"]
          /\ felled' = felled \cup {p \in {op.cmd} : proc[p] # "dead"}
          /\ UNCHANGED adrift
       \/ mode = "docker" /\ UNCHANGED <<proc, felled>> /\ Leave(op.cmd)
    /\ UNCHANGED <<book, inst, strat, built, host, spawned, loop, requests, memory>>

Killed ==
    /\ At("killed")
    /\ inst' = [inst EXCEPT !.state = "STOPPED"]
    /\ op' = Free /\ stopped' = TRUE /\ window' = FALSE
    /\ UNCHANGED <<book, strat, built, procs, loop, requests, overlap>>

-----------------------------------------------------------------------------
\* waitLoop, beside the gate

LoopGoes(p, from, to) ==
    /\ loop[p] = from
    /\ loop' = [loop EXCEPT ![p] = to]
    /\ UNCHANGED <<op, built, proc, host, spawned, felled, counters, mode, broken, scan, asleep,
                   edited, misforced, stopped, overlap>>

\* directStrategy.waitLoop reads d.cmd without the lock and calls Wait on it;
\* an earlier loop may have set it to nil since the launch.
LoopBegin(p) ==
    /\ LoopGoes(p, "begin", "wait")
    /\ panicked' = (mode = "direct" /\ strat[host[p]].cmd = 0)
    /\ UNCHANGED <<window, inst, strat, adrift>>

\* Wait returns.
LoopReap(p) ==
    /\ proc[p] = "dead"
    /\ LoopGoes(p, "wait", "reaped")
    /\ UNCHANGED <<window, inst, strat, adrift, panicked>>

\* An error of ContainerWait is taken for the end of the container.
WaitFails(p) ==
    /\ mode = "docker" /\ proc[p] # "dead"
    /\ LoopGoes(p, "wait", "reaped")
    /\ Leave(p)
    /\ UNCHANGED <<window, inst, strat, panicked>>

\* The state of the strategy, not the process, says whether this is a crash;
\* directStrategy forgets its command, whichever that is by now.
LoopDecide(p) ==
    LET s == host[p]
        asked == strat[s].st \in {"STOPPING", "STOPPED"}
        left == IF mode = "direct" THEN 0 ELSE strat[s].cmd
    IN
    /\ LoopGoes(p, "reaped", IF asked THEN "done" ELSE "mark")
    /\ strat' = [strat EXCEPT ![s].st = IF asked THEN "STOPPED" ELSE "CRASHED", ![s].cmd = left]
    /\ UNCHANGED <<window, inst, adrift, panicked>>

\* Mutant of LoopMark: the report uses a state only the Control Plane knows.
LoopMarkDamaged(p) ==
    /\ LoopGoes(p, "mark", "check")
    /\ inst' = [inst EXCEPT !.state = "DAMAGED"]
    /\ window' = TRUE
    /\ UNCHANGED <<strat, adrift, panicked>>

\* markStrategyState(CRASHED) applies whatever the state has become, and
\* emitCrash counts the crash.
LoopMark(p) ==
    /\ LoopGoes(p, "mark", "check")
    /\ inst' = [inst EXCEPT !.state = "CRASHED"]
    /\ window' = TRUE
    /\ UNCHANGED <<strat, adrift, panicked>>

\* Mutant of LoopCheck: the circuit is not asked.
LoopCheckBlind(p) ==
    /\ LoopGoes(p, "check", IF strat[host[p]].auto THEN "sleep" ELSE "done")
    /\ UNCHANGED <<window, inst, strat, adrift, panicked>>

\* AutoRestart of the strategy, and the circuit, before the back-off.
LoopCheck(p) ==
    /\ LoopGoes(p, "check", IF strat[host[p]].auto /\ ~broken THEN "sleep" ELSE "done")
    /\ UNCHANGED <<window, inst, strat, adrift, panicked>>

\* After the back-off only the state of the strategy is looked at again.
LoopWake(p) ==
    /\ LoopGoes(p, "sleep", IF strat[host[p]].st = "CRASHED" THEN "start" ELSE "done")
    /\ UNCHANGED <<window, inst, strat, adrift, panicked>>

-----------------------------------------------------------------------------
\* Processes, the health scan, the operator's release, the configuration

\* A process ends; the last one explored runs until it is asked to stop.
ProcEnds(p) ==
    /\ proc[p] = "told" \/ (proc[p] = "alive" /\ p < MaxProcs)
    /\ proc' = [proc EXCEPT ![p] = "dead"]
    /\ UNCHANGED <<book, op, inst, strat, built, host, spawned, felled, adrift, loop, requests,
                   memory>>

\* The scan looks at the state and at the process before it decides to break.
Evidence ==
    LET s == inst.strategy
        seen == s # 0 /\ inst.state = "RUNNING" /\ strat[s].cmd # 0
                /\ proc[strat[s].cmd] # "dead"
    IN
    /\ scan = "idle" /\ ~broken /\ inst.auto /\ window
    /\ breaks < MaxBreaks /\ breaks' = breaks + 1
    /\ scan' = IF seen THEN "keep" ELSE "force"
    /\ UNCHANGED <<op, inst, strat, built, procs, loop, requests, edits, mode, broken, panicked,
                   memory, asleep, edited, misforced>>

Starting == op.by # "free" /\ op.pc \in {"launch", "cas"}

\* breakCircuit turns AutoRestart of the record off, not that of the strategy.
BreakCircuit ==
    /\ scan # "idle" /\ scan' = "idle"
    /\ broken' = TRUE
    /\ inst' = [inst EXCEPT !.auto = FALSE,
                            !.state = IF scan = "force" THEN "CRASHED" ELSE inst.state]
    /\ asleep' = {p \in Procs : loop[p] \in {"sleep", "start"} \/ (At("start") /\ op.cmd = p)
                                \/ (At("launch") /\ op.by = "loop" /\ op.cmd = p)}
    /\ misforced' = (misforced \/ (scan = "force" /\ (Starting \/ \E p \in Procs : proc[p] = "alive")))
    /\ UNCHANGED <<op, strat, built, procs, loop, counters, mode, panicked, memory, edited>>

\* ReleaseCircuitBreaker, before an operator's start.
Release ==
    /\ broken /\ broken' = FALSE
    /\ inst' = [inst EXCEPT !.auto = TRUE]
    /\ asleep' = {} /\ window' = FALSE
    /\ UNCHANGED <<op, strat, built, procs, loop, counters, mode, scan, panicked, stopped,
                   overlap, edited, misforced>>

\* SetLaunchConfig with AutoRestart on: a broken circuit keeps it off.
Edit ==
    /\ edits < MaxEdits /\ edits' = edits + 1
    /\ LET drop == inst.strategy # 0 /\ inst.state \notin Active IN
          inst' = [inst EXCEPT !.auto = ~broken,
                               !.stale = inst.strategy # 0 /\ ~drop,
                               !.strategy = IF drop THEN 0 ELSE inst.strategy]
    /\ edited' = edited \cup ({inst.strategy} \ {0})
    /\ UNCHANGED <<op, strat, built, procs, loop, requests, breaks, mode, broken, scan, panicked,
                   memory, asleep, misforced>>

-----------------------------------------------------------------------------
StartSteps == StartRefused \/ Build \/ Launch \/ Undo \/ Cas
StopSteps == StopBegin \/ Halt \/ Signal \/ Drain \/ Stopped
KillSteps == KillBegin \/ KillMark \/ Fell \/ Killed
OpSteps == StartSteps \/ StopSteps \/ KillSteps
LoopSteps(p) == \/ LoopBegin(p) \/ LoopReap(p) \/ LoopDecide(p) \/ LoopMark(p)
                \/ LoopCheck(p) \/ LoopWake(p)

Next ==
    /\ ~panicked
    /\ \/ \E kind \in Kinds : Take(kind)
       \/ \E p \in Procs : AutoTake(p) \/ LoopSteps(p) \/ WaitFails(p) \/ ProcEnds(p)
       \/ OpSteps \/ StopFails \/ Evidence \/ BreakCircuit \/ Release \/ Edit

Spec == Init /\ [][Next]_vars

\* Goroutines run, a loop that queues for the gate gets it, and ContainerStop, as long as it
\* has not failed, kills a container that outlives the grace period.
Fairness ==
    /\ WF_vars(~panicked /\ OpSteps)
    /\ \A p \in Procs : /\ WF_vars(~panicked /\ LoopSteps(p))
                        /\ SF_vars(~panicked /\ AutoTake(p))
                        /\ WF_vars(~panicked /\ mode = "docker" /\ At("drain") /\ op.cmd = p
                                   /\ proc[p] = "told" /\ ProcEnds(p))

FairSpec == Spec /\ Fairness

-----------------------------------------------------------------------------
\* Properties

\* The comment in startLocked: while nobody operates on it, an instance whose process runs
\* is recorded RUNNING, unless a call to Docker about this very container failed, a launch
\* came before the report of an earlier process, or the circuit broke on evidence that was
\* out of date.
HealthyIsRecorded ==
    op.by = "free" =>
        \A p \in Procs : proc[p] = "alive" =>
            inst.state = "RUNNING" \/ p \in adrift \/ overlap \/ misforced

\* The comment in Kill: what an operator kills is not counted as a crash, so
\* that it neither feeds the circuit breaker nor restarts.
KillIsNoCrash ==
    [][\A p \in felled : ~(loop[p] = "reaped" /\ loop'[p] = "mark")]_vars

\* A loop that wakes after an operator's stop has completed does not restart,
\* whatever happened during the sleep, unless an edit took its strategy away.
WakeRespectsStop ==
    [][\A p \in Procs : loop[p] = "sleep" /\ loop'[p] = "start" /\ stopped
                          => host[p] \in edited]_vars

\* FR-459: while the circuit is broken nothing restarts by itself, except what
\* had passed the check when it broke.
BrokenRestartsNothing ==
    [][broken /\ op.by = "loop" /\ spawned' # spawned => op.cmd \in asleep]_vars

\* An instance does not stay RUNNING without a process: a crash is noticed.
CrashIsNoticed ==
    []<>(inst.state # "RUNNING" \/ panicked \/ \E p \in Procs : proc[p] \in {"alive", "told"})

\* What CrashIsNoticed rests on: as long as an instance is recorded RUNNING, the loop of its
\* latest process has still to report, whatever the loops before it did to the strategy and
\* whoever breaks the circuit; or a kill, which writes the state itself, is under way
\* (startLocked, waitLoop, killLocked).
CrashIsWatched ==
    inst.state = "RUNNING" =>
        \/ spawned > 0 /\ Unreported(spawned)
        \/ At("mark") \/ At("fell") \/ At("killed")

\* What the Control Plane sees of an instance is the same in every start mode: loops that
\* report and restart beside the operators, old evidence that breaks the circuit and
\* edits do not take the state where the operations of the daemon mode could not.
Contract == INSTANCE WorkerInstance WITH Holders <- {"operator", "loop"},
                                         state <- inst.state, gate <- op.by
WorkerContract == Contract!Spec

\* Every operation gives the gate back.
OperationsEnd == []<>(op.by = "free" \/ panicked)
=============================================================================
