-------------------------- MODULE InstanceLifecycle --------------------------
(***************************************************************************)
(* The lifecycle of one daemon instance inside a Worker: Manager.Start,    *)
(* Stop, Restart, RestartIfRunning, Kill and SetLaunchConfig               *)
(* (internal/worker/process/manager.go) over daemonStrategy (daemon.go).   *)
(*                                                                         *)
(* The operations of an instance queue for its lifecycleGate, but three    *)
(* things happen beside the gate: SetLaunchConfig replaces the strategy    *)
(* under Manager.mu, the reaper goroutine of every wrapper writes back how *)
(* it ended, and the wrappers themselves live and die.  One action is one  *)
(* critical section of Manager.mu or of daemonStrategy.mu, or one step     *)
(* towards a process.  A wrapper is seen here from outside; module Wrapper *)
(* is its inside.                                                          *)
(***************************************************************************)
EXTENDS Integers

CONSTANTS
    Ops,          \* handlers that may run an operation on the instance together
    Editors,      \* handlers that may run SetLaunchConfig together
    MaxRequests,  \* bound: operations requested; each builds and spawns at most once
    MaxEdits      \* bound: changes of the launch configuration

ASSUME BoundAssumption == MaxRequests \in Nat \ {0} /\ MaxEdits \in Nat
ASSUME OpsAssumption == "free" \notin Ops

VARIABLES
    gate,      \* Instance.operationMu: who holds it, or "free"
    inst,      \* the Instance record: state, strategy (0: nil), stale, resetting
    config,    \* the launch configuration of the record, as a version number
    op,        \* each operation: where it is, what it is, what it remembers
    edit,      \* each SetLaunchConfig: where it is, and the strategy it closes
    strat,     \* the daemonStrategy objects: state, wrapperCmd (0: nil), closed, spec
    built,     \* strategies built so far
    life,      \* the wrapper processes
    java,      \* the Java of each wrapper: none, unrecorded, or recorded in the PID file
    host,      \* the strategy that spawned each wrapper
    reaper,    \* reapWrapper of each wrapper
    spawned,   \* wrappers spawned so far
    pidFile,   \* the wrapper the PID file names, or 0
    requests, edits,  \* counters for the bounds
    lateObituary,     \* history: the end of an older wrapper changed the state
    missed            \* history: the wrappers that missed a stop frame sent to them

record == <<gate, inst, config>>
strategies == <<strat, built>>
wrappers == <<life, java, pidFile>>
spawning == <<host, spawned>>
counters == <<requests, edits>>
histories == <<lateObituary, missed>>
vars == <<gate, inst, config, op, edit, strat, built, life, java, host, reaper,
          spawned, pidFile, requests, edits, lateObituary, missed>>

Kinds == {"start", "stop", "restart", "heal", "kill"}
States == {"STOPPED", "STARTING", "RUNNING", "STOPPING", "CRASHED"}
PCs == Kinds \cup {"idle", "queued", "closeStale", "reset", "wait", "spawn", "undo",
                   "fail", "cas", "halt", "dial", "haltKill", "settle", "closeOld",
                   "stopped", "killing", "closing", "killed"}
Ids == 1..MaxRequests
NoId == 0..MaxRequests

TypeOK ==
    /\ gate \in Ops \cup {"free"}
    /\ inst \in [state : States, strategy : NoId, stale : BOOLEAN, resetting : BOOLEAN]
    /\ config \in 0..MaxEdits
    /\ op \in [Ops -> [pc : PCs, kind : Kinds, old : States, str : NoId]]
    /\ edit \in [Editors -> [pc : {"idle", "close", "finish"}, str : NoId]]
    /\ strat \in [Ids -> [st : States, cmd : NoId, closed : BOOLEAN, config : 0..MaxEdits]]
    /\ life \in [Ids -> {"none", "boot", "up", "stopping", "gone"}]
    /\ java \in [Ids -> {"none", "unrecorded", "recorded"}]
    /\ host \in [Ids -> NoId]
    /\ reaper \in [Ids -> {"none", "waiting", "reaped", "STOPPED", "CRASHED", "done"}]
    /\ {built, spawned, pidFile, requests} \subseteq NoId
    /\ edits \in 0..MaxEdits
    /\ lateObituary \in BOOLEAN /\ missed \subseteq Ids

IdleOp == [pc |-> "idle", kind |-> "start", old |-> "STOPPED", str |-> 0]
IdleEdit == [pc |-> "idle", str |-> 0]

\* The instance has been created and never started.
Init ==
    /\ gate = "free" /\ config = 0
    /\ inst = [state |-> "STOPPED", strategy |-> 0, stale |-> FALSE, resetting |-> FALSE]
    /\ op = [o \in Ops |-> IdleOp]
    /\ edit = [e \in Editors |-> IdleEdit]
    /\ strat = [s \in Ids |-> [st |-> "STOPPED", cmd |-> 0, closed |-> FALSE, config |-> 0]]
    /\ life = [w \in Ids |-> "none"] /\ java = [w \in Ids |-> "none"]
    /\ host = [w \in Ids |-> 0] /\ reaper = [w \in Ids |-> "none"]
    /\ built = 0 /\ spawned = 0 /\ pidFile = 0
    /\ requests = 0 /\ edits = 0 /\ lateObituary = FALSE /\ missed = {}

-----------------------------------------------------------------------------
\* Requests and the gate

Leave(o) == gate' = "free" /\ op' = [op EXCEPT ![o] = IdleOp]
Goto(o, pc) == UNCHANGED gate /\ op' = [op EXCEPT ![o].pc = pc]

Request(o, kind) ==
    /\ op[o].pc = "idle"
    /\ requests < MaxRequests /\ requests' = requests + 1
    /\ op' = [op EXCEPT ![o] = [IdleOp EXCEPT !.pc = "queued", !.kind = kind]]
    /\ UNCHANGED <<record, edit, strategies, wrappers, spawning, reaper, edits, histories>>

\* lockInstanceOperationContext
Lock(o) ==
    /\ op[o].pc = "queued" /\ gate = "free"
    /\ gate' = o
    /\ op' = [op EXCEPT ![o].pc = op[o].kind]
    /\ UNCHANGED <<inst, config, edit, strategies, wrappers, spawning, reaper, counters,
                   histories>>

\* The caller gives up: in the queue, with the gate just taken, or, in a
\* restart, after the stop.  A self-heal has no caller.
Cancelled(o) ==
    /\ op[o].kind # "heal"
    /\ \/ op[o].pc = "queued" /\ op' = [op EXCEPT ![o] = IdleOp] /\ UNCHANGED gate
       \/ op[o].pc \in Kinds /\ Leave(o)
    /\ UNCHANGED <<inst, config, edit, strategies, wrappers, spawning, reaper, counters,
                   histories>>

\* RestartIfRunning looks at the state again once it holds the gate.
Heal(o) ==
    /\ op[o].pc = "heal"
    /\ IF inst.state = "RUNNING" THEN Goto(o, "restart") ELSE Leave(o)
    /\ UNCHANGED <<inst, config, edit, strategies, wrappers, spawning, reaper, counters,
                   histories>>

\* restartLockedContext stops first what may be running.
Restart(o) ==
    /\ op[o].pc = "restart"
    /\ Goto(o, IF inst.state \in {"RUNNING", "STARTING", "STOPPING"} THEN "stop" ELSE "start")
    /\ UNCHANGED <<inst, config, edit, strategies, wrappers, spawning, reaper, counters,
                   histories>>

-----------------------------------------------------------------------------
\* startLocked and daemonStrategy.Start

Startable == inst.state \in {"STOPPED", "CRASHED"} /\ ~inst.resetting
IsStale == inst.strategy # 0 /\ inst.stale

\* The guards, or a preflight check, refuse.
StartRefused(o) ==
    /\ op[o].pc \in {"start", "reset"}
    /\ op[o].pc = "start" /\ Startable => ~IsStale
    /\ Leave(o)
    /\ inst' = [inst EXCEPT !.resetting = inst.resetting /\ op[o].pc = "start"]
    /\ UNCHANGED <<config, edit, strategies, wrappers, spawning, reaper, counters, histories>>

\* A strategy that an edit made stale is taken out of the record, then closed.
DropStale(o) ==
    /\ op[o].pc = "start" /\ Startable /\ IsStale
    /\ op' = [op EXCEPT ![o].pc = "closeStale", ![o].str = inst.strategy]
    /\ inst' = [inst EXCEPT !.strategy = 0, !.stale = FALSE, !.resetting = TRUE]
    /\ UNCHANGED <<gate, config, edit, strategies, wrappers, spawning, reaper, counters,
                   histories>>

Close(s) == strat' = [strat EXCEPT ![s].closed = TRUE]

CloseStale(o) ==
    /\ op[o].pc = "closeStale"
    /\ Goto(o, "reset")
    /\ Close(op[o].str)
    /\ UNCHANGED <<inst, config, edit, built, wrappers, spawning, reaper, counters, histories>>

\* The strategy is built when there is none, and the instance is STARTING.
Build(o) ==
    /\ \/ op[o].pc = "start" /\ Startable /\ ~IsStale
       \/ op[o].pc = "reset"
    /\ LET s == IF inst.strategy = 0 THEN built + 1 ELSE inst.strategy IN
       /\ s \in Ids
       /\ op' = [op EXCEPT ![o].pc = "wait", ![o].old = inst.state, ![o].str = s]
       /\ inst' = [inst EXCEPT !.state = "STARTING", !.strategy = s, !.resetting = FALSE]
       /\ built' = IF s > built THEN s ELSE built
       /\ strat' = IF s > built THEN [strat EXCEPT ![s].config = config] ELSE strat
    /\ UNCHANGED <<gate, config, edit, wrappers, spawning, reaper, counters, histories>>

\* The PID file is gone, or its wrapper has been reaped and its Java has ended.  A Java
\* that is not recorded is not waited for.
PriorExited ==
    pidFile # 0 => /\ life[pidFile] = "gone" /\ reaper[pidFile] # "waiting"
                   /\ java[pidFile] # "recorded"

Listens(w) == life[w] \in {"up", "stopping"}
SocketServed == \E w \in Ids : Listens(w)

\* Mutant of WaitPrior: an exhausted budget is ignored, as it once was.
WaitPriorIgnored(o) ==
    /\ op[o].pc = "wait"
    /\ Goto(o, "spawn")
    /\ UNCHANGED <<inst, config, edit, strategies, wrappers, spawning, reaper, counters,
                   histories>>

\* Mutant of WaitPrior: the wait has no deadline.
WaitPriorForever(o) ==
    /\ op[o].pc = "wait"
    /\ \/ PriorExited /\ ~SocketServed /\ Goto(o, "spawn") /\ UNCHANGED strat
       \/ op[o].kind # "heal" /\ Goto(o, "undo") /\ UNCHANGED strat
    /\ UNCHANGED <<inst, config, edit, built, wrappers, spawning, reaper, counters, histories>>

\* WaitForPriorExitContext and SocketServedContext: pass, refuse, or be cancelled.
WaitPrior(o) ==
    /\ op[o].pc = "wait"
    /\ \/ PriorExited /\ ~SocketServed /\ Goto(o, "spawn") /\ UNCHANGED strat
       \/ /\ ~PriorExited \/ SocketServed
          /\ Goto(o, "fail")
          /\ strat' = [strat EXCEPT ![op[o].str].st = "CRASHED"]
       \/ op[o].kind # "heal" /\ Goto(o, "undo") /\ UNCHANGED strat
    /\ UNCHANGED <<inst, config, edit, built, wrappers, spawning, reaper, counters, histories>>

\* Mutant of Spawn: the caller is looked at after cmd.Start.
SpawnThenUndo(o) ==
    LET s == op[o].str
        w == spawned + 1
    IN
    /\ op[o].pc = "spawn"
    /\ \/ op[o].kind # "heal" /\ Goto(o, "undo") /\ UNCHANGED <<strat, spawning, life, reaper>>
       \/ /\ Goto(o, "fail")
          /\ strat' = [strat EXCEPT ![s].st = "CRASHED"]
          /\ UNCHANGED <<spawning, life, reaper>>
       \/ /\ \E pc \in {"cas", "undo"} : Goto(o, pc)
          /\ strat' = [strat EXCEPT ![s].st = "RUNNING", ![s].cmd = w]
          /\ spawned' = w /\ host' = [host EXCEPT ![w] = s]
          /\ life' = [life EXCEPT ![w] = "boot"]
          /\ reaper' = [reaper EXCEPT ![w] = "waiting"]
    /\ UNCHANGED <<inst, config, edit, built, java, pidFile, counters, histories>>

\* The wrapper process is started, unless that fails or the caller is gone.
Spawn(o) ==
    LET s == op[o].str
        w == spawned + 1
    IN
    /\ op[o].pc = "spawn"
    /\ \/ op[o].kind # "heal" /\ Goto(o, "undo") /\ UNCHANGED <<strat, spawning, life, reaper>>
       \/ /\ Goto(o, "fail")
          /\ strat' = [strat EXCEPT ![s].st = "CRASHED"]
          /\ UNCHANGED <<spawning, life, reaper>>
       \/ /\ w \in Ids /\ Goto(o, "cas")
          /\ strat' = [strat EXCEPT ![s].st = "RUNNING", ![s].cmd = w]
          /\ spawned' = w /\ host' = [host EXCEPT ![w] = s]
          /\ life' = [life EXCEPT ![w] = "boot"]
          /\ reaper' = [reaper EXCEPT ![w] = "waiting"]
    /\ UNCHANGED <<inst, config, edit, built, java, pidFile, counters, histories>>

\* Mutant of Undo: a failed start leaves DAMAGED, which only the Control Plane knows.
UndoDamaged(o) ==
    /\ op[o].pc \in {"undo", "fail"}
    /\ inst' = [inst EXCEPT !.state = IF op[o].pc = "undo" THEN op[o].old ELSE "DAMAGED"]
    /\ Leave(o)
    /\ UNCHANGED <<config, edit, strategies, wrappers, spawning, reaper, counters, histories>>

\* A cancelled start puts back the state it found, a failed one leaves CRASHED.
Undo(o) ==
    /\ op[o].pc \in {"undo", "fail"}
    /\ inst' = [inst EXCEPT !.state = IF op[o].pc = "undo" THEN op[o].old ELSE "CRASHED"]
    /\ Leave(o)
    /\ UNCHANGED <<config, edit, strategies, wrappers, spawning, reaper, counters, histories>>

\* Mutant of Cas: the result of the start is written whatever the state is now.
CasBlind(o) ==
    /\ op[o].pc = "cas"
    /\ inst' = [inst EXCEPT !.state = "RUNNING"]
    /\ Leave(o)
    /\ UNCHANGED <<config, edit, strategies, wrappers, spawning, reaper, counters, histories>>

\* RUNNING only if the state is still STARTING.
Cas(o) ==
    /\ op[o].pc = "cas"
    /\ inst' = [inst EXCEPT !.state = IF inst.state = "STARTING" THEN "RUNNING" ELSE inst.state]
    /\ Leave(o)
    /\ UNCHANGED <<config, edit, strategies, wrappers, spawning, reaper, counters, histories>>

-----------------------------------------------------------------------------
\* stopLocked and daemonStrategy.Stop

StopRefused(o) ==
    /\ op[o].pc = "stop" /\ inst.strategy = 0
    /\ Leave(o)
    /\ UNCHANGED <<inst, config, edit, strategies, wrappers, spawning, reaper, counters,
                   histories>>

\* No guard on the state: an instance that has ended is STOPPING as well.
StopBegin(o) ==
    /\ op[o].pc = "stop" /\ inst.strategy # 0
    /\ op' = [op EXCEPT ![o].pc = "halt", ![o].str = inst.strategy]
    /\ inst' = [inst EXCEPT !.state = "STOPPING"]
    /\ UNCHANGED <<gate, config, edit, strategies, wrappers, spawning, reaper, counters,
                   histories>>

Halt(o) ==
    /\ op[o].pc = "halt"
    /\ Goto(o, "dial")
    /\ strat' = [strat EXCEPT ![op[o].str].st = "STOPPING"]
    /\ UNCHANGED <<inst, config, edit, built, wrappers, spawning, reaper, counters, histories>>

\* The stop frame is written, on the control connection or on a fresh one, to a wrapper
\* that listens.  It is lost when the wrapper lets a newer connection replace that one
\* before it has read it.  Or no frame can be written.
Dial(o) ==
    /\ op[o].pc = "dial"
    /\ \/ \E w \in Ids :
             /\ Listens(w) /\ Goto(o, "settle")
             /\ \/ life' = [life EXCEPT ![w] = "stopping"] /\ UNCHANGED missed
                \/ life[w] = "up" /\ missed' = missed \cup {w} /\ UNCHANGED life
       \/ Goto(o, "haltKill") /\ UNCHANGED <<life, missed>>
    /\ UNCHANGED <<inst, config, edit, strategies, java, pidFile, spawning, reaper, counters,
                   lateObituary>>

\* Nobody can be told: the wrapper is killed.  To kill a process that has been
\* reaped is an error, and the state stays STOPPING.
HaltKill(o) ==
    LET w == strat[op[o].str].cmd IN
    /\ op[o].pc = "haltKill"
    /\ IF w = 0 THEN Goto(o, "settle") /\ UNCHANGED life
       ELSE IF reaper[w] = "waiting"
       THEN Goto(o, "settle") /\ life' = [life EXCEPT ![w] = "gone"]
       ELSE Leave(o) /\ UNCHANGED life
    /\ UNCHANGED <<inst, config, edit, strategies, java, pidFile, spawning, reaper, counters,
                   histories>>

\* A strategy that became stale during the run is dropped while STOPPING.
Settle(o) ==
    LET drop == inst.strategy = op[o].str /\ inst.stale IN
    /\ op[o].pc = "settle"
    /\ Goto(o, IF drop THEN "closeOld" ELSE "stopped")
    /\ inst' = IF drop THEN [inst EXCEPT !.strategy = 0, !.stale = FALSE] ELSE inst
    /\ UNCHANGED <<config, edit, strategies, wrappers, spawning, reaper, counters, histories>>

CloseOld(o) ==
    /\ op[o].pc = "closeOld"
    /\ Goto(o, "stopped")
    /\ Close(op[o].str)
    /\ UNCHANGED <<inst, config, edit, built, wrappers, spawning, reaper, counters, histories>>

Stopped(o) ==
    /\ op[o].pc = "stopped"
    /\ inst' = [inst EXCEPT !.state = "STOPPED"]
    /\ IF op[o].kind = "stop" THEN Leave(o) ELSE Goto(o, "start")
    /\ UNCHANGED <<config, edit, strategies, wrappers, spawning, reaper, counters, histories>>

-----------------------------------------------------------------------------
\* killLocked and daemonStrategy.Kill

KillBegin(o) ==
    /\ op[o].pc = "kill"
    /\ op' = [op EXCEPT ![o].pc = IF inst.strategy = 0 THEN "killed" ELSE "killing",
                        ![o].str = inst.strategy]
    /\ inst' = [inst EXCEPT !.strategy = 0, !.stale = FALSE]
    /\ UNCHANGED <<gate, config, edit, strategies, wrappers, spawning, reaper, counters,
                   histories>>

\* The kill frame, then at once SIGKILL to the wrapper: Java dies only if the
\* wrapper reads the frame first.  strat.st is left alone, errors are ignored.
Killing(o) ==
    LET w == strat[op[o].str].cmd IN
    /\ op[o].pc = "killing"
    /\ Goto(o, "closing")
    /\ \/ w = 0 /\ UNCHANGED <<life, java>>
       \/ w # 0 /\ life[w] = "gone" /\ UNCHANGED <<life, java>>
       \/ /\ w # 0 /\ life[w] # "gone"
          /\ life' = [life EXCEPT ![w] = "gone"]
          /\ java' \in {java, [java EXCEPT ![w] = "none"]}
    /\ UNCHANGED <<inst, config, edit, strategies, pidFile, spawning, reaper, counters,
                   histories>>

Closing(o) ==
    /\ op[o].pc = "closing"
    /\ Goto(o, "killed")
    /\ Close(op[o].str)
    /\ UNCHANGED <<inst, config, edit, built, wrappers, spawning, reaper, counters, histories>>

Killed(o) ==
    /\ op[o].pc = "killed"
    /\ inst' = [inst EXCEPT !.state = "STOPPED"]
    /\ Leave(o)
    /\ UNCHANGED <<config, edit, strategies, wrappers, spawning, reaper, counters, histories>>

-----------------------------------------------------------------------------
\* SetLaunchConfig, beside the gate

\* Mutant of EditWrite: the strategy of a running instance is not marked.
EditWriteUnmarked(e) ==
    /\ edit[e].pc = "idle"
    /\ edits < MaxEdits /\ edits' = edits + 1
    /\ config' = config + 1
    /\ IF inst.strategy = 0 \/ inst.state \in {"RUNNING", "STARTING", "STOPPING"}
       THEN UNCHANGED <<inst, edit>>
       ELSE /\ edit' = [edit EXCEPT ![e] = [pc |-> "close", str |-> inst.strategy]]
            /\ inst' = [inst EXCEPT !.strategy = 0, !.stale = FALSE, !.resetting = TRUE]
    /\ UNCHANGED <<gate, op, strategies, wrappers, spawning, reaper, requests, histories>>

\* The new configuration is written; the strategy of a running instance is
\* marked stale, that of another is taken out at once.
EditWrite(e) ==
    /\ edit[e].pc = "idle"
    /\ edits < MaxEdits /\ edits' = edits + 1
    /\ config' = config + 1
    /\ IF inst.strategy = 0
       THEN UNCHANGED <<inst, edit>>
       ELSE IF inst.state \in {"RUNNING", "STARTING", "STOPPING"}
       THEN inst' = [inst EXCEPT !.stale = TRUE] /\ UNCHANGED edit
       ELSE /\ edit' = [edit EXCEPT ![e] = [pc |-> "close", str |-> inst.strategy]]
            /\ inst' = [inst EXCEPT !.strategy = 0, !.stale = FALSE, !.resetting = TRUE]
    /\ UNCHANGED <<gate, op, strategies, wrappers, spawning, reaper, requests, histories>>

EditClose(e) ==
    /\ edit[e].pc = "close"
    /\ edit' = [edit EXCEPT ![e].pc = "finish"]
    /\ Close(edit[e].str)
    /\ UNCHANGED <<record, op, built, wrappers, spawning, reaper, counters, histories>>

EditFinish(e) ==
    /\ edit[e].pc = "finish"
    /\ edit' = [edit EXCEPT ![e] = IdleEdit]
    /\ inst' = [inst EXCEPT !.resetting = FALSE]
    /\ UNCHANGED <<gate, config, op, strategies, wrappers, spawning, reaper, counters,
                   histories>>

-----------------------------------------------------------------------------
\* The wrapper processes and their reapers

\* The wrapper listens and writes the PID file, with no Java in it.  A write that fails is
\* only logged.
WrapperUp(w) ==
    /\ life[w] = "boot"
    /\ life' = [life EXCEPT ![w] = "up"]
    /\ pidFile' \in {w, pidFile}
    /\ UNCHANGED <<record, op, edit, strategies, java, spawning, reaper, counters, histories>>

\* startJava up to cmd.Start, at first or after a crash: the PID file does not name it yet.
LaunchJava(w) ==
    /\ Listens(w)
    /\ java' = [java EXCEPT ![w] = "unrecorded"]
    /\ UNCHANGED <<record, op, edit, strategies, life, pidFile, spawning, reaper, counters,
                   histories>>

\* The rest of startJava, unless the write fails.
RecordJava(w) ==
    /\ Listens(w) /\ java[w] = "unrecorded"
    /\ java' = [java EXCEPT ![w] = "recorded"]
    /\ pidFile' = w
    /\ UNCHANGED <<record, op, edit, strategies, life, spawning, reaper, counters, histories>>

\* It ends with its Java, by itself or as told, and removes its own PID file.
WrapperEnds(w) ==
    /\ life[w] \in {"boot", "up", "stopping"}
    /\ life' = [life EXCEPT ![w] = "gone"]
    /\ java' = [java EXCEPT ![w] = "none"]
    /\ pidFile' = IF pidFile = w THEN 0 ELSE pidFile
    /\ UNCHANGED <<record, op, edit, strategies, spawning, reaper, counters, histories>>

\* A Java that lost its wrapper ends by itself or by hand.
OrphanEnds(w) ==
    /\ life[w] = "gone" /\ java[w] # "none"
    /\ java' = [java EXCEPT ![w] = "none"]
    /\ UNCHANGED <<record, op, edit, strategies, life, pidFile, spawning, reaper, counters,
                   histories>>

ReaperGoes(w, from, to) ==
    /\ reaper[w] = from
    /\ reaper' = [reaper EXCEPT ![w] = to]
    /\ UNCHANGED <<gate, config, op, edit, built, wrappers, spawning, counters, missed>>

\* cmd.Wait returns.
Reap(w) ==
    /\ life[w] = "gone"
    /\ ReaperGoes(w, "waiting", "reaped")
    /\ UNCHANGED <<inst, strat, lateObituary>>

\* A reaper whose strategy has another wrapper by now lets go; otherwise the
\* wrapper ended as asked, or crashed.
Decide(w) ==
    LET s == host[w]
        verdict == IF strat[s].closed \/ strat[s].st \in {"STOPPING", "STOPPED"}
                   THEN "STOPPED" ELSE "CRASHED"
    IN
    /\ reaper[w] = "reaped"
    /\ IF strat[s].cmd = w
       THEN ReaperGoes(w, "reaped", verdict) /\ strat' = [strat EXCEPT ![s].st = verdict]
       ELSE ReaperGoes(w, "reaped", "done") /\ UNCHANGED strat
    /\ UNCHANGED <<inst, lateObituary>>

\* w is not the last generation: another is there, or is being started.
Outlived(w) == spawned > w \/ \E o \in Ops : op[o].pc \in {"wait", "spawn"}

\* markStrategyState: a STOPPED that arrives while STARTING is ignored.
Mark(w) ==
    \E verdict \in {"STOPPED", "CRASHED"} :
       /\ ReaperGoes(w, verdict, "done")
       /\ inst' = IF verdict = "STOPPED" /\ inst.state = "STARTING"
                  THEN inst ELSE [inst EXCEPT !.state = verdict]
       /\ lateObituary' = (lateObituary \/ (inst'.state # inst.state /\ Outlived(w)))
       /\ UNCHANGED strat

-----------------------------------------------------------------------------
StartSteps(o) == \/ StartRefused(o) \/ DropStale(o) \/ CloseStale(o) \/ Build(o)
                 \/ WaitPrior(o) \/ Spawn(o) \/ Undo(o) \/ Cas(o)
StopSteps(o) == \/ StopRefused(o) \/ StopBegin(o) \/ Halt(o) \/ Dial(o)
                \/ HaltKill(o) \/ Settle(o) \/ CloseOld(o) \/ Stopped(o)
KillSteps(o) == KillBegin(o) \/ Killing(o) \/ Closing(o) \/ Killed(o)
OpSteps(o) == Heal(o) \/ Restart(o) \/ StartSteps(o) \/ StopSteps(o) \/ KillSteps(o)
EditSteps(e) == EditClose(e) \/ EditFinish(e)
WrapperSteps(w) == WrapperUp(w) \/ LaunchJava(w) \/ RecordJava(w) \/ WrapperEnds(w)
ReaperSteps(w) == Reap(w) \/ Decide(w) \/ Mark(w)

Next ==
    \/ \E o \in Ops : Lock(o) \/ Cancelled(o) \/ OpSteps(o)
    \/ \E o \in Ops, kind \in Kinds : Request(o, kind)
    \/ \E e \in Editors : EditWrite(e) \/ EditSteps(e)
    \/ \E w \in Ids : WrapperSteps(w) \/ OrphanEnds(w) \/ ReaperSteps(w)

Spec == Init /\ [][Next]_vars

\* A handler that holds the gate goes on, one that waits for it gets it in the
\* end, goroutines run, and a wrapper told to stop ends (its kill timer).
Fairness ==
    /\ \A o \in Ops : SF_vars(Lock(o)) /\ WF_vars(OpSteps(o))
    /\ \A e \in Editors : WF_vars(EditSteps(e))
    /\ \A w \in Ids : WF_vars(ReaperSteps(w)) /\ WF_vars(WrapperUp(w))
                      /\ WF_vars(life[w] = "stopping" /\ WrapperEnds(w))

FairSpec == Spec /\ Fairness

-----------------------------------------------------------------------------
\* Properties

Alive(w) == life[w] \in {"boot", "up"}

\* Java processes that the next start cannot see: killed was the wrapper, and before it had
\* recorded its Java.
Unseen(w) == life[w] = "gone" /\ java[w] = "unrecorded"

\* The reason for WaitForPriorExit and the socket probe: the Java processes of two
\* generations never run together, unless the wrapper of one was killed between cmd.Start
\* and its PID record, or a late obituary let a start in while a younger wrapper was booting.
OneJava ==
    \A v, w \in Ids : java[v] # "none" /\ java[w] # "none" =>
        v = w \/ Unseen(v) \/ Unseen(w) \/ lateObituary

\* The comments in startLocked and reapWrapper: while nobody operates on it, an instance
\* whose wrapper lives is recorded as RUNNING.  Two things spoil it: a stop frame that was
\* written and yet missed by this very wrapper, and a late obituary.
HealthyIsRecorded ==
    gate = "free" =>
        \A w \in Ids : Alive(w) => inst.state = "RUNNING" \/ w \in missed \/ lateObituary

\* The same without the second exception, as the comment in markStrategyState has it.
HealthyIsRunning ==
    gate = "free" => \A w \in Ids : Alive(w) => inst.state = "RUNNING" \/ w \in missed

\* SetLaunchConfig's marks: an instance is never started from a strategy that
\* was built before the last change of its configuration.
StartsFromCurrentConfig ==
    [][inst.state # "STARTING" /\ inst'.state = "STARTING"
         => strat'[inst'.strategy].config = config /\ ~strat'[inst'.strategy].closed]_vars

\* The repair markStrategyState was written for: an instance that stays RUNNING
\* has a wrapper, so that Start does not refuse a crashed one for ever: never for ever is
\* the record RUNNING and every wrapper dead.
CrashIsNoticed == []<>(inst.state # "RUNNING" \/ \E w \in Ids : Alive(w))

\* What CrashIsNoticed rests on: as long as the record says RUNNING, the reaper of the last
\* wrapper has still to report, whatever operations, edits and late obituaries came in
\* between; a report that is made takes RUNNING away (reapWrapper, markStrategyState).
CrashIsWatched ==
    inst.state = "RUNNING" =>
        spawned > 0 /\ reaper[spawned] \in {"waiting", "reaped", "STOPPED", "CRASHED"}

\* Every operation ends: the wait for the prior generation has a deadline, and
\* no path keeps the gate.
OperationsEnd == \A o \in Ops : []<>(op[o].pc = "idle")

\* ARCHITECTURE.md, section 10: STOPPING is left for STOPPED.
StoppingEnds == inst.state = "STOPPING" ~> inst.state # "STOPPING"

\* What startLocked refuses (STARTING, a record under reset) is always the unfinished work
\* of an operation or of an edit, so that it ends with them.
RefusalHasCause ==
    /\ inst.state = "STARTING" =>
           \E o \in Ops : op[o].pc \in {"wait", "spawn", "undo", "fail", "cas"}
    /\ inst.resetting => \/ \E o \in Ops : op[o].pc \in {"closeStale", "reset"}
                         \/ \E e \in Editors : edit[e].pc # "idle"

StoppingHasCause ==
    inst.state = "STOPPING" =>
        \E o \in Ops : op[o].pc \in {"halt", "dial", "haltKill", "settle", "closeOld", "stopped"}

\* And so is STOPPING, but for the one way out of stopLocked that leaves it behind:
\* strategy.Stop fails, because the wrapper to be killed has been reaped.
OnlyFailedStopLeavesStopping ==
    [][StoppingHasCause /\ ~StoppingHasCause'
         => \E o \in Ops : op[o].pc = "haltKill" /\ reaper[strat[op[o].str].cmd] # "waiting"]_vars

\* ARCHITECTURE.md on Kill: the whole tree goes, so that no Java is left behind
\* without its wrapper.
TreeDies == \A w \in Ids : java[w] # "none" => life[w] # "gone"
=============================================================================
