------------------------------ MODULE Reconcile ------------------------------
(***************************************************************************)
(* One instance as the Control Plane records it and as its Worker runs it. *)
(*                                                                         *)
(* Three parties write the row of the instance without a transaction: the  *)
(* operation that holds the lock of the instance (service/instance.go),    *)
(* which calls the Worker and writes what it believes came of it; the      *)
(* handler of the heartbeat (syncInstanceStates); and the reconciliation   *)
(* that a heartbeat sets off when it does not report a running instance    *)
(* (reconcileMissingInstances, in a goroutine of its own).  On the other   *)
(* side, a handler of the Worker may go on after its caller has given up.  *)
(* One action is one statement on the database, one step of a handler of   *)
(* the Worker, or one message.  The Worker is module WorkerInstance with   *)
(* its table of instances and the process added.                           *)
(***************************************************************************)
EXTENDS Integers, FiniteSets

CONSTANTS
    MaxRequests,  \* bound: operations that users request
    Faults,       \* the faults that may happen, of "cp", "worker", "call" and "crash"
    MaxFaults     \* bound: faults in a behaviour, each of another kind

ASSUME FaultsAssumption == Faults \subseteq {"cp", "worker", "call", "crash"} /\ MaxFaults \in 0..4
ASSUME BoundAssumption == MaxRequests \in Nat

VARIABLES
    row,        \* the instance in the database: status, text of status_reason, its source
    build,      \* the tasks that build and rebuild the working directory
    whole,      \* the working directory is complete
    op,         \* the operation that holds the lock: where it is, what it has read
    call,       \* its call of the Worker
    late,       \* what a handler of the Worker does whose caller has given up
    known,      \* the instance is in the Worker's table
    state, gate,\* module WorkerInstance
    was,        \* the state a start found
    strategy,   \* inst.strategy is not nil
    proc,       \* its process: none, up, or ending
    beat,       \* the heartbeat on its way or in its handler, with what it reports
    rec,        \* the reconciliation of missing instances
    grace,      \* reconcileGrace
    requests, faults,  \* counters for the bounds
    halted,     \* history: a stop or kill has succeeded and nothing was started since
    givenUp,    \* history: a registration was going on when its caller gave up
    adopted     \* history: a process was adopted between the halves of a removal

Worker == INSTANCE WorkerInstance WITH Holders <- {"call", "late"}

cpvars == <<op, call>>
workervars == <<known, state, gate, was, strategy, proc>>
beatvars == <<beat, rec, grace>>
buildvars == <<build, whole>>
bounds == <<requests, faults>>
history == <<halted, givenUp, adopted>>
vars == <<row, build, whole, op, call, late, known, state, gate, was, strategy, proc, beat,
          rec, grace, requests, faults, halted, givenUp, adopted>>

States == Worker!States
Statuses == States \cup {"DAMAGED"}
Active == {"RUNNING", "STARTING", "STOPPING"}
Kinds == {"start", "stop", "restart", "kill", "delete", "resync"}
Deleted == [there |-> FALSE, status |-> "STOPPED", text |-> "", ofWorker |-> FALSE]
NoOp == [pc |-> "idle", kind |-> "resync", seen |-> "STOPPED", found |-> "STOPPED"]
NoBuild == [first |-> FALSE, asked |-> FALSE, again |-> 0, cut |-> FALSE]
NoBeat == [pc |-> "idle", known |-> FALSE, state |-> "STOPPED", tone |-> "quiet"]
Tones == {"quiet", "healthy", "sick", "broken"}
Calls == {"start", "stop", "restart", "kill", "remove", "create"}

\* The type of each variable.
TypeOK ==
    /\ row \in [there : BOOLEAN, status : Statuses, text : {"", "cp", "build", "worker"},
                ofWorker : BOOLEAN]
    /\ build \in [first : BOOLEAN, asked : BOOLEAN, again : 0..MaxRequests, cut : BOOLEAN]
    /\ whole \in BOOLEAN
    /\ op \in [pc : {"idle", "prepare", "observe", "register", "act", "query", "write",
                     "halt", "remove", "settle", "resync"},
               kind : Kinds, seen : Statuses, found : States]
    /\ call \in {"none", "sent", "running", "reaping", "ok", "refused", "notRunning", "lost"}
    /\ late \in Calls \cup {"none", "reap"}
    /\ known \in BOOLEAN /\ state \in States /\ gate \in {"free", "call", "late"}
    /\ was \in {"STOPPED", "CRASHED"} /\ strategy \in BOOLEAN
    /\ proc \in {"none", "up", "ending"}
    /\ beat \in [pc : {"idle", "status", "reason", "missing"}, known : BOOLEAN,
                 state : States, tone : Tones]
    /\ rec \in {"idle", "list", "probe", "alive", "gone", "unknown", "clear"}
    /\ grace \in 0..2 /\ requests \in 0..MaxRequests /\ faults \subseteq Faults
    /\ halted \in BOOLEAN /\ givenUp \in BOOLEAN /\ adopted \in BOOLEAN

\* An instance that is stopped, that is being built for the first time, or that runs.
Init ==
    /\ \E s \in {"STOPPED", "RUNNING"}, b \in BOOLEAN :
          /\ b => s = "STOPPED"
          /\ row = [there |-> TRUE, status |-> s, text |-> IF b THEN "build" ELSE "",
                    ofWorker |-> FALSE]
          /\ build = [NoBuild EXCEPT !.first = b] /\ whole = ~b
          /\ state = s /\ strategy = (s = "RUNNING")
          /\ proc = IF s = "RUNNING" THEN "up" ELSE "none"
    /\ op = NoOp /\ call = "none" /\ late = "none"
    /\ known = TRUE /\ gate = "free" /\ was = "STOPPED"
    /\ beat = NoBeat /\ rec = "idle" /\ grace = 0
    /\ requests = 0 /\ faults = {} /\ halted = FALSE /\ givenUp = FALSE
    /\ adopted = FALSE

\* A fault happens, at most once of its kind.
Fault(f) ==
    /\ f \in Faults \ faults /\ Cardinality(faults) < MaxFaults
    /\ faults' = faults \cup {f}

-----------------------------------------------------------------------------
\* Statements on the row; none of them finds a deleted one

Put(r) == row' = IF row.there THEN r ELSE row
PutStatus(s) == Put([row EXCEPT !.status = s])
PutText(t, w) == Put([row EXCEPT !.text = t, !.ofWorker = w])

\* Damaged: the source of the reason stays the Worker.
ObservationSourceless(s, t) ==
    IF row.status = op.seen THEN Put([row EXCEPT !.status = s, !.text = t]) ELSE UNCHANGED row

\* writeLifecycleObservation: only over the status that was read before the call.
Observation(s, t) ==
    IF row.status = op.seen
    THEN Put([row EXCEPT !.status = s, !.text = t, !.ofWorker = FALSE]) ELSE UNCHANGED row

\* transition clears the text and leaves the source.
Transition(s) == Put([row EXCEPT !.status = s, !.text = ""])

-----------------------------------------------------------------------------
\* Operations

Goto(pc) == op' = [op EXCEPT !.pc = pc]
Send(pc) == Goto(pc) /\ call' = "sent"
End == op' = NoOp /\ call' = "none"

\* What is refused before the lock is of use: DAMAGED, and a task that builds the directory.
Building == build.first \/ build.again > 0 \/ build.cut
CanStart == row.status # "DAMAGED" /\ ~Building

\* A request that has taken the lock; validTransitions has no way to STOPPING but from
\* RUNNING and STARTING.  (A refused one changes nothing and is left out.)
Request(kind) ==
    /\ op.pc = "idle" /\ row.there
    /\ requests < MaxRequests /\ requests' = requests + 1
    /\ LET at(pc) == [NoOp EXCEPT !.pc = pc, !.kind = kind] IN
       \/ /\ kind \in {"start", "restart"} /\ CanStart
          /\ op' = at("prepare") /\ call' = "sent" /\ halted' = FALSE /\ UNCHANGED row
       \/ /\ kind = "stop" /\ row.status \in {"RUNNING", "STARTING"}
          /\ Transition("STOPPING")
          /\ op' = at("observe") /\ UNCHANGED <<call, halted>>
       \/ /\ kind = "kill"
          /\ PutStatus("STOPPED")
          /\ op' = at("observe") /\ UNCHANGED <<call, halted>>
       \/ /\ kind = "delete" /\ row.status \in Active
          /\ IF row.status = "STOPPING" THEN UNCHANGED row ELSE Transition("STOPPING")
          /\ op' = at("halt") /\ call' = "sent" /\ UNCHANGED halted
       \/ /\ kind = "delete" /\ row.status \notin Active
          /\ op' = at("remove") /\ call' = "sent" /\ UNCHANGED <<row, halted>>
    /\ UNCHANGED <<buildvars, late, workervars, beatvars, faults, givenUp, adopted>>

\* preflightStart: the registration and the check of the Worker, then the transition.
Prepared ==
    /\ op.pc = "prepare" /\ call \in {"ok", "refused", "lost"}
    /\ LET from == IF op.kind = "start" THEN {"STOPPED", "CRASHED"} ELSE {"RUNNING", "STARTING"}
           to == IF op.kind = "start" THEN "STARTING" ELSE "STOPPING"
       IN
       \/ PutText("cp", FALSE) /\ End
       \/ /\ call = "ok" /\ known
          /\ IF row.status \in from THEN Transition(to) /\ Goto("observe") /\ call' = "none"
             ELSE End /\ UNCHANGED row
    /\ UNCHANGED <<buildvars, late, workervars, beatvars, bounds, history>>

\* delegateToWorker reads the row again before it calls, or finds no connection.
Observe ==
    /\ op.pc = "observe"
    /\ \/ /\ op' = [op EXCEPT !.seen = row.status,
                              !.pc = IF op.kind \in {"start", "restart"} THEN "register" ELSE "act"]
          /\ call' = "sent" /\ UNCHANGED <<row, faults>>
       \/ Fault("call") /\ PutText("cp", FALSE) /\ End
    /\ UNCHANGED <<buildvars, late, workervars, beatvars, requests, history>>

\* The registration before the action: a restart needs it, a start does not.
Registered ==
    /\ op.pc = "register" /\ call \in {"ok", "refused", "lost"}
    /\ IF op.kind = "restart" /\ call # "ok" THEN Observation(op.seen, "cp") /\ End
       ELSE Send("act") /\ UNCHANGED row
    /\ UNCHANGED <<buildvars, late, workervars, beatvars, bounds, history>>

\* The action has succeeded.  A late success does not bring back to life what has been
\* stopped in the meantime.
Acted ==
    /\ op.pc = "act" /\ call = "ok"
    /\ CASE op.kind = "start" -> IF op.seen = "STARTING" THEN Observation("RUNNING", "")
                                 ELSE UNCHANGED row
         [] op.kind = "restart" -> Observation("RUNNING", "")
         [] OTHER -> Observation("STOPPED", "")
    /\ halted' = (halted \/ op.kind \in {"stop", "kill"})
    /\ End
    /\ UNCHANGED <<buildvars, late, workervars, beatvars, bounds, givenUp, adopted>>

NotActed ==
    /\ op.pc = "act" /\ call \in {"refused", "notRunning", "lost"}
    /\ Goto("query") /\ call' = "none"
    /\ UNCHANGED <<row, buildvars, late, workervars, beatvars, bounds, history>>

\* reconcileLifecycleObservation asks for the state, ...
Query ==
    /\ op.pc = "query"
    /\ \/ /\ Observation(op.seen, "cp") /\ End
       \/ /\ known /\ op' = [op EXCEPT !.pc = "write", !.found = state]
          /\ UNCHANGED <<row, call>>
    /\ UNCHANGED <<buildvars, late, workervars, beatvars, bounds, history>>

\* ... and writes the answer.
WriteQuery ==
    /\ op.pc = "write"
    /\ Observation(op.found, "cp") /\ End
    /\ UNCHANGED <<buildvars, late, workervars, beatvars, bounds, history>>

\* stopForDelete: a Worker on which nothing runs will do as well.
Halted ==
    /\ op.pc = "halt" /\ call \in {"ok", "notRunning", "refused", "lost"}
    /\ IF call \in {"ok", "notRunning"}
       THEN /\ Send("settle")
            /\ IF row.status = "STOPPING" THEN PutStatus("STOPPED") ELSE UNCHANGED row
       ELSE End /\ UNCHANGED row
    /\ UNCHANGED <<buildvars, late, workervars, beatvars, bounds, history>>

\* removeWorkerDataSettled and the transaction after it: what has just been stopped may need
\* some attempts.
Removed ==
    /\ op.pc \in {"remove", "settle"} /\ call \in {"ok", "refused", "lost"}
    /\ \/ call = "ok" /\ row' = Deleted /\ End
       \/ call # "ok" /\ End /\ UNCHANGED row
       \/ call # "ok" /\ op.pc = "settle" /\ Send("settle") /\ UNCHANGED row
    /\ UNCHANGED <<buildvars, late, workervars, beatvars, bounds, history>>

\* Damaged: what was listed before the lock was taken is registered.
ResyncOfList ==
    /\ op.pc = "idle" /\ faults \ {"crash"} # {}
    /\ op' = [NoOp EXCEPT !.pc = "resync"] /\ call' = "sent"
    /\ UNCHANGED <<row, buildvars, late, workervars, beatvars, bounds, history>>

\* ResyncNode, when the Worker has connected again: under the lock, what is still in the
\* database is registered.
Resync ==
    /\ op.pc = "idle" /\ row.there /\ faults \ {"crash"} # {}
    /\ op' = [NoOp EXCEPT !.pc = "resync"] /\ call' = "sent"
    /\ UNCHANGED <<row, buildvars, late, workervars, beatvars, bounds, history>>

Resynced ==
    /\ op.pc = "resync" /\ call \in {"ok", "refused", "lost"} /\ End
    /\ UNCHANGED <<row, buildvars, late, workervars, beatvars, bounds, history>>

OpStep == \/ Prepared \/ Observe \/ Registered \/ Acted \/ NotActed \/ Query \/ WriteQuery
          \/ Halted \/ Removed \/ Resynced

-----------------------------------------------------------------------------
\* The task that builds the working directory; it takes no lock of the instance

buildUnchanged == <<op, call, late, workervars, beatvars, faults, history>>

\* RebuildInstance reads the status, ...
RebuildAsked ==
    /\ row.there /\ row.status = "DAMAGED" /\ ~build.asked
    /\ requests < MaxRequests /\ requests' = requests + 1
    /\ build' = [build EXCEPT !.asked = TRUE]
    /\ UNCHANGED <<row, whole, buildUnchanged>>

\* ... looks for the core, and sets off a task, whatever others are at work.
Rebuild ==
    /\ build.asked /\ build' = [build EXCEPT !.asked = FALSE, !.again = @ + 1]
    /\ Put([row EXCEPT !.text = "build"]) /\ whole' = FALSE
    /\ UNCHANGED <<requests, buildUnchanged>>

\* The first build fails: DAMAGED.  A rebuild fails: only the reason is written.
BuildFails ==
    /\ \/ /\ build.first /\ build' = [build EXCEPT !.first = FALSE]
          /\ Put([row EXCEPT !.text = "build", !.status = "DAMAGED"])
       \/ /\ build.again > 0 /\ build' = [build EXCEPT !.again = @ - 1]
          /\ Put([row EXCEPT !.text = "build"])
    /\ whole' = FALSE
    /\ UNCHANGED <<requests, buildUnchanged>>

\* The directory is complete when no other task still writes to it.
BuildDone ==
    /\ \/ /\ build.first /\ build' = [build EXCEPT !.first = FALSE]
          /\ Put([row EXCEPT !.text = ""])
       \/ /\ build.again > 0 /\ build' = [build EXCEPT !.again = @ - 1]
          /\ Put([row EXCEPT !.text = "", !.status = "STOPPED"])
    /\ whole' = (build'.again = 0)
    /\ UNCHANGED <<requests, buildUnchanged>>

-----------------------------------------------------------------------------
\* The Worker.  A handler works for the call, or goes on for a call that was given up

CallKind == CASE op.pc \in {"prepare", "register", "resync"} -> "create"
              [] op.pc = "act" -> op.kind
              [] op.pc = "halt" -> "stop"
              [] OTHER -> "remove"

\* who handles a call of this kind, which has taken effect in part or not at all
Begins(kind) == call = "sent" /\ CallKind = kind
Handles(who, kind) == IF who = "call" THEN call = "running" /\ CallKind = kind ELSE late = kind
Reply(who, r) == IF who = "call" THEN call' = r /\ UNCHANGED late
                                 ELSE late' = "none" /\ UNCHANGED call

others == <<row, buildvars, op, beatvars, bounds, history>>

\* The Worker refuses: not in the table, or in no state for it.
Refuse ==
    /\ \E kind \in Calls :
          /\ Begins(kind)
          /\ CASE kind = "create" -> TRUE
               [] kind = "start" -> ~known \/ state \notin {"STOPPED", "CRASHED"}
               [] kind = "remove" -> known /\ state \in Active
               [] kind = "restart" -> ~known \/ (state \in Active /\ ~strategy)
               [] OTHER -> ~known
    /\ call' = "refused"
    /\ UNCHANGED <<late, workervars, others>>

\* stopLocked without a strategy: what stopForDelete takes for done.
NotRunning ==
    /\ Begins("stop") /\ known /\ ~strategy /\ gate = "free"
    /\ call' = "notRunning"
    /\ UNCHANGED <<late, workervars, others>>

\* registerInstanceFromProto is entered, and ...
CreateBegin ==
    /\ Begins("create") /\ call' = "running"
    /\ UNCHANGED <<late, workervars, others>>

\* ... does not ask whether anybody still waits.
Create(who) ==
    /\ Handles(who, "create") /\ Reply(who, "ok")
    /\ known' = TRUE
    /\ UNCHANGED <<state, gate, was, strategy, proc, others>>

\* A start, or the second half of a restart.
StartBegin(who) ==
    /\ known /\ Worker!Starting(who)
    /\ \/ who = "call" /\ (Begins("start") \/ Begins("restart")) /\ call' = "running"
       \/ Handles(who, "restart") /\ gate = who /\ UNCHANGED call
    /\ was' = state
    /\ UNCHANGED <<late, known, strategy, proc, others>>

\* strategy.Start has waited for the end of the last process and has started the next; RUNNING
\* is written if it is still STARTING.
StartDone(who) ==
    /\ Handles(who, "start") \/ Handles(who, "restart")
    /\ gate = who /\ (state = "STARTING" \/ Handles(who, "start"))
    /\ was' = "STOPPED"
    /\ \/ /\ proc = "none" /\ proc' = "up" /\ strategy' = TRUE /\ Reply(who, "ok")
          /\ gate' = "free" /\ state' = IF state = "STARTING" THEN "RUNNING" ELSE state
       \/ /\ Worker!AtRest(who) /\ gate' = "free" /\ state' = "CRASHED"
          /\ Reply(who, "refused") /\ UNCHANGED <<proc, strategy>>
       \/ /\ who = "late" /\ Worker!AtRest(who) /\ gate' = "free" /\ state' = was
          /\ Reply(who, "refused") /\ UNCHANGED <<proc, strategy>>
    /\ UNCHANGED <<known, others>>

\* A stop, or the first half of a restart.
StopBegin(who) ==
    /\ who = "call" /\ known /\ strategy
    /\ Begins("stop") \/ (Begins("restart") /\ state \in Active)
    /\ Worker!Stopping(who) /\ call' = "running"
    /\ UNCHANGED <<late, known, was, strategy, proc, others>>

\* strategy.Stop does not wait for the process; a strategy of an older specification is
\* dropped with it.  A restart goes on, unless its caller has given up.
StopDone(who) ==
    /\ gate = who /\ state = "STOPPING"
    /\ state' = "STOPPED" /\ proc' = IF proc = "up" THEN "ending" ELSE proc
    /\ strategy' \in {strategy, FALSE}
    /\ \/ Handles(who, "stop") /\ gate' = "free" /\ Reply(who, "ok")
       \/ Handles(who, "restart") /\ gate' = who /\ UNCHANGED <<call, late>>
       \/ who = "late" /\ Handles(who, "restart") /\ gate' = "free" /\ Reply(who, "refused")
    /\ UNCHANGED <<known, was, others>>

\* The wrapper cannot be told because it has gone; the state stays STOPPING.
StopFails(who) ==
    /\ Handles(who, "stop") \/ Handles(who, "restart")
    /\ gate = who /\ state = "STOPPING" /\ proc = "none"
    /\ Worker!Leave(who) /\ gate' = "free" /\ Reply(who, "refused")
    /\ UNCHANGED <<known, was, strategy, proc, others>>

\* Damaged: a kill does not wait for the gate.
KillAtOnce ==
    /\ Begins("kill") /\ known
    /\ state' = "STOPPED" /\ strategy' = FALSE /\ call' = "ok"
    /\ proc' = IF strategy /\ proc = "up" THEN "ending" ELSE proc
    /\ UNCHANGED <<late, known, gate, was, others>>

Kill ==
    /\ Begins("kill") /\ known /\ gate = "free"
    /\ state' = "STOPPED" /\ strategy' = FALSE /\ call' = "ok"
    /\ proc' = IF strategy /\ proc = "up" THEN "ending" ELSE proc
    /\ UNCHANGED <<late, known, gate, was, others>>

\* RemoveInstance looks at the state, then waits for the gate; nobody can call it off.
RemoveBegin ==
    /\ Begins("remove") /\ ~(known /\ state \in Active) /\ call' = "running"
    /\ UNCHANGED <<late, workervars, others>>

\* Manager.Remove, behind the gate, takes the instance out of the table and lets go of its
\* process; ReapDaemonForDelete follows.
Remove(who) ==
    /\ Handles(who, "remove") /\ gate = "free"
    /\ IF who = "call" THEN call' = "reaping" /\ UNCHANGED late ELSE late' = "reap" /\ UNCHANGED call
    /\ known' = FALSE /\ state' = "STOPPED" /\ strategy' = FALSE
    /\ proc' = IF strategy /\ proc = "up" THEN "ending" ELSE proc
    /\ UNCHANGED <<gate, was, others>>

\* ReapDaemonForDelete, behind the gate no more: whatever process the PID file names.
Reap(who) ==
    /\ IF who = "call" THEN call = "reaping" ELSE late = "reap"
    /\ Reply(who, "ok") /\ proc' = "none"
    /\ state' = IF proc # "none" /\ state = "RUNNING" THEN "CRASHED" ELSE state
    /\ UNCHANGED <<known, gate, was, strategy, others>>

ProcExit ==
    /\ proc = "ending" /\ proc' = "none"
    /\ state' = IF state = "RUNNING" THEN "CRASHED" ELSE state
    /\ UNCHANGED <<call, late, known, gate, was, strategy, others>>

\* AdoptUnmanagedDaemonInstances: a process without a strategy.
Adopt ==
    /\ proc # "none" /\ (~known \/ (~strategy /\ state \in {"STOPPED", "CRASHED"}))
    /\ known' = TRUE /\ state' = "RUNNING" /\ strategy' = TRUE
    /\ adopted' = (adopted \/ call = "reaping")
    /\ UNCHANGED <<row, buildvars, op, call, late, gate, was, proc, beatvars, bounds, halted, givenUp>>

Handler ==
    \/ Refuse \/ NotRunning \/ CreateBegin \/ Kill \/ RemoveBegin
    \/ \E who \in {"call", "late"} :
          \/ Create(who) \/ StartBegin(who) \/ StartDone(who) \/ StopBegin(who)
          \/ StopDone(who) \/ StopFails(who) \/ Remove(who) \/ Reap(who)

-----------------------------------------------------------------------------
\* Heartbeats

\* The Worker takes a snapshot of its table and of what its health scan has found.
Beat ==
    /\ beat.pc = "idle"
    /\ \E tone \in Tones :
          /\ tone \in CASE ~known -> {"quiet"}
                        [] state = "RUNNING" -> {"healthy", "sick"}
                        [] state = "CRASHED" -> {"quiet", "sick", "broken"}
                        [] OTHER -> {"quiet"}
          /\ beat' = IF known THEN [pc |-> "status", known |-> TRUE, state |-> state, tone |-> tone]
                      ELSE [NoBeat EXCEPT !.pc = "missing"]
    /\ UNCHANGED <<row, buildvars, op, call, late, workervars, rec, grace, bounds, history>>

\* DAMAGED is no contradiction to a Worker on which nothing runs.
Shielded == row.status = "DAMAGED" /\ beat.state \in {"STOPPED", "CRASHED"}

\* Damaged: status and reason in one statement, so that the condition on the reason holds
\* back the status.
BeatBoth ==
    /\ beat.pc = "status"
    /\ beat' = [beat EXCEPT !.pc = "reason"]
    /\ IF Shielded \/ (beat.state = "CRASHED" /\ beat.tone = "sick" /\ row.text # "") THEN UNCHANGED row
       ELSE PutStatus(beat.state)
    /\ UNCHANGED <<buildvars, op, call, late, workervars, rec, grace, bounds, history>>

\* syncInstanceStates: the first statement.
BeatStatus ==
    /\ beat.pc = "status"
    /\ beat' = [beat EXCEPT !.pc = "reason"]
    /\ IF Shielded THEN UNCHANGED row ELSE PutStatus(beat.state)
    /\ UNCHANGED <<buildvars, op, call, late, workervars, rec, grace, bounds, history>>

\* The second: a reason of the Worker's own is taken back when all is well; one of a crash
\* does not replace another.
BeatReason ==
    /\ beat.pc = "reason" /\ beat' = NoBeat /\ grace' = 0
    /\ CASE beat.tone = "healthy" -> IF row.ofWorker THEN PutText("", FALSE) ELSE UNCHANGED row
         [] beat.tone = "quiet" \/ Shielded -> UNCHANGED row
         [] beat.tone = "sick" /\ beat.state = "CRASHED" ->
                IF row.text = "" THEN PutText("worker", TRUE) ELSE UNCHANGED row
         [] OTHER -> PutText("worker", TRUE)
    /\ UNCHANGED <<buildvars, op, call, late, workervars, rec, bounds, history>>

\* Not reported: the reconciliation is dispatched, unless one is at work for this node.
BeatMissing ==
    /\ beat.pc = "missing" /\ beat' = NoBeat
    /\ rec' = IF rec = "idle" THEN "list" ELSE rec
    /\ UNCHANGED <<row, buildvars, op, call, late, workervars, grace, bounds, history>>

recUnchanged == <<buildvars, op, call, late, workervars, beat, bounds, history>>

\* reconcileMissingInstances: what the database takes for running, ...
RecList ==
    /\ rec = "list" /\ rec' = IF row.there /\ row.status \in Active THEN "probe" ELSE "idle"
    /\ UNCHANGED <<row, grace, recUnchanged>>

\* ... the evidence of the Worker, if it can be had, ...
RecProbe ==
    /\ rec = "probe" /\ rec' \in {IF proc = "none" THEN "gone" ELSE "alive", "unknown"}
    /\ UNCHANGED <<row, grace, recUnchanged>>

\* Damaged: one more unanswered probe is granted.
RecWriteLater ==
    /\ rec \in {"alive", "gone", "unknown"}
    /\ LET more == rec = "unknown" /\ grace < 3 IN
       /\ grace' = IF more THEN grace + 1 ELSE 0
       /\ IF rec = "alive" \/ more THEN PutText("worker", TRUE) /\ rec' = "idle"
          ELSE PutStatus("STOPPED") /\ rec' = "clear"
    /\ UNCHANGED recUnchanged

\* ... and what follows from it.
RecWrite ==
    /\ rec \in {"alive", "gone", "unknown"}
    /\ LET more == rec = "unknown" /\ grace < 2 IN
       /\ grace' = IF more THEN grace + 1 ELSE 0
       /\ IF rec = "alive" \/ more THEN PutText("worker", TRUE) /\ rec' = "idle"
          ELSE PutStatus("STOPPED") /\ rec' = "clear"
    /\ UNCHANGED recUnchanged

RecClear ==
    /\ rec = "clear" /\ rec' = "idle"
    /\ IF row.ofWorker THEN PutText("", FALSE) ELSE UNCHANGED row
    /\ UNCHANGED <<grace, recUnchanged>>

BeatStep == BeatStatus \/ BeatReason \/ BeatMissing
RecStep == RecList \/ RecProbe \/ RecWrite \/ RecClear

-----------------------------------------------------------------------------
\* Faults

\* What is being handled when its caller goes away: it goes on.
Orphaned == CASE call = "running" -> CallKind [] call = "reaping" -> "reap" [] OTHER -> late
GivesUp ==
    /\ call \in {"running", "reaping"} => late = "none"
    /\ late' = Orphaned
    /\ givenUp' = (givenUp \/ (call = "running" /\ CallKind = "create"))
    /\ gate' = IF gate = "call" THEN "late" ELSE gate

\* The deadline of a call passes, or the connection breaks.  A call that still waits for the
\* gate sees it.
GiveUp ==
    /\ call \in {"sent", "running", "reaping"} /\ Fault("call")
    /\ GivesUp /\ call' = "lost"
    /\ UNCHANGED <<row, buildvars, op, known, state, was, strategy, proc, beatvars, requests, halted,
                    adopted>>

\* The Control Plane dies and comes back.
CpCrash ==
    /\ Fault("cp") /\ GivesUp
    /\ op' = NoOp /\ call' = "none" /\ beat' = NoBeat /\ rec' = "idle" /\ grace' = 0
    /\ build' = [NoBuild EXCEPT !.cut = Building]
    /\ UNCHANGED <<row, whole, known, state, was, strategy, proc, requests, halted, adopted>>

\* The Worker dies and comes back; RecoverDaemonInstances takes over the wrappers it can reach.
WorkerCrash ==
    /\ Fault("worker")
    /\ known' \in {FALSE, proc # "none"}
    /\ state' = IF known' THEN "RUNNING" ELSE "STOPPED"
    /\ strategy' = known' /\ gate' = "free" /\ was' = "STOPPED" /\ late' = "none"
    /\ call' = IF call \in {"sent", "running", "reaping"} THEN "lost" ELSE call
    /\ UNCHANGED <<row, buildvars, op, proc, beatvars, requests, history>>

Crash ==
    /\ proc = "up" /\ proc' = "none" /\ Fault("crash")
    /\ state' = IF state = "RUNNING" THEN "CRASHED" ELSE state
    /\ UNCHANGED <<row, buildvars, op, call, late, known, gate, was, strategy, beatvars, requests,
                    history>>

Next ==
    \/ \E kind \in Kinds \ {"resync"} : Request(kind)
    \/ RebuildAsked \/ Rebuild \/ Resync
    \/ OpStep \/ BuildFails \/ BuildDone
    \/ Handler \/ ProcExit \/ Adopt
    \/ Beat \/ BeatStep \/ RecStep
    \/ GiveUp \/ CpCrash \/ WorkerCrash \/ Crash

Spec == Init /\ [][Next]_vars

\* Heartbeats and scans are driven by tickers, calls have deadlines, and a handler goes on.
FairSpec ==
    /\ Spec
    /\ WF_vars(OpStep) /\ WF_vars(Handler) /\ WF_vars(ProcExit) /\ WF_vars(Adopt)
    /\ WF_vars(Beat) /\ WF_vars(BeatStep) /\ WF_vars(RecStep)

-----------------------------------------------------------------------------

\* A deleted instance has left no process, and no entry in the table of the Worker but by a
\* registration that went on after its caller had given it up, or by an adoption between the
\* halves of the removal: neither a connection that comes back nor a delete that races with a
\* repeated registration brings it back (instance.go, ResyncNode: the list is read again under
\* the locks; remove_instance_ops.go, RemoveInstance).
DeletedIsGone == ~row.there => proc = "none" /\ (known => givenUp \/ adopted)

\* After a stop or a kill has been reported as done, no process is started until somebody
\* asks for one, whatever handlers still run for calls that were given up (manager.go,
\* lockInstanceOperationContext: the gate).
NoLateStart == [][proc # "up" /\ proc' = "up" => ~halted]_vars

\* The source of a reason is its author: the reason of a failed operation is not taken back by
\* the heartbeat of a healthy Worker, and what the scan has found is (handler.go,
\* syncInstanceStates; instance.go, writeLifecycleObservation).  The tasks that build leave the
\* source as it is, and so does the text they write.
ReasonOwned == /\ row.text = "cp" => ~row.ofWorker
               /\ row.text = "worker" => row.ofWorker

\* When the requests and the faults end, the database comes to say what the Worker says, and
\* does not take for running what no Worker knows (handler.go, syncInstanceStates and
\* reconcileMissingInstances).
Agrees == \/ row.status = state
          \/ row.status = "DAMAGED" /\ state \in {"STOPPED", "CRASHED"}
Converges == <>[](row.there => IF known THEN Agrees ELSE row.status \notin Active)

\* Stated by the specification of the damaged instances, and not so: what runs has been built
\* (docs/specs/provision-damaged-rebuild/spec.md).
DamagedMustBeRebuilt == proc = "up" => whole
=============================================================================
