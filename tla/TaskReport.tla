------------------------------ MODULE TaskReport ------------------------------
(***************************************************************************)
(* One long task on its way through both programs: TaskService of the      *)
(* Control Plane (service/task.go) with its row in the database, the       *)
(* in-memory registry of the Worker (taskreg/registry.go) with the         *)
(* goroutine that executes the task, and the heartbeat between them.       *)
(*                                                                         *)
(* The row is written by four parties that first read it and then write    *)
(* it, without a transaction: the request that created the task            *)
(* (InstallAsync, or the goroutine of RunAsync), the handlers of the       *)
(* heartbeat, a user's Cancel, and MarkRunning, which does not read.  A    *)
(* heartbeat that the Worker gave up may still be in its handler while the *)
(* same payload is sent again.  One action is one statement on the         *)
(* database, or one critical section of the registry's lock.               *)
(***************************************************************************)
EXTENDS Integers, FiniteSets

CONSTANTS
    Kinds,       \* "install": executed by the Worker; "async": by RunAsync in the Control Plane
    Faults,      \* the faults that may happen, of "worker", "cp" and "db"
    MaxFaults,   \* bound: faults in a behaviour, each of another kind
    Cap,         \* recentLogCap: the lines the registry keeps of a task
    MaxLines,    \* bound: lines that the task logs
    MaxFlights,  \* bound: heartbeats in the network or in a handler at a time
    MaxLosses,   \* bound: heartbeats given up or lost
    MaxCancels   \* bound: Cancel requests of users

ASSUME KindsAssumption == Kinds \subseteq {"install", "async"}
ASSUME FaultsAssumption == Faults \subseteq {"worker", "cp", "db"} /\ MaxFaults \in 0..3
ASSUME BoundAssumption ==
    /\ {Cap, MaxLines} \subseteq Nat \ {0}
    /\ {MaxFlights, MaxLosses, MaxCancels} \subseteq Nat

VARIABLES
    kind,       \* the kind of the task
    row,        \* the task in the database: state and cancel_requested
    logs,       \* the sequence numbers in task_logs
    notes,      \* the times the user has been told of its end, counted up to 2
    recorded,   \* node_jdks has what it installed
    issuer,     \* the request that created the task, with the end it has to mark
    canceler,   \* a Cancel between its reads and its writes
    reg,        \* the state of its entry in the Worker's registry; "none": no entry
    next,       \* nextSeq of the entry: the lines logged so far
    job,        \* the goroutine that executes it
    interrupted,\* its context has been canceled
    beat,       \* the heartbeat loop of the Worker, with the payload of this beat
    flight,     \* the heartbeats on their way or in a handler, each with its payload
    losses, cancels,  \* counters for the bounds
    faults,     \* the faults that have happened
    ended,      \* history: the row has been in a terminal state
    overwritten,\* history: a write has replaced a terminal state
    undone      \* history: what finalizeTerminal has failed to write, of "note" and "jdk"

effects == <<notes, recorded, undone>>
dbvars == <<row, logs, effects, ended, overwritten>>
cpvars == <<issuer, canceler, cancels>>
workervars == <<reg, next, job, interrupted>>
vars == <<kind, row, logs, notes, issuer, canceler, reg, next, job, interrupted,
          beat, flight, losses, cancels, faults, ended, overwritten, recorded, undone>>

Terminal == {"succeeded", "failed", "canceled"}
TaskStates == {"pending", "running"} \cup Terminal
Snapshots == [state : {"none", "running"} \cup Terminal, lines : SUBSET (0..(MaxLines - 1))]
NoSnapshot == [state |-> "none", lines |-> {}]
Flights == 1..MaxFlights
NoBeat == [pc |-> "idle", snap |-> NoSnapshot, on |-> 0]
NoFlight == [pc |-> "free", snap |-> NoSnapshot]

\* The type of each variable.
TypeOK ==
    /\ kind \in Kinds
    /\ row \in [state : TaskStates, cancel : BOOLEAN]
    /\ logs \subseteq 0..(MaxLines - 1)
    /\ notes \in 0..2 /\ undone \subseteq {"note", "jdk"}
    /\ {recorded, interrupted, ended, overwritten} \subseteq BOOLEAN
    /\ issuer \in [pc : {"rpc", "mark", "work", "read", "write", "final", "done", "gone"},
                   out : {"failed", "succeeded"}]
    /\ canceler \in {"idle", "direct", "final", "request"}
    /\ reg \in {"none", "running"} \cup Terminal
    /\ next \in 0..MaxLines
    /\ job \in {"none", "installing", "installed", "failing", "over"}
    /\ beat \in [pc : {"idle", "sending", "waiting"}, snap : Snapshots, on : Flights \cup {0}]
    /\ flight \in [Flights -> [pc : {"free", "wire", "write", "final", "answer"},
                               snap : Snapshots]]
    /\ losses \in 0..MaxLosses /\ cancels \in 0..MaxCancels /\ faults \subseteq Faults

Init ==
    /\ kind \in Kinds
    /\ row = [state |-> "pending", cancel |-> FALSE]
    /\ logs = {} /\ notes = 0 /\ recorded = FALSE /\ undone = {}
    /\ issuer = [pc |-> IF kind = "install" THEN "rpc" ELSE "mark", out |-> "failed"]
    /\ canceler = "idle"
    /\ reg = "none" /\ next = 0 /\ job = "none" /\ interrupted = FALSE
    /\ beat = NoBeat
    /\ flight = [f \in Flights |-> NoFlight]
    /\ losses = 0 /\ cancels = 0 /\ faults = {} /\ ended = FALSE /\ overwritten = FALSE

-----------------------------------------------------------------------------
\* The row

\* An UPDATE of the state, whatever the state is.
SetState(s) ==
    /\ row' = [row EXCEPT !.state = s]
    /\ ended' = (ended \/ s \in Terminal)
    /\ overwritten' = (overwritten \/ (row.state \in Terminal /\ row.state # s))

\* A fault happens, at most once of its kind.
Fault(f) ==
    /\ f \in Faults \ faults /\ Cardinality(faults) < MaxFaults
    /\ faults' = faults \cup {f}

\* finalizeTerminal of an end: what was installed is recorded and the user told.  A
\* statement that fails is only logged.
Finalize(end) ==
    LET wanted == IF kind = "install" /\ end = "succeeded" THEN {"note", "jdk"} ELSE {"note"}
    IN
    /\ \E failed \in SUBSET wanted :
        /\ IF failed # {} THEN Fault("db") ELSE UNCHANGED faults
        /\ notes' = IF "note" \in failed \/ notes = 2 THEN notes ELSE notes + 1
        /\ recorded' = (recorded \/ "jdk" \in wanted \ failed)
        /\ undone' = undone \cup failed
    /\ UNCHANGED <<row, logs, ended, overwritten>>

-----------------------------------------------------------------------------
\* The request that created the task

\* Damaged: a failed call leaves the task as it is.
DispatchSilent ==
    /\ issuer.pc = "rpc"
    /\ \/ issuer' = [issuer EXCEPT !.pc = "done"] /\ UNCHANGED workervars
       \/ /\ reg' = "running" /\ job' = "installing" /\ UNCHANGED <<next, interrupted>>
          /\ issuer' = [issuer EXCEPT !.pc = "mark"]
    /\ UNCHANGED <<kind, dbvars, canceler, cancels, beat, flight, losses, faults>>

\* The call that starts the installation: the Worker refuses it or is not reached, or it
\* registers the task and starts the goroutine, and then the answer arrives or is lost.
Dispatch ==
    /\ issuer.pc = "rpc"
    /\ \/ issuer' = [issuer EXCEPT !.pc = "read"] /\ UNCHANGED workervars
       \/ /\ reg' = "running" /\ job' = "installing" /\ UNCHANGED <<next, interrupted>>
          /\ \E pc \in {"mark", "read"} : issuer' = [issuer EXCEPT !.pc = pc]
    /\ UNCHANGED <<kind, dbvars, canceler, cancels, beat, flight, losses, faults>>

\* An error of the statement is only logged.
MarkRunning ==
    /\ issuer.pc = "mark"
    /\ \/ SetState("running") /\ UNCHANGED faults
       \/ Fault("db") /\ UNCHANGED <<row, ended, overwritten>>
    /\ issuer' = [issuer EXCEPT !.pc = IF kind = "install" THEN "done" ELSE "work"]
    /\ UNCHANGED <<kind, logs, effects, canceler, cancels, workervars, beat, flight, losses>>

\* The work of RunAsync ends.
Work(out) ==
    /\ issuer.pc = "work"
    /\ issuer' = [pc |-> "read", out |-> out]
    /\ UNCHANGED <<kind, dbvars, canceler, cancels, workervars, beat, flight, losses, faults>>

\* MarkFailed and MarkSucceeded read the row and return if it is terminal or not read ...
MarkRead ==
    /\ issuer.pc = "read"
    /\ \/ /\ issuer' = [issuer EXCEPT !.pc = IF row.state \in Terminal THEN "done" ELSE "write"]
          /\ UNCHANGED faults
       \/ Fault("db") /\ issuer' = [issuer EXCEPT !.pc = "done"]
    /\ UNCHANGED <<kind, dbvars, canceler, cancels, workervars, beat, flight, losses>>

\* ... else they write the end, unless that statement fails, ...
MarkWrite ==
    /\ issuer.pc = "write"
    /\ \/ /\ SetState(issuer.out)
          /\ issuer' = [issuer EXCEPT !.pc = "final"] /\ UNCHANGED faults
       \/ /\ Fault("db")
          /\ issuer' = [issuer EXCEPT !.pc = "done"] /\ UNCHANGED <<row, ended, overwritten>>
    /\ UNCHANGED <<kind, logs, effects, canceler, cancels, workervars, beat, flight, losses>>

\* ... and notify.
MarkFinal ==
    /\ issuer.pc = "final"
    /\ Finalize(issuer.out)
    /\ issuer' = [issuer EXCEPT !.pc = "done"]
    /\ UNCHANGED <<kind, canceler, cancels, workervars, beat, flight, losses>>

-----------------------------------------------------------------------------
\* Cancel

\* Cancel reads the row and the status of the node: it refuses a terminal task, ends by
\* itself one that no Worker seems to execute, and asks the Worker to stop another.  The
\* detector may have marked the node offline at any time.
CancelPlans ==
    IF row.state = "pending" THEN {"direct"}
    ELSE IF row.state = "running" THEN {"direct", "request"} ELSE {}

Cancel ==
    /\ canceler = "idle"
    /\ cancels < MaxCancels /\ cancels' = cancels + 1
    /\ canceler' \in CancelPlans
    /\ UNCHANGED <<kind, dbvars, issuer, workervars, beat, flight, losses, faults>>

\* Damaged: the end is written and not finalized.
CancelQuietly ==
    /\ canceler = "direct" /\ canceler' = "idle"
    /\ row' = [state |-> "canceled", cancel |-> TRUE] /\ ended' = TRUE
    /\ overwritten' = (overwritten \/ row.state \in Terminal \ {"canceled"})
    /\ UNCHANGED <<kind, logs, effects, issuer, cancels, workervars, beat, flight, losses, faults>>

CancelDirect ==
    /\ canceler = "direct" /\ canceler' = "final"
    /\ row' = [state |-> "canceled", cancel |-> TRUE]
    /\ ended' = TRUE
    /\ overwritten' = (overwritten \/ row.state \in Terminal \ {"canceled"})
    /\ UNCHANGED <<kind, logs, effects, issuer, cancels, workervars, beat, flight, losses,
                   faults>>

CancelFinal ==
    /\ canceler = "final" /\ canceler' = "idle"
    /\ Finalize("canceled")
    /\ UNCHANGED <<kind, issuer, cancels, workervars, beat, flight, losses>>

CancelRequest ==
    /\ canceler = "request" /\ canceler' = "idle"
    /\ row' = [row EXCEPT !.cancel = TRUE]
    /\ UNCHANGED <<kind, logs, effects, ended, overwritten, issuer, cancels,
                   workervars, beat, flight, losses, faults>>

\* An error of either statement is the user's answer.
CancelFails ==
    /\ canceler \in {"direct", "request"} /\ canceler' = "idle"
    /\ Fault("db")
    /\ UNCHANGED <<kind, dbvars, issuer, cancels, workervars, beat, flight, losses>>

-----------------------------------------------------------------------------
\* The registry and the goroutine of the task

\* Damaged: the line to come is counted among them.
WindowAhead == {n \in 0..next : n >= next - Cap}

\* The lines that the entry keeps.
Window == {n \in 0..(next - 1) : n >= next - Cap}

\* AppendLog; without an entry the line is dropped.
AppendLog == next' = IF reg = "none" THEN next ELSE next + 1

\* The installation reports progress with a line.
Progress ==
    /\ job = "installing" /\ next < MaxLines - 1
    /\ AppendLog
    /\ UNCHANGED <<kind, dbvars, cpvars, reg, job, interrupted, beat, flight, losses, faults>>

\* The installation returns: done, or with an error, which is logged first.
InstallDone ==
    /\ job = "installing" /\ job' = "installed"
    /\ UNCHANGED <<kind, dbvars, cpvars, reg, next, interrupted, beat, flight, losses, faults>>

InstallError ==
    /\ job = "installing" /\ job' = "failing"
    /\ AppendLog
    /\ UNCHANGED <<kind, dbvars, cpvars, reg, interrupted, beat, flight, losses, faults>>

\* Succeed and Fail: only the entry of a running task changes.
Conclude ==
    /\ job \in {"installed", "failing"} /\ job' = "over"
    /\ reg' = IF reg # "running" THEN reg
              ELSE IF job = "installed" THEN "succeeded" ELSE "failed"
    /\ interrupted' = FALSE
    /\ UNCHANGED <<kind, dbvars, cpvars, next, beat, flight, losses, faults>>

-----------------------------------------------------------------------------
\* The heartbeat of the Worker

\* Damaged: the slice of the lines ends one too early.
SnapshotShort == [state |-> reg, lines |-> Window \ {next - 1}]

Snapshot == [state |-> reg, lines |-> Window]

\* A free place among the heartbeats on their way.
Slot == CHOOSE f \in Flights : flight[f].pc = "free"

\* The payload is built once per beat and sent; after a failure it is sent again as it is.
Send(snap) ==
    /\ \E f \in Flights : flight[f].pc = "free"
    /\ beat' = [pc |-> "waiting", snap |-> snap, on |-> Slot]
    /\ flight' = [flight EXCEPT ![Slot] = [pc |-> "wire", snap |-> snap]]
    /\ UNCHANGED <<kind, dbvars, cpvars, workervars, losses, faults>>

\* (A beat without the task neither reports nor cancels it and is left out.)
BuildBeat == beat.pc = "idle" /\ reg # "none" /\ Send(Snapshot)
Resend == beat.pc = "sending" /\ Send(beat.snap)

\* No answer in time: the beat is tried again, or left to the next one at the deadline.
\* The request on its way or in a handler goes on.
GiveUp ==
    /\ beat.pc = "waiting"
    /\ losses < MaxLosses /\ losses' = losses + 1
    /\ \/ beat' = [beat EXCEPT !.pc = "sending", !.on = 0]
       \/ beat' = NoBeat
    /\ UNCHANGED <<kind, dbvars, cpvars, workervars, flight, faults>>

\* A request that its sender has given up is lost on the way.
Lose(f) ==
    /\ flight[f].pc = "wire" /\ beat.on # f
    /\ flight' = [flight EXCEPT ![f] = NoFlight]
    /\ UNCHANGED <<kind, dbvars, cpvars, workervars, beat, losses, faults>>

\* Damaged: the query leaves out the running tasks.
PendingCancelPending == row.cancel /\ row.state = "pending"

\* PendingCancelTaskIDsByNodeUUID
PendingCancel == row.cancel /\ row.state \in {"pending", "running"}

\* The answer: the registry cancels a running task as the Control Plane asks, and drops the
\* task if its end was in the payload.  (An answer on its way is one with the handler: a
\* request to cancel is never withdrawn.)
Cancelled == PendingCancel /\ reg = "running"
AfterAnswer ==
    IF beat.snap.state \in Terminal THEN "none" ELSE IF Cancelled THEN "canceled" ELSE reg

Receive ==
    /\ beat.pc = "waiting" /\ flight[beat.on].pc = "answer"
    /\ reg' = AfterAnswer /\ next' = IF reg' = "none" THEN 0 ELSE next
    /\ interrupted' = (interrupted \/ Cancelled)
    /\ beat' = NoBeat
    /\ flight' = [flight EXCEPT ![beat.on] = NoFlight]
    /\ UNCHANGED <<kind, dbvars, cpvars, job, losses, faults>>

-----------------------------------------------------------------------------
\* The handler of the heartbeat

\* What is left to do with the report s of a payload: write it, finalize it, or answer.
Go(f, pc, s) == flight' = [flight EXCEPT ![f] = [pc |-> pc, snap |-> [state |-> s, lines |-> {}]]]
Done(f) == Go(f, "answer", "none")

\* IngestSnapshots reads the row and appends the lines, if neither statement fails, and
\* goes on only with a row that it has read and that is not terminal.
Ingest(f) ==
    /\ flight[f].pc = "wire"
    /\ \/ logs' = logs \cup flight[f].snap.lines /\ UNCHANGED faults
       \/ Fault("db") /\ UNCHANGED logs
    /\ \/ (row.state \in Terminal \/ faults' # faults) /\ Done(f)
       \/ row.state \notin Terminal /\ Go(f, "write", flight[f].snap.state)
    /\ UNCHANGED <<kind, row, effects, ended, overwritten, cpvars, workervars, beat, losses>>

\* It writes the reported state, unless the statement fails, ...
IngestWrite(f) ==
    /\ flight[f].pc = "write"
    /\ \/ /\ SetState(flight[f].snap.state) /\ UNCHANGED faults
          /\ IF flight[f].snap.state \in Terminal THEN Go(f, "final", flight[f].snap.state)
             ELSE Done(f)
       \/ Fault("db") /\ Done(f) /\ UNCHANGED <<row, ended, overwritten>>
    /\ UNCHANGED <<kind, logs, effects, cpvars, workervars, beat, losses>>

\* ... and finalizes an end.
IngestFinal(f) ==
    /\ flight[f].pc = "final"
    /\ Finalize(flight[f].snap.state) /\ Done(f)
    /\ UNCHANGED <<kind, cpvars, workervars, beat, losses>>

\* A handler whose sender has given up answers nobody.
AnswerNobody(f) ==
    /\ flight[f].pc = "answer" /\ beat.on # f
    /\ flight' = [flight EXCEPT ![f] = NoFlight]
    /\ UNCHANGED <<kind, dbvars, cpvars, workervars, beat, losses, faults>>

-----------------------------------------------------------------------------
\* Crashes

\* The Control Plane restarts: the database is all that is left of it.
CrashCP ==
    /\ Fault("cp")
    /\ issuer' = IF issuer.pc = "done" THEN issuer ELSE [issuer EXCEPT !.pc = "gone"]
    /\ canceler' = "idle"
    /\ flight' = [f \in Flights |-> NoFlight]
    /\ beat' = IF beat.pc = "waiting" THEN [beat EXCEPT !.pc = "sending", !.on = 0] ELSE beat
    /\ UNCHANGED <<kind, dbvars, cancels, workervars, losses>>

\* The Worker restarts with an empty registry.
CrashWorker ==
    /\ Fault("worker")
    /\ reg' = "none" /\ next' = 0 /\ interrupted' = FALSE
    /\ job' = IF job = "none" THEN "none" ELSE "over"
    /\ beat' = NoBeat
    /\ UNCHANGED <<kind, dbvars, cpvars, flight, losses>>

Handler(f) == Ingest(f) \/ IngestWrite(f) \/ IngestFinal(f) \/ AnswerNobody(f)
Heartbeat == BuildBeat \/ Resend \/ Receive
Issuer == Dispatch \/ MarkRunning \/ MarkRead \/ MarkWrite \/ MarkFinal
Canceler == CancelDirect \/ CancelFinal \/ CancelRequest \/ CancelFails

Next ==
    \/ Issuer \/ (\E out \in {"failed", "succeeded"} : Work(out))
    \/ Cancel \/ Canceler
    \/ Progress \/ InstallDone \/ InstallError \/ Conclude
    \/ Heartbeat \/ GiveUp
    \/ \E f \in Flights : Lose(f) \/ Handler(f)
    \/ CrashCP \/ CrashWorker

(***************************************************************************)
(* The goroutines of both programs go on, the heartbeat is sent at every   *)
(* tick and, after MaxLosses failures, answered; an interrupted            *)
(* installation returns, one that is not may hang for ever.                *)
(***************************************************************************)
Fairness ==
    /\ WF_vars(Issuer) /\ WF_vars(Canceler) /\ WF_vars(Heartbeat) /\ WF_vars(Conclude)
    /\ WF_vars(interrupted /\ InstallError)
    /\ \A f \in Flights : WF_vars(Handler(f))

Spec == Init /\ [][Next]_vars /\ Fairness

-----------------------------------------------------------------------------
\* Properties

Settled ==
    /\ issuer.pc \in {"done", "gone"} /\ canceler = "idle" /\ reg = "none"
    /\ \A f \in Flights : flight[f].pc \notin {"wire", "write", "final"}

\* A task that nobody will report or write any more is not left pending or running for
\* ever, unless a write replaced its terminal state, a program restarted or a statement
\* failed (task.go:72, :332, heartbeat.go:265): no other order of the parties loses the end.
StuckOnlyByLoss ==
    Settled /\ row.state \notin Terminal => overwritten \/ faults # {}

Lost == faults \cap {"worker", "db"} # {}
Forgets(ends) == reg \in ends /\ reg' = "none"

\* With the end of a task that was not canceled every line that its entry kept has reached
\* task_logs, the last line of an error included, though the payload was built earlier and
\* possibly sent twice (server.go:800, heartbeat.go:260).
LastLinesArrive ==
    [][Forgets({"succeeded", "failed"}) => Window \subseteq logs \/ Lost']_vars

\* A writer of one of the ends that has still to run finalizeTerminal.
Finalizing(ends) ==
    \/ issuer.pc = "final" /\ issuer.out \in ends
    \/ canceler = "final" /\ "canceled" \in ends
    \/ \E f \in Flights : flight[f].pc = "final" /\ flight[f].snap.state \in ends

\* The user has been told of an end that is in the database, and what was installed is
\* recorded, or they are about to be: whoever wrote the end finalizes it, though Cancel,
\* MarkFailed and the handlers race for it (task.go:392).  A restart of the Control Plane
\* between the two statements loses both, and finalizeTerminal loses what it fails to write,
\* which nobody tries again (task.go:458, :541); nothing else does.
EndIsNotified ==
    "cp" \notin faults =>
        /\ ended /\ notes = 0 => Finalizing(Terminal) \/ "note" \in undone
        /\ kind = "install" /\ row.state = "succeeded" /\ ~recorded =>
               Finalizing({"succeeded"}) \/ "jdk" \in undone

\* A cancellation that Cancel has left to the Worker reaches the goroutine, even one that
\* hangs, or the task has ended or been lost otherwise (task.go:302, handler.go:502).
CancelArrives ==
    (row.cancel /\ row.state = "running" /\ job = "installing") ~>
        (job # "installing" \/ row.state \in Terminal)

\* What finalizeTerminal asks of its callers: it runs at the first end only (task.go:390), so
\* that the user is told once.
\* Not so: two handlers, or MarkRunning after an end, make a task end twice.
FinalizedOnce == notes <= 1

=============================================================================
