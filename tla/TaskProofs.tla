------------------------------ MODULE TaskProofs ------------------------------
(***************************************************************************)
(* What holds of a long task for any number of heartbeats, cancellations,  *)
(* lines and faults.  The invariant follows the report of a task's end:    *)
(* from the registry into the payload, from the payload to the handler     *)
(* that answers it, and back to the registry, which forgets the task only  *)
(* then.                                                                   *)
(***************************************************************************)
EXTENDS TaskReport, TLAPS

\* TypeOK in three parts: the database with those who write it, the Worker, the heartbeat.
RowType ==
    /\ kind \in Kinds /\ row \in [state : TaskStates, cancel : BOOLEAN]
    /\ logs \subseteq 0..(MaxLines - 1) /\ notes \in 0..2
    /\ recorded \in BOOLEAN /\ undone \subseteq {"note", "jdk"}
    /\ ended \in BOOLEAN /\ overwritten \in BOOLEAN
    /\ issuer \in [pc : {"rpc", "mark", "work", "read", "write", "final", "done", "gone"},
                   out : {"failed", "succeeded"}]
    /\ canceler \in {"idle", "direct", "final", "request"}
    /\ cancels \in 0..MaxCancels /\ faults \subseteq Faults

WorkerType ==
    /\ reg \in {"none", "running"} \cup Terminal /\ next \in 0..MaxLines
    /\ job \in {"none", "installing", "installed", "failing", "over"}
    /\ interrupted \in BOOLEAN

FlightType == [pc : {"free", "wire", "write", "final", "answer"}, snap : Snapshots]
BeatType ==
    /\ beat \in [pc : {"idle", "sending", "waiting"}, snap : Snapshots, on : Flights \cup {0}]
    /\ flight \in [Flights -> FlightType]
    /\ losses \in 0..MaxLosses

\* A line is logged only while there is room; an entry that succeeded or failed gets no
\* more; nothing has happened on the Worker before the call.
JobInv ==
    /\ job = "installing" => next < MaxLines
    /\ reg \in {"succeeded", "failed"} => job = "over"
    /\ issuer.pc = "rpc" => reg = "none" /\ next = 0 /\ job = "none" /\ beat = NoBeat

\* The payload of an end is that of the entry as it still is.
SnapInv ==
    beat.snap.state \in Terminal /\ reg # "none" =>
        /\ beat.snap.state = reg
        /\ reg \in {"succeeded", "failed"} => beat.snap.lines = Window

\* The handler of the payload that the Worker waits for has it; once it goes on, the lines
\* are in the database, and once it is to answer, so is an end.
FlightInv ==
    /\ beat.pc # "idle" => beat.snap.state # "none"
    /\ \A f \in Flights : flight[f].pc \in {"wire", "write"} => flight[f].snap.state # "none"
    /\ beat.pc # "waiting" => beat.on = 0
    /\ beat.pc = "waiting" =>
        LET h == flight[beat.on] IN
        /\ beat.on \in Flights /\ h.pc # "free"
        /\ h.pc = "wire" => h.snap = beat.snap
        /\ h.pc = "write" => h.snap.state = beat.snap.state
        /\ h.pc # "wire" => beat.snap.lines \subseteq logs \/ "db" \in faults
        /\ h.pc \in {"final", "answer"} /\ beat.snap.state \in Terminal => ended \/ faults # {}

\* A handler finalizes an end.
FinalInv == \A f \in Flights : flight[f].pc = "final" => flight[f].snap.state \in Terminal

\* The row has an end if it ever had one, unless a write replaced it.
RowInv ==
    /\ row.state \in Terminal => ended
    /\ ended /\ ~overwritten => row.state \in Terminal

\* Where the request is, the task has an end, or the Worker has it, or a fault happened.
IssuerInv ==
    /\ issuer.pc = "final" => ended
    /\ issuer.pc = "gone" => faults # {}
    /\ issuer.pc = "done" /\ kind # "install" => ended \/ faults # {}
    /\ issuer.pc \in {"mark", "done"} /\ kind = "install" =>
           reg # "none" \/ ended \/ faults # {}

IInv == /\ RowType /\ WorkerType /\ BeatType
        /\ JobInv /\ SnapInv /\ FlightInv /\ FinalInv /\ RowInv /\ IssuerInv /\ EndIsNotified

-----------------------------------------------------------------------------
LEMMA Bounds ==
    /\ MaxLines \in Nat /\ MaxLines > 0 /\ Cap \in Nat /\ MaxLosses \in Nat
    /\ MaxFlights \in Nat /\ MaxCancels \in Nat
    /\ 0 \in 0..MaxLosses /\ 0 \in 0..MaxCancels /\ 0 \in 0..MaxLines /\ 0 \notin Flights
    /\ Terminal = {"succeeded", "failed", "canceled"}
BY BoundAssumption DEF Flights, Terminal

LEMMA Snaps ==
    /\ NoSnapshot \in Snapshots /\ NoFlight \in FlightType
    /\ NoBeat \in [pc : {"idle", "sending", "waiting"}, snap : Snapshots, on : Flights \cup {0}]
BY DEF NoSnapshot, Snapshots, NoFlight, FlightType, NoBeat

LEMMA InitSound == Init => IInv
<1> SUFFICES ASSUME Init PROVE IInv
  OBVIOUS
<1>1. RowType
  <2>1. /\ row \in [state : TaskStates, cancel : BOOLEAN]
        /\ issuer \in [pc : {"rpc", "mark", "work", "read", "write", "final", "done", "gone"},
                       out : {"failed", "succeeded"}]
    BY DEF Init, TaskStates
  <2>2. 0 \in 0..2
    OBVIOUS
  <2> QED BY <2>1, <2>2, Bounds DEF Init, RowType
<1>2. WorkerType /\ BeatType
  BY Bounds, Snaps DEF Init, WorkerType, BeatType
<1>3. JobInv /\ SnapInv
  BY Bounds DEF Init, JobInv, SnapInv, NoBeat, NoSnapshot
<1>4. FlightInv /\ FinalInv
  BY DEF Init, FlightInv, FinalInv, NoBeat, NoFlight
<1>5. RowInv /\ IssuerInv /\ EndIsNotified
  BY Bounds DEF Init, RowInv, IssuerInv, EndIsNotified
<1> QED BY <1>1, <1>2, <1>3, <1>4, <1>5 DEF IInv

-----------------------------------------------------------------------------
\* The database

\* What a state written into the row does to it.
LEMMA Written ==
    ASSUME RowType, RowInv, NEW s \in TaskStates, SetState(s)
    PROVE  /\ row' \in [state : TaskStates, cancel : BOOLEAN]
           /\ ended' \in BOOLEAN /\ overwritten' \in BOOLEAN
           /\ row'.state = s /\ row'.cancel = row.cancel /\ RowInv'
           /\ ended => ended'
           /\ s \in Terminal => ended'
           /\ ended' => ended \/ s \in Terminal
<1>1. row' = [row EXCEPT !.state = s] /\ row \in [state : TaskStates, cancel : BOOLEAN]
  BY DEF SetState, RowType
<1>2. row' \in [state : TaskStates, cancel : BOOLEAN] /\ row'.state = s /\ row'.cancel = row.cancel
  BY <1>1
<1>3. /\ ended' <=> ended \/ s \in Terminal
      /\ overwritten' <=> overwritten \/ (row.state \in Terminal /\ row.state # s)
      /\ ended' \in BOOLEAN /\ overwritten' \in BOOLEAN
  BY DEF SetState
<1>4. RowInv'
  BY <1>2, <1>3 DEF RowInv
<1> QED BY <1>2, <1>3, <1>4

\* What finalizeTerminal leaves: the user is told or the failure is in the history, and so
\* it is with the record of what was installed.
LEMMA Finalized ==
    ASSUME RowType, NEW end \in Terminal, Finalize(end)
    PROVE  /\ UNCHANGED <<row, logs, ended, overwritten>>
           /\ notes' \in 0..2 /\ recorded' \in BOOLEAN /\ undone' \subseteq {"note", "jdk"}
           /\ faults' \subseteq Faults /\ faults \subseteq faults' /\ undone \subseteq undone'
           /\ notes' # 0 \/ "note" \in undone'
           /\ recorded => recorded'
           /\ kind = "install" /\ end = "succeeded" => recorded' \/ "jdk" \in undone'
<1> DEFINE wanted == IF kind = "install" /\ end = "succeeded" THEN {"note", "jdk"} ELSE {"note"}
<1>1. UNCHANGED <<row, logs, ended, overwritten>>
  BY DEF Finalize
<1>2. PICK failed \in SUBSET wanted :
          /\ IF failed # {} THEN Fault("db") ELSE UNCHANGED faults
          /\ notes' = IF "note" \in failed \/ notes = 2 THEN notes ELSE notes + 1
          /\ recorded' = (recorded \/ "jdk" \in wanted \ failed)
          /\ undone' = undone \cup failed
  BY DEF Finalize
<1>3. faults' \subseteq Faults /\ faults \subseteq faults'
  BY <1>2 DEF Fault, RowType
<1>4. notes' \in 0..2 /\ (notes' # 0 \/ "note" \in failed)
  BY <1>2 DEF RowType
<1>5. recorded' \in BOOLEAN /\ (recorded' <=> recorded \/ "jdk" \in wanted \ failed)
  BY <1>2
<1>6. undone \subseteq undone' /\ failed \subseteq undone' /\ undone' \subseteq {"note", "jdk"}
  BY <1>2 DEF RowType
<1> QED BY <1>1, <1>3, <1>4, <1>5, <1>6

\* The row, its log and its histories, whoever writes them.
LEMMA RowStep == ASSUME IInv, [Next]_vars PROVE RowType' /\ RowInv'
<1> USE DEF IInv
<1>1. CASE UNCHANGED <<kind, dbvars, cpvars, faults>>
  BY <1>1 DEF RowType, RowInv, dbvars, effects, cpvars
<1>2. CASE Dispatch
  BY <1>2 DEF Dispatch, RowType, RowInv, dbvars, effects, cpvars
<1>3. CASE MarkRunning
  <2>1. CASE SetState("running") /\ UNCHANGED faults
    <3>1. "running" \in TaskStates
      BY DEF TaskStates
    <3> QED BY <1>3, <2>1, <3>1, Written DEF MarkRunning, RowType, cpvars, effects
  <2>2. CASE Fault("db") /\ UNCHANGED <<row, ended, overwritten>>
    BY <1>3, <2>2 DEF MarkRunning, Fault, RowType, RowInv, cpvars, effects
  <2> QED BY <1>3, <2>1, <2>2 DEF MarkRunning
<1>4. ASSUME NEW out \in {"failed", "succeeded"}, Work(out) PROVE RowType' /\ RowInv'
  BY <1>4 DEF Work, RowType, RowInv, dbvars, effects, cpvars
<1>5. CASE MarkRead \/ Cancel \/ CancelFails
  BY <1>5, Bounds DEF MarkRead, Cancel, CancelPlans, CancelFails, Fault, RowType, RowInv,
     dbvars, cpvars, effects
<1>6. CASE MarkWrite
  <2>1. CASE Fault("db") /\ UNCHANGED <<row, ended, overwritten>>
    BY <1>6, <2>1 DEF MarkWrite, Fault, RowType, RowInv, cpvars, effects
  <2>2. CASE SetState(issuer.out) /\ UNCHANGED faults
    <3>1. issuer.out \in TaskStates
      BY DEF RowType, TaskStates, Terminal
    <3> QED BY <1>6, <2>2, <3>1, Written DEF MarkWrite, RowType, cpvars, effects
  <2> QED BY <1>6, <2>1, <2>2 DEF MarkWrite
<1>7. CASE MarkFinal \/ CancelFinal
  <2>1. PICK end \in Terminal : Finalize(end)
    BY <1>7 DEF MarkFinal, CancelFinal, RowType, Terminal
  <2> QED BY <1>7, <2>1, Finalized DEF MarkFinal, CancelFinal, RowType, RowInv, cpvars
<1>8. CASE CancelDirect
  <2>1. row' \in [state : TaskStates, cancel : BOOLEAN] /\ row'.state \in Terminal
    BY <1>8 DEF CancelDirect, TaskStates, Terminal
  <2> QED BY <1>8, <2>1 DEF CancelDirect, RowType, RowInv, cpvars, effects
<1>9. CASE CancelRequest
  <2>1. row' \in [state : TaskStates, cancel : BOOLEAN] /\ row'.state = row.state
    BY <1>9 DEF CancelRequest, RowType
  <2> QED BY <1>9, <2>1 DEF CancelRequest, RowType, RowInv, cpvars, effects
<1>10. ASSUME NEW f \in Flights, Handler(f) PROVE RowType' /\ RowInv'
  <2>1. CASE Ingest(f)
    <3>1. flight[f].snap.lines \subseteq 0..(MaxLines - 1)
      BY DEF BeatType, FlightType, Snapshots
    <3> QED BY <2>1, <3>1 DEF Ingest, Fault, RowType, RowInv, cpvars, effects
  <2>2. CASE IngestWrite(f)
    <3>1. CASE Fault("db") /\ UNCHANGED <<row, ended, overwritten>>
      BY <2>2, <3>1 DEF IngestWrite, Fault, RowType, RowInv, cpvars, effects
    <3>2. CASE SetState(flight[f].snap.state) /\ UNCHANGED faults
      <4>1. flight[f].snap.state \in TaskStates
        BY <2>2 DEF IngestWrite, FlightInv, BeatType, FlightType, Snapshots, TaskStates
      <4> QED BY <2>2, <3>2, <4>1, Written DEF IngestWrite, RowType, cpvars, effects
    <3> QED BY <2>2, <3>1, <3>2 DEF IngestWrite
  <2>3. CASE IngestFinal(f)
    <3>1. flight[f].snap.state \in Terminal /\ Finalize(flight[f].snap.state)
      BY <2>3 DEF IngestFinal, FinalInv
    <3> QED BY <2>3, <3>1, Finalized DEF IngestFinal, RowType, RowInv, cpvars
  <2>4. CASE AnswerNobody(f)
    BY <1>1, <2>4 DEF AnswerNobody
  <2> QED BY <1>10, <2>1, <2>2, <2>3, <2>4 DEF Handler
<1>11. CASE CrashCP
  BY <1>11 DEF CrashCP, Fault, RowType, RowInv, dbvars, effects
<1>12. CASE CrashWorker
  BY <1>12 DEF CrashWorker, Fault, RowType, RowInv, dbvars, effects, cpvars
<1>13. CASE UNCHANGED vars
  BY <1>1, <1>13 DEF vars, dbvars, effects, cpvars
<1> QED BY <1>1, <1>2, <1>3, <1>4, <1>5, <1>6, <1>7, <1>8, <1>9, <1>10, <1>11, <1>12, <1>13
     DEF Next, Issuer, Canceler, Progress, InstallDone, InstallError, Conclude, Heartbeat,
         BuildBeat, Resend, Send, Receive, GiveUp, Lose

-----------------------------------------------------------------------------
\* The Worker

LEMMA WorkerStep == ASSUME IInv, [Next]_vars PROVE WorkerType' /\ JobInv'
<1> USE Bounds DEF IInv, WorkerType, JobInv
<1>1. CASE UNCHANGED <<workervars, issuer, beat>>
  BY <1>1 DEF workervars
<1>2. CASE Dispatch
  BY <1>2 DEF Dispatch, workervars, RowType
<1>3. CASE MarkRunning \/ MarkRead \/ MarkWrite \/ MarkFinal \/ \E out \in {"failed", "succeeded"} : Work(out)
  <2>1. UNCHANGED workervars /\ UNCHANGED beat /\ issuer'.pc # "rpc"
    BY <1>3 DEF MarkRunning, MarkRead, MarkWrite, MarkFinal, Work, RowType
  <2> QED BY <2>1 DEF workervars
<1>4. CASE Progress
  BY <1>4 DEF Progress, AppendLog, cpvars
<1>5. CASE InstallDone
  BY <1>5 DEF InstallDone, cpvars
<1>6. CASE InstallError
  BY <1>6 DEF InstallError, AppendLog, cpvars
<1>7. CASE Conclude
  BY <1>7 DEF Conclude, cpvars
<1>8. CASE BuildBeat \/ Resend
  <2>1. UNCHANGED <<workervars, issuer>> /\ (issuer.pc = "rpc" => FALSE)
    BY <1>8 DEF BuildBeat, Resend, Send, cpvars, NoBeat
  <2> QED BY <2>1 DEF workervars
<1>9. CASE Receive
  <2>1. issuer.pc # "rpc"
    BY <1>9 DEF Receive, NoBeat
  <2>2. reg' \in {reg, "none", "canceled"} /\ next' \in {0, next} /\ UNCHANGED <<job, issuer>>
    BY <1>9 DEF Receive, AfterAnswer, cpvars
  <2>3. interrupted' \in BOOLEAN
    BY <1>9 DEF Receive
  <2> QED BY <2>1, <2>2, <2>3
<1>10. CASE GiveUp
  BY <1>10 DEF GiveUp, NoBeat, workervars, cpvars
<1>11. CASE CrashCP
  <2>1. UNCHANGED workervars /\ issuer'.pc # "rpc"
    BY <1>11 DEF CrashCP, RowType
  <2> QED BY <2>1 DEF workervars
<1>12. CASE CrashWorker
  BY <1>12 DEF CrashWorker, cpvars
<1>13. ASSUME NEW f \in Flights, Lose(f) \/ Handler(f) PROVE UNCHANGED <<workervars, issuer, beat>>
  BY <1>13 DEF Lose, Handler, Ingest, IngestWrite, IngestFinal, AnswerNobody, cpvars
<1> QED BY <1>1, <1>2, <1>3, <1>4, <1>5, <1>6, <1>7, <1>8, <1>9, <1>10, <1>11, <1>12, <1>13
     DEF Next, Issuer, Canceler, Cancel, CancelDirect, CancelFinal, CancelRequest, CancelFails,
         Heartbeat, vars, workervars

-----------------------------------------------------------------------------
\* The heartbeat

\* A payload that goes out in a free place.
LEMMA Sent ==
    ASSUME IInv, NEW snap \in Snapshots, Send(snap)
    PROVE  /\ Slot \in Flights /\ flight[Slot].pc = "free"
           /\ beat'.pc = "waiting" /\ beat'.snap = snap /\ beat'.on = Slot
           /\ flight'[Slot].pc = "wire" /\ flight'[Slot].snap = snap
           /\ \A f \in Flights \ {Slot} : flight'[f] = flight[f]
           /\ BeatType' /\ UNCHANGED <<dbvars, faults, workervars>>
<1>1. Slot \in Flights /\ flight[Slot].pc = "free"
  BY DEF Send, Slot
<1>2. /\ beat' = [pc |-> "waiting", snap |-> snap, on |-> Slot]
      /\ flight' = [flight EXCEPT ![Slot] = [pc |-> "wire", snap |-> snap]]
      /\ UNCHANGED <<dbvars, faults, workervars, losses>>
  BY DEF Send
<1>3. BeatType'
  BY <1>1, <1>2 DEF IInv, BeatType, FlightType
<1> QED BY <1>1, <1>2, <1>3 DEF IInv, BeatType

\* A handler that goes on.
LEMMA Gone ==
    ASSUME IInv, NEW f \in Flights, NEW pc \in {"write", "final", "answer"},
           NEW s \in {"none", "running"} \cup Terminal, Go(f, pc, s)
    PROVE  /\ flight' \in [Flights -> FlightType]
           /\ flight'[f].pc = pc /\ flight'[f].snap.state = s
           /\ \A g \in Flights \ {f} : flight'[g] = flight[g]
BY DEF Go, IInv, BeatType, FlightType, Snapshots

LEMMA BeatStep == ASSUME IInv, [Next]_vars PROVE BeatType'
<1> USE DEF IInv, BeatType
<1>1. CASE UNCHANGED <<beat, flight, losses>>
  BY <1>1
<1>2. CASE BuildBeat
  <2>1. Snapshot \in Snapshots
    BY Bounds DEF Snapshot, Snapshots, Window, WorkerType
  <2> QED BY <1>2, <2>1, Sent DEF BuildBeat
<1>3. CASE Resend
  BY <1>3, Sent DEF Resend
<1>4. CASE GiveUp
  <2>1. losses' \in 0..MaxLosses
    BY <1>4, Bounds DEF GiveUp
  <2>2. beat' \in [pc : {"idle", "sending", "waiting"}, snap : Snapshots, on : Flights \cup {0}]
    BY <1>4, Snaps DEF GiveUp
  <2> QED BY <1>4, <2>1, <2>2 DEF GiveUp
<1>5. CASE Receive
  BY <1>5, Snaps DEF Receive
<1>6. ASSUME NEW f \in Flights, Lose(f) \/ AnswerNobody(f) PROVE BeatType'
  BY <1>6, Snaps DEF Lose, AnswerNobody
<1>7. ASSUME NEW f \in Flights, Ingest(f) \/ IngestWrite(f) \/ IngestFinal(f) PROVE BeatType'
  <2>1. PICK pc \in {"write", "final", "answer"}, s \in {"none", "running"} \cup Terminal : Go(f, pc, s)
    BY <1>7 DEF Ingest, IngestWrite, IngestFinal, Done, FlightType, Snapshots
  <2> QED BY <1>7, <2>1, Gone DEF Ingest, IngestWrite, IngestFinal
<1>8. CASE CrashCP
  BY <1>8, Snaps DEF CrashCP
<1>9. CASE CrashWorker
  BY <1>9, Snaps DEF CrashWorker
<1>10. CASE UNCHANGED vars
  BY <1>1, <1>10 DEF vars
<1> QED BY <1>1, <1>2, <1>3, <1>4, <1>5, <1>6, <1>7, <1>8, <1>9, <1>10
     DEF Next, Issuer, Canceler, Dispatch, MarkRunning, MarkRead, MarkWrite, MarkFinal, Work,
         Cancel, CancelDirect, CancelFinal, CancelRequest, CancelFails, Progress, InstallDone,
         InstallError,
         Conclude, Heartbeat, Handler

LEMMA SnapStep == ASSUME IInv, [Next]_vars PROVE SnapInv'
<1> USE Bounds DEF IInv, SnapInv
<1>1. CASE UNCHANGED <<beat, reg, next>>
  BY <1>1 DEF Window
<1>2. CASE Dispatch
  BY <1>2 DEF Dispatch, JobInv, NoBeat, NoSnapshot
<1>3. CASE Progress \/ InstallError
  BY <1>3 DEF Progress, InstallError, JobInv
<1>4. CASE Conclude
  BY <1>4 DEF Conclude, Window
<1>5. CASE BuildBeat
  <2>1. Snapshot \in Snapshots
    BY Bounds DEF Snapshot, Snapshots, Window, WorkerType
  <2>2. beat'.snap.state = reg /\ beat'.snap.lines = Window /\ UNCHANGED workervars
    BY <1>5, <2>1, Sent DEF BuildBeat, Snapshot
  <2> QED BY <2>2 DEF workervars, Window
<1>6. CASE Resend
  <2>1. beat'.snap = beat.snap /\ UNCHANGED workervars
    BY <1>6, Sent DEF Resend, BeatType
  <2> QED BY <2>1 DEF workervars, Window
<1>7. CASE Receive \/ CrashWorker
  BY <1>7 DEF Receive, CrashWorker, NoBeat, NoSnapshot
<1>8. CASE GiveUp \/ CrashCP
  <2>1. beat'.snap = beat.snap \/ beat' = NoBeat
    BY <1>8 DEF GiveUp, CrashCP, BeatType
  <2>2. CASE beat'.snap = beat.snap
    BY <1>8, <2>2 DEF GiveUp, CrashCP, workervars, Window
  <2>3. CASE beat' = NoBeat
    BY <2>3 DEF NoBeat, NoSnapshot
  <2> QED BY <2>1, <2>2, <2>3
<1>9. ASSUME NEW f \in Flights, Lose(f) \/ Handler(f) PROVE UNCHANGED <<beat, reg, next>>
  BY <1>9 DEF Lose, Handler, Ingest, IngestWrite, IngestFinal, AnswerNobody, workervars
<1> QED BY <1>1, <1>2, <1>3, <1>4, <1>5, <1>6, <1>7, <1>8, <1>9
     DEF Next, Issuer, Canceler, MarkRunning, MarkRead, MarkWrite, MarkFinal, Work, Cancel,
         CancelDirect, CancelFinal, CancelRequest, CancelFails, InstallDone, Heartbeat,
         workervars, vars

\* The database only grows: lines, faults, and an end that has been reached.
LEMMA Grows ==
    ASSUME IInv, [Next]_vars
    PROVE  logs \subseteq logs' /\ faults \subseteq faults' /\ (ended => ended') /\ UNCHANGED kind
<1>1. ASSUME NEW s, SetState(s) PROVE ended => ended'
  BY <1>1 DEF SetState
<1>2. ASSUME NEW f, Fault(f) PROVE faults \subseteq faults'
  BY <1>2 DEF Fault
<1>0. ASSUME NEW end, Finalize(end) PROVE faults \subseteq faults' /\ UNCHANGED <<logs, ended>>
  BY <1>0, <1>2 DEF Finalize
<1>3. CASE Issuer \/ \E out \in {"failed", "succeeded"} : Work(out)
  BY <1>0, <1>1, <1>2, <1>3 DEF Issuer, Work, Dispatch, MarkRunning, MarkRead, MarkWrite,
     MarkFinal, dbvars
<1>4. CASE Cancel \/ Canceler
  BY <1>0, <1>2, <1>4 DEF Cancel, Canceler, CancelDirect, CancelFinal, CancelRequest, CancelFails,
     dbvars
<1>5. CASE Progress \/ InstallDone \/ InstallError \/ Conclude \/ Heartbeat \/ GiveUp
  BY <1>5 DEF Progress, InstallDone, InstallError, Conclude, Heartbeat, BuildBeat, Resend, Send,
     Receive, GiveUp, dbvars
<1>6. ASSUME NEW f \in Flights, Lose(f) \/ Handler(f)
      PROVE logs \subseteq logs' /\ faults \subseteq faults' /\ (ended => ended') /\ UNCHANGED kind
  BY <1>0, <1>1, <1>2, <1>6 DEF Lose, Handler, Ingest, IngestWrite, IngestFinal, AnswerNobody,
     dbvars
<1>7. CASE CrashCP \/ CrashWorker
  BY <1>2, <1>7 DEF CrashCP, CrashWorker, dbvars
<1>8. CASE UNCHANGED vars
  BY <1>8 DEF vars
<1> QED BY <1>3, <1>4, <1>5, <1>6, <1>7, <1>8 DEF Next

\* A handler moves one request on and leaves the others.
LEMMA HandlerStep ==
    ASSUME IInv, NEW f \in Flights, Ingest(f) \/ IngestWrite(f) \/ IngestFinal(f), [Next]_vars
    PROVE  FlightInv'
<1> DEFINE S == beat.snap
<1>1. beat' = beat /\ logs \subseteq logs' /\ faults \subseteq faults' /\ (ended => ended')
  BY Grows DEF Ingest, IngestWrite, IngestFinal
<1>2. ASSUME NEW pc \in {"write", "final", "answer"},
             NEW s \in {"none", "running"} \cup Terminal, Go(f, pc, s),
             pc = "write" => s # "none",
             beat.pc = "waiting" /\ beat.on = f =>
                 /\ pc = "write" => s = S.state
                 /\ S.lines \subseteq logs' \/ "db" \in faults'
                 /\ pc # "write" /\ S.state \in Terminal => ended' \/ faults' # {}
      PROVE  FlightInv'
  <2>1. /\ flight'[f].pc = pc /\ flight'[f].snap.state = s
        /\ \A g \in Flights \ {f} : flight'[g] = flight[g]
    BY <1>2, Gone
  <2>2. \A g \in Flights : flight'[g].pc \in {"wire", "write"} => flight'[g].snap.state # "none"
    BY <1>2, <2>1 DEF IInv, FlightInv
  <2>3. CASE beat.pc = "waiting" /\ beat.on = f
    BY <1>1, <1>2, <2>1, <2>2, <2>3 DEF IInv, FlightInv
  <2>4. CASE beat.pc = "waiting" /\ beat.on # f
    <3>1. beat.on \in Flights /\ flight'[beat.on] = flight[beat.on]
      BY <2>1, <2>4 DEF IInv, FlightInv
    <3> QED BY <1>1, <2>2, <2>4, <3>1 DEF IInv, FlightInv
  <2>5. CASE beat.pc # "waiting"
    BY <1>1, <2>2, <2>5 DEF IInv, FlightInv
  <2> QED BY <2>3, <2>4, <2>5
<1>3. flight[f].snap.state \in {"none", "running"} \cup Terminal
  BY DEF IInv, BeatType, FlightType, Snapshots
<1>4. CASE Ingest(f)
  <2>1. beat.pc = "waiting" /\ beat.on = f =>
            S = flight[f].snap /\ (S.lines \subseteq logs' \/ "db" \in faults')
    BY <1>4 DEF Ingest, Fault, IInv, FlightInv
  <2>2. CASE (row.state \in Terminal \/ faults' # faults) /\ Done(f)
    <3>1. ended' \/ faults' # {}
      BY <1>1, <1>4, <2>2 DEF Ingest, Fault, IInv, RowInv
    <3> QED BY <1>2, <2>1, <2>2, <3>1 DEF Done
  <2>3. CASE Go(f, "write", flight[f].snap.state)
    <3>1. flight[f].snap.state # "none"
      BY <1>4 DEF Ingest, IInv, FlightInv
    <3> QED BY <1>2, <1>3, <2>1, <2>3, <3>1
  <2> QED BY <1>4, <2>2, <2>3 DEF Ingest
<1>5. CASE IngestWrite(f)
  <2>1. beat.pc = "waiting" /\ beat.on = f =>
            S.state = flight[f].snap.state /\ (S.lines \subseteq logs' \/ "db" \in faults')
    BY <1>1, <1>5 DEF IngestWrite, IInv, FlightInv
  <2>2. CASE SetState(flight[f].snap.state) /\ UNCHANGED faults
    <3>1. flight[f].snap.state \in Terminal => ended'
      BY <2>2 DEF SetState
    <3>2. CASE flight[f].snap.state \in Terminal /\ Go(f, "final", flight[f].snap.state)
      BY <1>2, <1>3, <2>1, <3>1, <3>2
    <3>3. CASE flight[f].snap.state \notin Terminal /\ Done(f)
      BY <1>2, <2>1, <3>3 DEF Done
    <3> QED BY <1>5, <2>2, <3>2, <3>3 DEF IngestWrite, Fault
  <2>3. CASE Fault("db") /\ Done(f)
    <3>1. faults' # {}
      BY <2>3 DEF Fault
    <3> QED BY <1>2, <2>1, <2>3, <3>1 DEF Done
  <2> QED BY <1>5, <2>2, <2>3 DEF IngestWrite
<1>6. CASE IngestFinal(f)
  <2>1. beat.pc = "waiting" /\ beat.on = f =>
            /\ S.lines \subseteq logs' \/ "db" \in faults'
            /\ S.state \in Terminal => ended' \/ faults' # {}
    BY <1>1, <1>6 DEF IngestFinal, IInv, FlightInv
  <2> QED BY <1>2, <1>6, <2>1 DEF IngestFinal, Done
<1> QED BY <1>4, <1>5, <1>6

LEMMA FlightStep == ASSUME IInv, [Next]_vars PROVE FlightInv'
<1>1. logs \subseteq logs' /\ faults \subseteq faults' /\ (ended => ended')
  BY Grows
<1>2. CASE UNCHANGED <<beat, flight>>
  BY <1>1, <1>2 DEF IInv, FlightInv
<1>3. CASE BuildBeat \/ Resend
  <2>1. PICK snap \in Snapshots : Send(snap) /\ snap.state # "none"
    <3>1. Snapshot \in Snapshots /\ Snapshot.state = reg
      BY Bounds DEF Snapshot, Snapshots, Window, IInv, WorkerType
    <3>2. beat.snap \in Snapshots /\ (beat.pc = "sending" => beat.snap.state # "none")
      BY DEF IInv, BeatType, FlightInv
    <3> QED BY <1>3, <3>1, <3>2 DEF BuildBeat, Resend
  <2>2. /\ Slot \in Flights /\ beat'.pc = "waiting" /\ beat'.snap = snap /\ beat'.on = Slot
        /\ flight'[Slot].pc = "wire" /\ flight'[Slot].snap = snap
        /\ \A f \in Flights \ {Slot} : flight'[f] = flight[f]
    BY <2>1, Sent
  <2> QED BY <2>1, <2>2 DEF IInv, FlightInv
<1>4. CASE GiveUp
  <2>1. /\ flight' = flight /\ beat'.pc # "waiting" /\ beat'.on = 0
        /\ beat'.pc # "idle" => beat'.snap = beat.snap /\ beat.pc = "waiting"
    <3>1. CASE beat' = [beat EXCEPT !.pc = "sending", !.on = 0]
      BY <1>4, <3>1 DEF GiveUp, IInv, BeatType
    <3>2. CASE beat' = NoBeat
      BY <1>4, <3>2 DEF GiveUp, NoBeat
    <3> QED BY <1>4, <3>1, <3>2 DEF GiveUp
  <2> QED BY <2>1 DEF IInv, FlightInv
<1>5. CASE Receive
  <2>1. /\ beat'.pc = "idle" /\ beat'.on = 0
        /\ \A f \in Flights : flight'[f] = flight[f] \/ flight'[f].pc = "free"
    BY <1>5 DEF Receive, NoBeat, NoFlight, IInv, BeatType
  <2> QED BY <2>1 DEF IInv, FlightInv
<1>6. ASSUME NEW f \in Flights, Lose(f) \/ AnswerNobody(f) PROVE FlightInv'
  <2>1. /\ beat' = beat /\ beat.on # f
        /\ \A g \in Flights : flight'[g] = flight[g] \/ (g = f /\ flight'[g].pc = "free")
    BY <1>6 DEF Lose, AnswerNobody, NoFlight, IInv, BeatType
  <2>2. beat.pc = "waiting" => beat.on \in Flights /\ flight'[beat.on] = flight[beat.on]
    BY <2>1 DEF IInv, FlightInv
  <2>3. \A g \in Flights : flight'[g].pc \in {"wire", "write"} => flight'[g].snap.state # "none"
    BY <2>1 DEF IInv, FlightInv
  <2> QED BY <1>1, <2>1, <2>2, <2>3 DEF IInv, FlightInv
<1>7. ASSUME NEW f \in Flights, Ingest(f) \/ IngestWrite(f) \/ IngestFinal(f) PROVE FlightInv'
  BY <1>7, HandlerStep
<1>8. CASE CrashCP
  <2>1. /\ beat'.pc # "waiting" /\ beat'.on = 0 /\ beat'.snap = beat.snap
        /\ beat'.pc # "idle" => beat.pc # "idle"
        /\ \A f \in Flights : flight'[f].pc = "free"
    BY <1>8 DEF CrashCP, NoFlight, IInv, BeatType, FlightInv
  <2> QED BY <2>1 DEF IInv, FlightInv
<1>9. CASE CrashWorker
  <2>1. beat'.pc = "idle" /\ beat'.on = 0 /\ flight' = flight
    BY <1>9 DEF CrashWorker, NoBeat
  <2> QED BY <2>1 DEF IInv, FlightInv
<1>10. CASE UNCHANGED vars
  BY <1>2, <1>10 DEF vars
<1> QED BY <1>2, <1>3, <1>4, <1>5, <1>6, <1>7, <1>8, <1>9, <1>10
     DEF Next, Issuer, Canceler, Dispatch, MarkRunning, MarkRead, MarkWrite, MarkFinal, Work,
         Cancel, CancelDirect, CancelFinal, CancelRequest, CancelFails, Progress, InstallDone,
         InstallError,
         Conclude, Heartbeat, Handler

LEMMA FinalStep == ASSUME IInv, [Next]_vars PROVE FinalInv'
<1> USE DEF IInv, FinalInv
<1>1. CASE UNCHANGED flight
  BY <1>1
<1>2. ASSUME NEW f \in Flights, NEW pc \in {"write", "final", "answer"},
             NEW s \in {"none", "running"} \cup Terminal, Go(f, pc, s),
             pc = "final" => s \in Terminal
      PROVE  FinalInv'
  BY <1>2, Gone
<1>3. ASSUME NEW f \in Flights, Ingest(f) \/ IngestWrite(f) \/ IngestFinal(f) PROVE FinalInv'
  <2>1. flight[f].snap.state \in {"none", "running"} \cup Terminal
    BY DEF BeatType, FlightType, Snapshots
  <2> QED BY <1>2, <1>3, <2>1 DEF Ingest, IngestWrite, IngestFinal, Done
<1>4. CASE BuildBeat \/ Resend
  <2>1. PICK snap \in Snapshots : Send(snap)
    <3>1. Snapshot \in Snapshots /\ beat.snap \in Snapshots
      BY Bounds DEF Snapshot, Snapshots, Window, WorkerType, BeatType
    <3> QED BY <1>4, <3>1 DEF BuildBeat, Resend
  <2> QED BY <2>1, Sent
<1>5. CASE Receive
  BY <1>5 DEF Receive, NoFlight, BeatType
<1>6. ASSUME NEW f \in Flights, Lose(f) \/ AnswerNobody(f) PROVE FinalInv'
  BY <1>6 DEF Lose, AnswerNobody, NoFlight, BeatType
<1>7. CASE CrashCP
  BY <1>7 DEF CrashCP, NoFlight
<1>8. CASE UNCHANGED vars
  BY <1>1, <1>8 DEF vars
<1> QED BY <1>1, <1>3, <1>4, <1>5, <1>6, <1>7, <1>8
     DEF Next, Issuer, Canceler, Dispatch, MarkRunning, MarkRead, MarkWrite, MarkFinal, Work,
         Cancel, CancelDirect, CancelFinal, CancelRequest, CancelFails, Progress, InstallDone,
         InstallError, Conclude, GiveUp, CrashWorker, Heartbeat, Handler

-----------------------------------------------------------------------------
\* The request and the notification

LEMMA IssuerStep == ASSUME IInv, [Next]_vars PROVE IssuerInv'
<1>1. faults \subseteq faults' /\ (ended => ended') /\ kind' = kind
  BY Grows
<1> USE DEF IInv, IssuerInv
<1>2. CASE issuer' = issuer /\ (reg # "none" => reg' # "none")
  BY <1>1, <1>2
<1>3. CASE Dispatch
  BY <1>1, <1>3 DEF Dispatch, RowType
<1>4. CASE MarkRunning
  BY <1>1, <1>4 DEF MarkRunning, RowType, workervars
<1>5. CASE MarkRead
  <2>1. \/ issuer'.pc = "write"
        \/ issuer'.pc = "done" /\ (row.state \in Terminal \/ faults' # {})
    BY <1>5 DEF MarkRead, Fault, RowType
  <2> QED BY <1>1, <2>1 DEF RowInv
<1>6. CASE MarkWrite
  <2>1. issuer.out \in Terminal
    BY DEF RowType, Terminal
  <2>2. CASE SetState(issuer.out) /\ issuer' = [issuer EXCEPT !.pc = "final"]
    BY <2>1, <2>2 DEF SetState, RowType
  <2>3. CASE Fault("db") /\ issuer' = [issuer EXCEPT !.pc = "done"]
    BY <2>3 DEF Fault, RowType
  <2> QED BY <1>6, <2>2, <2>3 DEF MarkWrite
<1>7. CASE MarkFinal
  BY <1>1, <1>7 DEF MarkFinal, RowType
<1>8. ASSUME NEW out \in {"failed", "succeeded"}, Work(out) PROVE IssuerInv'
  BY <1>8 DEF Work
<1>9. CASE Receive
  <2>1. issuer' = issuer
    BY <1>9 DEF Receive, cpvars
  <2>2. reg' # "none" \/ reg = "none" \/ beat.snap.state \in Terminal
    BY <1>9 DEF Receive, AfterAnswer
  <2>3. beat.snap.state \in Terminal => ended \/ faults # {}
    BY <1>9 DEF Receive, FlightInv
  <2> QED BY <1>1, <2>1, <2>2, <2>3
<1>10. CASE CrashCP
  <2>1. faults' # {} /\ issuer'.pc \in {"gone", "done"}
    BY <1>10 DEF CrashCP, Fault, RowType
  <2> QED BY <2>1
<1>11. CASE CrashWorker
  <2>1. faults' # {} /\ issuer' = issuer
    BY <1>11 DEF CrashWorker, Fault, cpvars
  <2> QED BY <1>1, <2>1
<1>12. CASE Conclude
  BY <1>2, <1>12, Bounds DEF Conclude, cpvars
<1>13. ASSUME NEW f \in Flights, Lose(f) \/ Handler(f) PROVE issuer' = issuer /\ reg' = reg
  BY <1>13 DEF Lose, Handler, Ingest, IngestWrite, IngestFinal, AnswerNobody, cpvars, workervars
<1>14. CASE \/ Cancel \/ Canceler \/ Progress \/ InstallDone \/ InstallError
            \/ BuildBeat \/ Resend \/ GiveUp \/ UNCHANGED vars
  BY <1>2, <1>14 DEF Cancel, Canceler, CancelDirect, CancelFinal, CancelRequest, CancelFails,
     Progress, InstallDone, InstallError, BuildBeat, Resend, Send, GiveUp, cpvars, workervars, vars
<1> QED BY <1>2, <1>3, <1>4, <1>5, <1>6, <1>7, <1>8, <1>9, <1>10, <1>11, <1>12, <1>13, <1>14
     DEF Next, Issuer, Heartbeat

\* A party that is to finalize its end is still to do so if the step is not its own.
LEMMA Stays ==
    ASSUME NEW ends,
           issuer.pc = "final" => UNCHANGED issuer, canceler = "final" => UNCHANGED canceler,
           \A f \in Flights : flight[f].pc = "final" => flight'[f] = flight[f]
    PROVE  Finalizing(ends) => Finalizing(ends)'
BY DEF Finalizing

LEMMA NotifyStep == ASSUME IInv, [Next]_vars PROVE EndIsNotified'
<1>1. faults \subseteq faults'
  BY Grows
<1> USE DEF IInv, EndIsNotified
<1>2. ASSUME UNCHANGED <<kind, effects>>, ended' = ended,
             row'.state = "succeeded" => row.state = "succeeded",
             issuer.pc = "final" => UNCHANGED issuer, canceler = "final" => UNCHANGED canceler,
             \A f \in Flights : flight[f].pc = "final" => flight'[f] = flight[f]
      PROVE  EndIsNotified'
  <2>1. /\ Finalizing(Terminal) => Finalizing(Terminal)'
        /\ Finalizing({"succeeded"}) => Finalizing({"succeeded"})'
    BY <1>2, Stays
  <2> QED BY <1>1, <1>2, <2>1 DEF effects
<1>3. ASSUME NEW end \in Terminal, Finalize(end), UNCHANGED kind,
             Finalizing({"succeeded"}) /\ end # "succeeded" => Finalizing({"succeeded"})'
      PROVE  EndIsNotified'
  BY <1>3, Finalized
<1>4. CASE Dispatch \/ MarkRead \/ \E out \in {"failed", "succeeded"} : Work(out)
  BY <1>2, <1>4 DEF Dispatch, MarkRead, Work, dbvars
<1>5. CASE MarkRunning
  BY <1>2, <1>5, Bounds DEF MarkRunning, SetState, RowType
<1>6. CASE MarkWrite
  <2>1. CASE SetState(issuer.out) /\ issuer' = [issuer EXCEPT !.pc = "final"]
    <3>1. issuer'.pc = "final" /\ issuer'.out = issuer.out /\ issuer.out \in Terminal
      BY <2>1 DEF RowType, Terminal
    <3>2. row'.state = issuer.out
      BY <2>1 DEF SetState, RowType
    <3> QED BY <3>1, <3>2 DEF Finalizing
  <2>2. CASE Fault("db") /\ UNCHANGED <<row, ended, overwritten>>
    BY <1>2, <1>6, <2>2 DEF MarkWrite
  <2> QED BY <1>6, <2>1, <2>2 DEF MarkWrite
<1>7. CASE Cancel \/ CancelRequest \/ CancelFails
  BY <1>2, <1>7 DEF Cancel, CancelRequest, CancelFails, dbvars, RowType
<1>8. CASE CancelDirect
  BY <1>8, Bounds DEF CancelDirect, Finalizing
<1>9. CASE MarkFinal
  <2>1. issuer.out \in Terminal /\ Finalize(issuer.out) /\ UNCHANGED <<kind, canceler, flight>>
    BY <1>9 DEF MarkFinal, RowType, Terminal
  <2> QED BY <1>3, <2>1 DEF Finalizing
<1>10. CASE CancelFinal
  BY <1>3, <1>10, Bounds DEF CancelFinal, Finalizing
<1>11. ASSUME NEW f \in Flights, Ingest(f) \/ IngestWrite(f) \/ IngestFinal(f) PROVE EndIsNotified'
  <2>1. PICK pc \in {"write", "final", "answer"}, s \in {"none", "running"} \cup Terminal : Go(f, pc, s)
    BY <1>11 DEF Ingest, IngestWrite, IngestFinal, Done, BeatType, FlightType, Snapshots
  <2>2. \A g \in Flights \ {f} : flight'[g] = flight[g]
    BY <2>1, Gone
  <2>3. UNCHANGED <<kind, issuer, canceler>>
    BY <1>11 DEF Ingest, IngestWrite, IngestFinal, cpvars
  <2>4. CASE IngestFinal(f)
    <3>1. flight[f].snap.state \in Terminal /\ Finalize(flight[f].snap.state)
      BY <2>4 DEF IngestFinal, FinalInv
    <3> QED BY <1>3, <2>2, <2>3, <3>1 DEF Finalizing
  <2>5. CASE Ingest(f)
    BY <1>2, <2>2, <2>3, <2>5 DEF Ingest
  <2>6. CASE IngestWrite(f)
    <3>1. CASE Fault("db") /\ UNCHANGED <<row, ended, overwritten>>
      BY <1>2, <2>2, <2>3, <2>6, <3>1 DEF IngestWrite
    <3>2. CASE /\ SetState(flight[f].snap.state)
               /\ IF flight[f].snap.state \in Terminal THEN Go(f, "final", flight[f].snap.state)
                  ELSE Done(f)
      <4>1. row'.state = flight[f].snap.state
        BY <3>2 DEF SetState, RowType
      <4>2. CASE flight[f].snap.state \notin Terminal
        BY <1>2, <2>2, <2>3, <2>6, <3>2, <4>1, <4>2, Bounds DEF IngestWrite, SetState, RowType
      <4>3. CASE flight[f].snap.state \in Terminal /\ Go(f, "final", flight[f].snap.state)
        <5>1. flight'[f].pc = "final" /\ flight'[f].snap.state = flight[f].snap.state
          BY <4>3, Gone
        <5> QED BY <4>1, <4>3, <5>1 DEF Finalizing
      <4> QED BY <3>2, <4>2, <4>3
    <3> QED BY <2>6, <3>1, <3>2 DEF IngestWrite
  <2> QED BY <1>11, <2>4, <2>5, <2>6
<1>12. CASE BuildBeat \/ Resend
  <2>1. PICK snap \in Snapshots : Send(snap)
    <3>1. Snapshot \in Snapshots /\ beat.snap \in Snapshots
      BY Bounds DEF Snapshot, Snapshots, Window, WorkerType, BeatType
    <3> QED BY <1>12, <3>1 DEF BuildBeat, Resend
  <2>2. /\ flight[Slot].pc = "free" /\ UNCHANGED <<kind, issuer, canceler, dbvars>>
        /\ \A f \in Flights \ {Slot} : flight'[f] = flight[f]
    BY <2>1, Sent DEF Send, cpvars
  <2> QED BY <1>2, <2>2 DEF dbvars
<1>13. CASE Receive
  <2>1. \A f \in Flights : flight[f].pc = "final" => flight'[f] = flight[f]
    BY <1>13 DEF Receive, BeatType
  <2> QED BY <1>2, <1>13, <2>1 DEF Receive, cpvars, dbvars
<1>14. ASSUME NEW f \in Flights, Lose(f) \/ AnswerNobody(f) PROVE EndIsNotified'
  <2>1. \A g \in Flights : flight[g].pc = "final" => flight'[g] = flight[g]
    BY <1>14 DEF Lose, AnswerNobody, BeatType
  <2> QED BY <1>2, <1>14, <2>1 DEF Lose, AnswerNobody, cpvars, dbvars
<1>15. CASE CrashCP
  BY <1>15 DEF CrashCP, Fault
<1>16. CASE \/ CrashWorker \/ GiveUp \/ Progress \/ InstallDone \/ InstallError \/ Conclude
            \/ UNCHANGED vars
  BY <1>2, <1>16 DEF CrashWorker, GiveUp, Progress, InstallDone, InstallError, Conclude,
     cpvars, dbvars, effects, vars
<1> QED BY <1>4, <1>5, <1>6, <1>7, <1>8, <1>9, <1>10, <1>11, <1>12, <1>13, <1>14, <1>15, <1>16
     DEF Next, Issuer, Canceler, Heartbeat, Handler

LEMMA NextSound == IInv /\ [Next]_vars => IInv'
BY RowStep, WorkerStep, BeatStep, SnapStep, FlightStep, FinalStep, IssuerStep,
   NotifyStep DEF IInv

-----------------------------------------------------------------------------
\* The invariant is inductive: the report of an end is followed from the registry to the
\* database and back.
THEOREM TaskInductive == Spec => []IInv
BY InitSound, NextSound, PTL DEF Spec

\* Every variable keeps its type, for any number of lines, heartbeats and cancellations.
THEOREM TaskTypeCorrect == Spec => []TypeOK
<1>1. IInv => TypeOK
  BY DEF IInv, RowType, WorkerType, BeatType, FlightType, TypeOK
<1> QED BY <1>1, TaskInductive, PTL

\* A task that nobody will write any more has ended, unless a write replaced its end, a
\* program restarted or a statement failed.
THEOREM StuckOnlyByLossHolds == Spec => []StuckOnlyByLoss
<1>1. IInv => StuckOnlyByLoss
  <2> SUFFICES ASSUME IInv, Settled, row.state \notin Terminal, ~overwritten, faults = {}
               PROVE  FALSE
    BY DEF StuckOnlyByLoss
  <2>1. ~ended /\ issuer.pc = "done"
    BY DEF IInv, RowInv, IssuerInv, Settled
  <2> QED BY <2>1 DEF IInv, IssuerInv, Settled
<1> QED BY <1>1, TaskInductive, PTL

\* Of an end in the database the user has been told, and what was installed is recorded, or
\* they are about to be, unless the Control Plane restarted or finalizeTerminal failed to
\* write it.
THEOREM EndIsNotifiedHolds == Spec => []EndIsNotified
<1>1. IInv => EndIsNotified
  BY DEF IInv
<1> QED BY <1>1, TaskInductive, PTL

\* The registry forgets a task that succeeded or failed only when its last lines are in the
\* database, unless the Worker restarted or a statement failed.
THEOREM LastLinesArriveHolds == Spec => LastLinesArrive
<1>1. ASSUME IInv, [Next]_vars, Forgets({"succeeded", "failed"})
      PROVE  Window \subseteq logs \/ Lost'
  <2>1. reg \in {"succeeded", "failed"} /\ reg' = "none"
    BY <1>1 DEF Forgets
  <2>2. CASE Receive
    <3>1. beat.snap.state \in Terminal /\ beat.pc = "waiting" /\ flight[beat.on].pc = "answer"
      BY <2>1, <2>2 DEF Receive, AfterAnswer
    <3>2. beat.snap.lines = Window /\ (beat.snap.lines \subseteq logs \/ "db" \in faults)
      BY <1>1, <2>1, <3>1 DEF IInv, SnapInv, FlightInv
    <3> QED BY <1>1, <3>2, Grows DEF Lost
  <2>3. CASE CrashWorker
    BY <2>3 DEF CrashWorker, Fault, Lost
  <2>4. CASE Dispatch \/ Conclude
    BY <1>1, <2>1, <2>4 DEF Dispatch, Conclude, workervars, IInv, JobInv
  <2>5. CASE UNCHANGED reg
    BY <2>1, <2>5
  <2>6. ASSUME NEW f \in Flights, Lose(f) \/ Handler(f) PROVE UNCHANGED reg
    BY <2>6 DEF Lose, Handler, Ingest, IngestWrite, IngestFinal, AnswerNobody, workervars
  <2> QED BY <1>1, <2>2, <2>3, <2>4, <2>5, <2>6
       DEF Next, Issuer, MarkRunning, MarkRead, MarkWrite, MarkFinal, Work, Cancel, Canceler,
           CancelDirect, CancelFinal, CancelRequest, CancelFails, Progress, InstallDone, InstallError,
           Heartbeat, BuildBeat, Resend, Send, GiveUp, CrashCP, workervars, vars
<1>2. ASSUME IInv, [Next]_vars
      PROVE  [Forgets({"succeeded", "failed"}) => Window \subseteq logs \/ Lost']_vars
  BY <1>1, <1>2
<1> QED BY <1>2, TaskInductive, PTL DEF Spec, LastLinesArrive
=============================================================================
