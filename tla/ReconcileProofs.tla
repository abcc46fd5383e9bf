--------------------------- MODULE ReconcileProofs ---------------------------
(***************************************************************************)
(* What holds of one instance between the Control Plane and its Worker for *)
(* every number of requests and every set of faults.  The invariant IInv   *)
(* says whose handler is inside the gate, what a handler that lost its     *)
(* caller can still do, and how far the removal has got.                   *)
(***************************************************************************)
EXTENDS Reconcile, TLAPS

Gated == {"start", "stop", "restart"}
Starts == {"start", "restart"}

\* Every rebuild has been requested.
CountInv == build.again + (IF build.asked THEN 1 ELSE 0) <= requests

\* No call is under way between two calls, and only a removal reaps.
CallInv == /\ op.pc \in {"idle", "observe", "query", "write"} => call = "none"
           /\ call = "reaping" => op.pc \in {"remove", "settle"}

\* The gate belongs to the handler that works behind it.
GateInv == /\ gate = "call" <=> call = "running" /\ CallKind \in Gated
           /\ gate = "late" <=> late \in Gated
           /\ call = "running" => CallKind \in Calls

\* A registration without a caller is on record.
LateInv == late = "create" => givenUp

\* From the first half of a removal on, nothing is left that could bring the instance back but
\* such a registration, or an adoption before the second half; from the answer on, no process
\* is left to adopt.
Clearing == op.pc \in {"remove", "settle"} /\ call \in {"reaping", "ok"}
Removing == op.pc \in {"remove", "settle"} /\ call = "ok"
GoneInv == /\ ~row.there => op.pc = "idle"
           /\ ~row.there \/ Clearing => (known => givenUp \/ adopted) /\ late \notin Gated
           /\ ~row.there \/ Removing => proc = "none"

\* From the answer to a stop or kill on, no start is under way.
Stopping == op.pc = "act" /\ op.kind \in {"stop", "kill"} /\ call = "ok"
HaltInv == /\ halted => op.kind \notin Starts
           /\ halted \/ Stopping => late \notin Starts

IInv == TypeOK /\ CountInv /\ CallInv /\ GateInv /\ LateInv /\ GoneInv /\ HaltInv /\ ReasonOwned

-----------------------------------------------------------------------------
\* The row

RowType == [there : BOOLEAN, status : Statuses, text : {"", "cp", "build", "worker"},
            ofWorker : BOOLEAN]
RowOK == row \in RowType /\ ReasonOwned
Kept == RowOK' /\ row'.there = row.there

\* A statement on the status keeps the reason, its source and the existence of the row.
LEMMA StatusKept ==
    ASSUME RowOK, NEW s \in Statuses, PutStatus(s)
    PROVE  Kept
BY DEF RowOK, RowType, Kept, PutStatus, Put, ReasonOwned

\* So does a statement on the reason that names its author.
LEMMA TextKept ==
    ASSUME RowOK, NEW t \in {"", "cp", "build", "worker"}, NEW w \in BOOLEAN, PutText(t, w),
           t = "cp" => ~w, t = "worker" => w
    PROVE  Kept
BY DEF RowOK, RowType, Kept, PutText, Put, ReasonOwned

\* So does the outcome of a call, which is the Control Plane's.
LEMMA ObservationKept ==
    ASSUME RowOK, NEW s \in Statuses, NEW t \in {"", "cp"}, Observation(s, t)
    PROVE  Kept
BY DEF RowOK, RowType, Kept, Observation, Put, ReasonOwned

\* So does a transition.
LEMMA TransitionKept ==
    ASSUME RowOK, NEW s \in Statuses, Transition(s)
    PROVE  Kept
BY DEF RowOK, RowType, Kept, Transition, Put, ReasonOwned

\* So do the statements of a build, which has no author.
LEMMA BuildKept ==
    ASSUME RowOK, NEW t \in {"", "build"}, NEW s \in Statuses,
           \/ Put([row EXCEPT !.text = t])
           \/ Put([row EXCEPT !.text = t, !.status = s])
    PROVE  Kept
BY DEF RowOK, RowType, Kept, Put, ReasonOwned

\* And so does leaving it alone.
LEMMA UnchangedKept ==
    ASSUME RowOK, UNCHANGED row
    PROVE  Kept
BY DEF RowOK, RowType, Kept, ReasonOwned

\* No action but the end of a removal deletes the row, none brings it back, and each reason
\* keeps its author.
LEMMA RowStep ==
    ASSUME TypeOK, ReasonOwned, [Next]_vars
    PROVE  Kept \/ (Removed /\ call = "ok" /\ row' = Deleted /\ RowOK')
<1> DEFINE Goal == Kept \/ (Removed /\ call = "ok" /\ row' = Deleted /\ RowOK')
<1> SUFFICES Goal
  OBVIOUS
<1>0. /\ RowOK
      /\ op.kind \in Kinds /\ op.seen \in Statuses /\ op.found \in Statuses
      /\ beat.state \in Statuses
      /\ {"STOPPED", "STARTING", "STOPPING", "RUNNING", "DAMAGED"} \subseteq Statuses
  BY DEF TypeOK, RowOK, RowType, Statuses, States, Worker!States
<1> HIDE DEF Goal
<1>s. ASSUME NEW s \in Statuses, PutStatus(s) PROVE Goal
  BY <1>0, <1>s, StatusKept DEF Goal
<1>t. ASSUME NEW t \in {"", "cp", "build", "worker"}, NEW w \in BOOLEAN, PutText(t, w),
             t = "cp" => ~w, t = "worker" => w
      PROVE  Goal
  BY <1>0, <1>t, TextKept DEF Goal
<1>o. ASSUME NEW s \in Statuses, NEW t \in {"", "cp"}, Observation(s, t) PROVE Goal
  BY <1>0, <1>o, ObservationKept DEF Goal
<1>m. ASSUME NEW s \in Statuses, Transition(s) PROVE Goal
  BY <1>0, <1>m, TransitionKept DEF Goal
<1>u. ASSUME UNCHANGED row PROVE Goal
  BY <1>0, <1>u, UnchangedKept DEF Goal
<1>1. ASSUME NEW kind \in Kinds \ {"resync"}, Request(kind) PROVE Goal
  BY <1>0, <1>1, <1>s, <1>m, <1>u DEF Request
<1>2. CASE OpStep
  <2>1. ASSUME Prepared PROVE Goal
    BY <1>0, <2>1, <1>t, <1>m, <1>u DEF Prepared
  <2>2. ASSUME Observe PROVE Goal
    BY <2>2, <1>t, <1>u DEF Observe
  <2>3. ASSUME Registered PROVE Goal
    BY <1>0, <2>3, <1>o, <1>u DEF Registered
  <2>4. ASSUME Acted PROVE Goal
    BY <1>0, <2>4, <1>o, <1>u DEF Acted
  <2>5. ASSUME NotActed PROVE Goal
    BY <2>5, <1>u DEF NotActed
  <2>6. ASSUME Query PROVE Goal
    BY <1>0, <2>6, <1>o, <1>u DEF Query
  <2>7. ASSUME WriteQuery PROVE Goal
    BY <1>0, <2>7, <1>o DEF WriteQuery
  <2>8. ASSUME Halted PROVE Goal
    BY <1>0, <2>8, <1>s, <1>u DEF Halted
  <2>9. ASSUME Removed PROVE Goal
    <3>1. CASE row' = Deleted /\ call = "ok"
      BY <1>0, <2>9, <3>1 DEF Goal, Deleted, RowOK, RowType, ReasonOwned
    <3>2. CASE UNCHANGED row
      BY <3>2, <1>u
    <3> QED
      BY <2>9, <3>1, <3>2 DEF Removed
  <2>10. ASSUME Resynced PROVE Goal
    BY <2>10, <1>u DEF Resynced
  <2> QED
    BY <1>2, <2>1, <2>2, <2>3, <2>4, <2>5, <2>6, <2>7, <2>8, <2>9, <2>10 DEF OpStep
<1>3. CASE RebuildAsked \/ Rebuild \/ BuildFails \/ BuildDone
  <2>1. ASSUME RebuildAsked PROVE Goal
    BY <2>1, <1>u DEF RebuildAsked
  <2>2. ASSUME NEW t \in {"", "build"}, NEW s \in Statuses,
               \/ Put([row EXCEPT !.text = t])
               \/ Put([row EXCEPT !.text = t, !.status = s])
        PROVE  Goal
    BY <1>0, <2>2, BuildKept DEF Goal
  <2>3. ASSUME Rebuild PROVE Goal
    BY <1>0, <2>2, <2>3 DEF Rebuild
  <2>4. ASSUME BuildFails PROVE Goal
    BY <1>0, <2>2, <2>4 DEF BuildFails
  <2>5. ASSUME BuildDone PROVE Goal
    BY <1>0, <2>2, <2>5 DEF BuildDone
  <2> QED
    BY <1>3, <2>1, <2>3, <2>4, <2>5
<1>4. CASE Resync \/ Handler \/ ProcExit \/ Adopt \/ Beat
  BY <1>4, <1>u DEF Resync, Handler, ProcExit, Adopt, Beat, others, Refuse, NotRunning, CreateBegin,
                    Kill, RemoveBegin, Create, StartBegin, StartDone, StopBegin, StopDone,
                    StopFails, Remove, Reap
<1>5. CASE BeatStep
  BY <1>0, <1>5, <1>s, <1>t, <1>u DEF BeatStep, BeatStatus, BeatReason, BeatMissing
<1>6. CASE RecStep
  BY <1>0, <1>6, <1>s, <1>t, <1>u DEF RecStep, RecList, RecProbe, RecWrite, RecClear
<1>7. CASE GiveUp \/ CpCrash \/ WorkerCrash \/ Crash
  BY <1>7, <1>u DEF GiveUp, CpCrash, WorkerCrash, Crash
<1>8. CASE UNCHANGED vars
  BY <1>8, <1>u DEF vars
<1> QED
  BY <1>1, <1>2, <1>3, <1>4, <1>5, <1>6, <1>7, <1>8 DEF Next

-----------------------------------------------------------------------------
\* Types

BuildOK == /\ build \in [first : BOOLEAN, asked : BOOLEAN, again : 0..MaxRequests, cut : BOOLEAN]
           /\ whole \in BOOLEAN
OpType == [pc : {"idle", "prepare", "observe", "register", "act", "query", "write",
                 "halt", "remove", "settle", "resync"},
           kind : Kinds, seen : Statuses, found : States]
Answers == {"none", "sent", "running", "reaping", "ok", "refused", "notRunning", "lost"}
OpOK == op \in OpType /\ call \in Answers
WorkerOK == /\ known \in BOOLEAN /\ state \in States
            /\ was \in {"STOPPED", "CRASHED"} /\ strategy \in BOOLEAN
            /\ proc \in {"none", "up", "ending"}
GateOK == late \in Calls \cup {"none", "reap"} /\ gate \in {"free", "call", "late"}
BeatOK == /\ beat \in [pc : {"idle", "status", "reason", "missing"}, known : BOOLEAN,
                       state : States, tone : Tones]
          /\ rec \in {"idle", "list", "probe", "alive", "gone", "unknown", "clear"}
          /\ grace \in 0..2
BoundsOK == /\ requests \in 0..MaxRequests /\ faults \subseteq Faults
            /\ halted \in BOOLEAN /\ givenUp \in BOOLEAN /\ adopted \in BOOLEAN

LEMMA TypeParts ==
    TypeOK <=> /\ row \in RowType /\ BuildOK /\ OpOK /\ GateOK /\ WorkerOK /\ BeatOK /\ BoundsOK
BY DEF TypeOK, RowType, BuildOK, OpOK, OpType, Answers, GateOK, WorkerOK, BeatOK, BoundsOK

\* The elements of the sets that the types are made of.
LEMMA Sets ==
    /\ States = {"STOPPED", "STARTING", "RUNNING", "STOPPING", "CRASHED"}
    /\ Statuses = States \cup {"DAMAGED"}
    /\ Kinds = {"start", "stop", "restart", "kill", "delete", "resync"}
    /\ Calls = {"start", "stop", "restart", "kill", "remove", "create"}
    /\ Tones = {"quiet", "healthy", "sick", "broken"}
BY DEF States, Statuses, Kinds, Calls, Tones, Worker!States

LEMMA BuildStep ==
    ASSUME BuildOK, CountInv, requests \in 0..MaxRequests, [Next]_vars
    PROVE  BuildOK' /\ CountInv'
<1> USE BoundAssumption DEF BuildOK, CountInv
<1>0. /\ requests \in Nat /\ build.again \in Nat /\ build.again <= MaxRequests
      /\ build.asked => build.again + 1 <= MaxRequests
  OBVIOUS
<1> DEFINE Goal == BuildOK' /\ CountInv'
<1> SUFFICES Goal
  OBVIOUS
<1>1. ASSUME NEW kind \in Kinds \ {"resync"}, Request(kind) PROVE Goal
  BY <1>1 DEF Request, buildvars
<1>2. CASE OpStep
  BY <1>2 DEF OpStep, Prepared, Observe, Registered, Acted, NotActed, Query, WriteQuery, Halted,
              Removed, Resynced, buildvars, bounds
<1>3. ASSUME RebuildAsked PROVE Goal
  <2>1. BuildOK'
    BY <1>3 DEF RebuildAsked
  <2>2. CountInv'
    BY <1>3 DEF RebuildAsked
  <2> QED
    BY <2>1, <2>2
<1>4. ASSUME Rebuild PROVE Goal
  <2>1. build' = [build EXCEPT !.asked = FALSE, !.again = build.again + 1]
    BY <1>4 DEF Rebuild
  <2>2. build.asked /\ requests' = requests /\ whole' = FALSE
    BY <1>4 DEF Rebuild
  <2>3. build.again + 1 \in 0..MaxRequests
    BY <1>0, <2>2
  <2>4. BuildOK'
    BY <2>1, <2>2, <2>3
  <2>5. CountInv'
    BY <2>1, <2>2
  <2> QED
    BY <2>4, <2>5
<1>5. ASSUME BuildFails PROVE Goal
  <2>1. requests' = requests /\ whole' \in BOOLEAN
    BY <1>5 DEF BuildFails
  <2>2. CASE build' = [build EXCEPT !.first = FALSE]
    BY <2>1, <2>2
  <2>3. CASE build.again > 0 /\ build' = [build EXCEPT !.again = build.again - 1]
    <3>1. build.again - 1 \in 0..MaxRequests
      BY <1>0, <2>3
    <3>2. BuildOK'
      BY <2>1, <2>3, <3>1
    <3>3. CountInv'
      BY <1>0, <2>1, <2>3
    <3> QED
      BY <3>2, <3>3
  <2> QED
    BY <1>5, <2>2, <2>3 DEF BuildFails
<1>6. ASSUME BuildDone PROVE Goal
  <2>1. requests' = requests /\ whole' \in BOOLEAN
    BY <1>6 DEF BuildDone
  <2>2. CASE build' = [build EXCEPT !.first = FALSE]
    BY <2>1, <2>2
  <2>3. CASE build.again > 0 /\ build' = [build EXCEPT !.again = build.again - 1]
    <3>1. build.again - 1 \in 0..MaxRequests
      BY <1>0, <2>3
    <3>2. BuildOK'
      BY <2>1, <2>3, <3>1
    <3>3. CountInv'
      BY <1>0, <2>1, <2>3
    <3> QED
      BY <3>2, <3>3
  <2> QED
    BY <1>6, <2>2, <2>3 DEF BuildDone
<1>7. CASE Resync \/ ProcExit \/ Adopt
  BY <1>7 DEF Resync, ProcExit, Adopt, others, buildvars, bounds
<1>8. CASE Handler
  BY <1>8 DEF Handler, Refuse, NotRunning, CreateBegin, Kill, RemoveBegin, Create, StartBegin,
              StartDone, StopBegin, StopDone, StopFails, Remove, Reap, others, buildvars, bounds
<1>9. CASE Beat \/ BeatStep \/ RecStep
  BY <1>9 DEF Beat, BeatStep, BeatStatus, BeatReason, BeatMissing, RecStep, recUnchanged, RecList,
              RecProbe, RecWrite, RecClear, buildvars, bounds
<1>10. CASE GiveUp \/ WorkerCrash \/ Crash
  BY <1>10 DEF GiveUp, WorkerCrash, Crash, buildvars
<1>11. ASSUME CpCrash PROVE Goal
  <2>1. /\ build' = [first |-> FALSE, asked |-> FALSE, again |-> 0, cut |-> Building]
        /\ whole' = whole /\ requests' = requests
    BY <1>11 DEF CpCrash, NoBuild
  <2>2. Building \in BOOLEAN
    BY <1>0 DEF Building
  <2>3. BuildOK'
    BY <2>1, <2>2
  <2>4. CountInv'
    BY <1>0, <2>1
  <2> QED
    BY <2>3, <2>4
<1>12. CASE UNCHANGED vars
  BY <1>12 DEF vars
<1> QED
  BY <1>1, <1>2, <1>3, <1>4, <1>5, <1>6, <1>7, <1>8, <1>9, <1>10, <1>11, <1>12 DEF Next

LEMMA BeatOKStep ==
    ASSUME BeatOK, state \in States, known \in BOOLEAN, [Next]_vars
    PROVE  BeatOK'
<1> USE Sets DEF BeatOK
<1>1. ASSUME NEW kind \in Kinds \ {"resync"}, Request(kind) PROVE BeatOK'
  BY <1>1 DEF Request, beatvars
<1>2. CASE OpStep
  BY <1>2 DEF OpStep, Prepared, Observe, Registered, Acted, NotActed, Query, WriteQuery, Halted,
              Removed, Resynced, beatvars
<1>3. CASE RebuildAsked \/ Rebuild \/ BuildFails \/ BuildDone
  BY <1>3 DEF RebuildAsked, Rebuild, BuildFails, BuildDone, buildUnchanged, beatvars
<1>4. CASE Resync \/ ProcExit \/ Adopt
  BY <1>4 DEF Resync, ProcExit, Adopt, others, beatvars
<1>5. CASE Handler
  BY <1>5 DEF Handler, Refuse, NotRunning, CreateBegin, Kill, RemoveBegin, Create, StartBegin,
              StartDone, StopBegin, StopDone, StopFails, Remove, Reap, others, beatvars
<1>6. ASSUME Beat PROVE BeatOK'
  <2>1. PICK tone \in Tones :
            \/ beat' = [pc |-> "status", known |-> TRUE, state |-> state, tone |-> tone]
            \/ beat' = [pc |-> "missing", known |-> FALSE, state |-> "STOPPED", tone |-> "quiet"]
    BY <1>6 DEF Beat, NoBeat
  <2>2. UNCHANGED <<rec, grace>>
    BY <1>6 DEF Beat
  <2>3. CASE beat' = [pc |-> "status", known |-> TRUE, state |-> state, tone |-> tone]
    BY <2>2, <2>3
  <2>4. CASE beat' = [pc |-> "missing", known |-> FALSE, state |-> "STOPPED", tone |-> "quiet"]
    BY <2>2, <2>4
  <2> QED
    BY <2>1, <2>3, <2>4
<1>7. ASSUME BeatStep PROVE BeatOK'
  <2>1. \/ beat' = [beat EXCEPT !.pc = "reason"]
        \/ beat' = [pc |-> "idle", known |-> FALSE, state |-> "STOPPED", tone |-> "quiet"]
    BY <1>7 DEF BeatStep, BeatStatus, BeatReason, BeatMissing, NoBeat
  <2>2. rec' \in {rec, "list"} /\ grace' \in {grace, 0}
    BY <1>7 DEF BeatStep, BeatStatus, BeatReason, BeatMissing
  <2>3. CASE beat' = [beat EXCEPT !.pc = "reason"]
    BY <2>2, <2>3
  <2>4. CASE beat' = [pc |-> "idle", known |-> FALSE, state |-> "STOPPED", tone |-> "quiet"]
    BY <2>2, <2>4
  <2> QED
    BY <2>1, <2>3, <2>4
<1>8. ASSUME RecStep PROVE BeatOK'
  <2>1. beat' = beat
    BY <1>8 DEF RecStep, recUnchanged, RecList, RecProbe, RecWrite, RecClear
  <2>2. rec' \in {"idle", "probe", "alive", "gone", "unknown", "clear"}
    BY <1>8 DEF RecStep, RecList, RecProbe, RecWrite, RecClear
  <2>3. grace' = grace \/ (grace < 2 /\ grace' = grace + 1) \/ grace' = 0
    BY <1>8 DEF RecStep, RecList, RecProbe, RecWrite, RecClear
  <2>4. grace' \in 0..2
    BY <2>3
  <2> QED
    BY <2>1, <2>2, <2>4
<1>9. CASE GiveUp \/ WorkerCrash \/ Crash
  BY <1>9 DEF GiveUp, WorkerCrash, Crash, beatvars
<1>10. ASSUME CpCrash PROVE BeatOK'
  BY <1>10 DEF CpCrash, NoBeat
<1>11. CASE UNCHANGED vars
  BY <1>11 DEF vars
<1> QED
  BY <1>1, <1>2, <1>3, <1>4, <1>5, <1>6, <1>7, <1>8, <1>9, <1>10, <1>11 DEF Next

LEMMA BoundsStep ==
    ASSUME BoundsOK, call \in Answers, op \in OpType, [Next]_vars
    PROVE  BoundsOK'
<1> USE BoundAssumption DEF BoundsOK
<1>1. ASSUME NEW kind \in Kinds \ {"resync"}, Request(kind) PROVE BoundsOK'
  <2>1. requests < MaxRequests /\ requests' = requests + 1
    BY <1>1 DEF Request
  <2>2. requests' \in 0..MaxRequests
    BY <2>1
  <2>3. halted' \in BOOLEAN /\ UNCHANGED <<faults, givenUp, adopted>>
    BY <1>1 DEF Request
  <2> QED
    BY <2>2, <2>3
<1>2. CASE Prepared \/ Registered \/ NotActed \/ Query \/ WriteQuery \/ Halted \/ Removed \/ Resynced
  BY <1>2 DEF Prepared, Registered, NotActed, Query, WriteQuery, Halted, Removed, Resynced, bounds,
              history
<1>3. ASSUME Observe PROVE BoundsOK'
  BY <1>3 DEF Observe, Fault, history
<1>4. ASSUME Acted PROVE BoundsOK'
  BY <1>4 DEF Acted, bounds
<1>5. CASE RebuildAsked \/ Rebuild \/ BuildFails \/ BuildDone
  <2>1. requests' = requests \/ (requests < MaxRequests /\ requests' = requests + 1)
    BY <1>5 DEF RebuildAsked, Rebuild, BuildFails, BuildDone
  <2>2. requests' \in 0..MaxRequests
    BY <2>1
  <2>3. UNCHANGED <<faults, halted, givenUp, adopted>>
    BY <1>5 DEF RebuildAsked, Rebuild, BuildFails, BuildDone, buildUnchanged, history
  <2> QED
    BY <2>2, <2>3
<1>6. CASE Resync \/ ProcExit \/ Adopt
  BY <1>6 DEF Resync, ProcExit, Adopt, others, bounds, history
<1>7. CASE Handler
  BY <1>7 DEF Handler, Refuse, NotRunning, CreateBegin, Kill, RemoveBegin, Create, StartBegin,
              StartDone, StopBegin, StopDone, StopFails, Remove, Reap, others, bounds, history
<1>8. CASE Beat \/ BeatStep \/ RecStep
  BY <1>8 DEF Beat, BeatStep, BeatStatus, BeatReason, BeatMissing, RecStep, recUnchanged, RecList,
              RecProbe, RecWrite, RecClear, bounds, history
<1>9. CASE GiveUp \/ CpCrash
  BY <1>9 DEF GiveUp, CpCrash, GivesUp, Fault
<1>10. CASE WorkerCrash \/ Crash
  BY <1>10 DEF WorkerCrash, Crash, Fault, history
<1>11. CASE UNCHANGED vars
  BY <1>11 DEF vars
<1> QED
  BY <1>1, <1>2, <1>3, <1>4, <1>5, <1>6, <1>7, <1>8, <1>9, <1>10, <1>11 DEF Next, OpStep

LEMMA WorkerStep ==
    ASSUME WorkerOK, [Next]_vars
    PROVE  WorkerOK'
<1> USE Sets DEF WorkerOK
<1>1. ASSUME NEW kind \in Kinds \ {"resync"}, Request(kind) PROVE WorkerOK'
  BY <1>1 DEF Request, workervars
<1>2. CASE OpStep
  BY <1>2 DEF OpStep, Prepared, Observe, Registered, Acted, NotActed, Query, WriteQuery, Halted,
              Removed, Resynced, workervars
<1>3. CASE RebuildAsked \/ Rebuild \/ BuildFails \/ BuildDone
  BY <1>3 DEF RebuildAsked, Rebuild, BuildFails, BuildDone, buildUnchanged, workervars
<1>4. CASE Resync \/ ProcExit \/ Adopt
  BY <1>4 DEF Resync, ProcExit, Adopt, workervars
<1>5. CASE Refuse \/ NotRunning \/ CreateBegin \/ Kill \/ RemoveBegin
  BY <1>5 DEF Refuse, NotRunning, CreateBegin, Kill, RemoveBegin, workervars
<1>6. ASSUME NEW who \in {"call", "late"},
             \/ Create(who) \/ StartBegin(who) \/ StopBegin(who) \/ StopFails(who)
             \/ Remove(who) \/ Reap(who)
      PROVE  WorkerOK'
  BY <1>6 DEF Create, StartBegin, StopBegin, StopFails, Remove, Reap, Worker!Starting,
              Worker!Stopping, Worker!Leave
<1>7. ASSUME NEW who \in {"call", "late"}, StartDone(who) \/ StopDone(who) PROVE WorkerOK'
  BY <1>7 DEF StartDone, StopDone
<1>8. CASE Beat \/ BeatStep \/ RecStep
  BY <1>8 DEF Beat, BeatStep, BeatStatus, BeatReason, BeatMissing, RecStep, recUnchanged, RecList,
              RecProbe, RecWrite, RecClear, workervars
<1>9. CASE GiveUp \/ CpCrash \/ WorkerCrash \/ Crash
  BY <1>9 DEF GiveUp, CpCrash, WorkerCrash, Crash
<1>10. CASE UNCHANGED vars
  BY <1>10 DEF vars
<1> QED
  BY <1>1, <1>2, <1>3, <1>4, <1>5, <1>6, <1>7, <1>8, <1>9, <1>10 DEF Next, Handler

\* The steps that leave the operation and its call alone.
LEMMA OpKept ==
    ASSUME \/ RebuildAsked \/ Rebuild \/ BuildFails \/ BuildDone \/ ProcExit \/ Adopt
           \/ Beat \/ BeatStep \/ RecStep \/ Crash \/ UNCHANGED vars
    PROVE  UNCHANGED <<op, call, late, gate>>
<1>1. CASE RebuildAsked \/ Rebuild \/ BuildFails \/ BuildDone
  BY <1>1 DEF RebuildAsked, Rebuild, BuildFails, BuildDone, buildUnchanged, workervars
<1>2. CASE ProcExit \/ Adopt \/ Crash \/ UNCHANGED vars
  BY <1>2 DEF ProcExit, Adopt, Crash, others, vars
<1>3. CASE Beat \/ BeatStep \/ RecStep
  BY <1>3 DEF Beat, BeatStep, BeatStatus, BeatReason, BeatMissing, RecStep, recUnchanged, RecList,
              RecProbe, RecWrite, RecClear, workervars
<1> QED
  BY <1>1, <1>2, <1>3

\* The operation, and its call.
LEMMA OpOKStep ==
    ASSUME OpOK, CallInv, row.status \in Statuses, state \in States, [Next]_vars
    PROVE  OpOK' /\ CallInv'
<1> DEFINE Goal == OpOK' /\ CallInv'
<1> SUFFICES Goal
  OBVIOUS
<1> USE Sets DEF OpOK, OpType, Answers, CallInv
<1>1. ASSUME NEW kind \in Kinds \ {"resync"}, Request(kind) PROVE Goal
  BY <1>1 DEF Request, NoOp
<1>2. CASE OpStep
  <2> USE DEF Goto, Send, End, NoOp
  <2>1. ASSUME Prepared PROVE Goal
    <3>1. /\ op' = NoOp \/ op' = [op EXCEPT !.pc = "observe"]
          /\ call' = "none"
      BY <2>1 DEF Prepared
    <3>2. CASE op' = NoOp
      BY <3>1, <3>2
    <3>3. CASE op' = [op EXCEPT !.pc = "observe"]
      BY <3>1, <3>3
    <3> QED
      BY <3>1, <3>2, <3>3
  <2>2. ASSUME Observe PROVE Goal
    <3>1. CASE op' = NoOp /\ call' = "none"
      BY <3>1
    <3>2. CASE /\ op' = [op EXCEPT !.seen = row.status,
                                   !.pc = IF op.kind \in {"start", "restart"} THEN "register" ELSE "act"]
               /\ call' = "sent"
      BY <3>2
    <3> QED
      BY <2>2, <3>1, <3>2 DEF Observe
  <2>3. ASSUME Registered PROVE Goal
    BY <2>3 DEF Registered
  <2>4. ASSUME Acted PROVE Goal
    BY <2>4 DEF Acted
  <2>5. ASSUME NotActed PROVE Goal
    BY <2>5 DEF NotActed
  <2>6. ASSUME Query PROVE Goal
    <3>1. CASE op' = NoOp /\ call' = "none"
      BY <3>1
    <3>2. CASE op' = [op EXCEPT !.pc = "write", !.found = state] /\ call' = call /\ call = "none"
      BY <3>2
    <3> QED
      BY <2>6, <3>1, <3>2 DEF Query
  <2>7. ASSUME WriteQuery PROVE Goal
    BY <2>7 DEF WriteQuery
  <2>8. ASSUME Halted PROVE Goal
    BY <2>8 DEF Halted
  <2>9. ASSUME Removed PROVE Goal
    BY <2>9 DEF Removed
  <2>10. ASSUME Resynced PROVE Goal
    BY <2>10 DEF Resynced
  <2> QED
    BY <1>2, <2>1, <2>2, <2>3, <2>4, <2>5, <2>6, <2>7, <2>8, <2>9, <2>10 DEF OpStep
<1>3. CASE Resync
  BY <1>3 DEF Resync, NoOp
<1>4. CASE UNCHANGED <<op, call>>
  BY <1>4
<1>5. CASE Handler
  <2>1. op' = op
    BY <1>5 DEF Handler, Refuse, NotRunning, CreateBegin, Kill, RemoveBegin, Create, StartBegin,
                StartDone, StopBegin, StopDone, StopFails, Remove, Reap, others
  <2>2. CASE Refuse \/ NotRunning \/ CreateBegin \/ Kill \/ RemoveBegin
    BY <2>1, <2>2 DEF Refuse, NotRunning, CreateBegin, Kill, RemoveBegin, Begins
  <2>3. ASSUME NEW who \in {"call", "late"}, Create(who) \/ StopFails(who)
        PROVE  Goal
    BY <2>1, <2>3 DEF Create, StopFails, Reply, Handles
  <2>4. ASSUME NEW who \in {"call", "late"}, StartBegin(who) \/ StopBegin(who)
        PROVE  Goal
    BY <2>1, <2>4 DEF StartBegin, StopBegin, Begins
  <2>5. ASSUME NEW who \in {"call", "late"}, StartDone(who) PROVE Goal
    BY <2>1, <2>5 DEF StartDone, Reply, Handles
  <2>6. ASSUME NEW who \in {"call", "late"}, StopDone(who) PROVE Goal
    BY <2>1, <2>6 DEF StopDone, Reply, Handles
  <2>7. ASSUME NEW who \in {"call", "late"}, Remove(who) \/ Reap(who) PROVE Goal
    <3>1. op.pc \in {"remove", "settle", "halt"} \/ call' = call
      BY <2>7 DEF Remove, Reap, Reply, Handles, CallKind
    <3> QED
      BY <2>1, <2>7 DEF Remove, Reap, Reply, Handles, CallKind
  <2> QED
    BY <1>5, <2>2, <2>3, <2>4, <2>5, <2>6, <2>7 DEF Handler
<1>6. CASE GiveUp
  BY <1>6 DEF GiveUp
<1>7. CASE CpCrash
  BY <1>7 DEF CpCrash, NoOp
<1>8. CASE WorkerCrash
  BY <1>8 DEF WorkerCrash
<1> QED
  BY <1>1, <1>2, <1>3, <1>4, <1>5, <1>6, <1>7, <1>8, OpKept DEF Next

-----------------------------------------------------------------------------
\* The gate

\* The Control Plane goes on when a call is over.
LEMMA CpStep ==
    ASSUME CallInv, call \in Answers,
           Resync \/ OpStep \/ \E kind \in Kinds \ {"resync"} : Request(kind)
    PROVE  /\ {call, call'} \cap {"running", "reaping"} = {}
           /\ UNCHANGED <<late, gate, givenUp, adopted, proc, known>>
<1> USE DEF CallInv, workervars, history
<1>1. CASE Resync
  BY <1>1 DEF Resync
<1>2. ASSUME NEW kind \in Kinds \ {"resync"}, Request(kind)
      PROVE  /\ {call, call'} \cap {"running", "reaping"} = {}
             /\ UNCHANGED <<late, gate, givenUp, adopted, proc, known>>
  BY <1>2 DEF Request
<1>3. CASE Prepared \/ Observe \/ Registered \/ Acted \/ NotActed
  BY <1>3 DEF Prepared, Observe, Registered, Acted, NotActed, Send, End
<1>4. CASE Query \/ WriteQuery \/ Halted \/ Removed \/ Resynced
  BY <1>4 DEF Query, WriteQuery, Halted, Removed, Resynced, Send, End
<1> QED
  BY <1>1, <1>2, <1>3, <1>4 DEF OpStep

\* A handler of the Worker leaves the rest of the world alone.
LEMMA HandlerFrame ==
    ASSUME Handler
    PROVE  UNCHANGED others
BY DEF Handler, Refuse, NotRunning, CreateBegin, Kill, RemoveBegin, Create, StartBegin,
       StartDone, StopBegin, StopDone, StopFails, Remove, Reap

GateAll == GateOK /\ GateInv /\ LateInv

LEMMA GateStep ==
    ASSUME GateAll, OpOK, CallInv, [Next]_vars
    PROVE  GateAll'
<1> USE Sets DEF GateAll, GateOK, GateInv, LateInv, Gated
<1>0. call \in Answers
  BY DEF OpOK
<1>1. CASE Resync \/ OpStep \/ \E kind \in Kinds \ {"resync"} : Request(kind)
  BY <1>0, <1>1, CpStep
<1>2. ASSUME UNCHANGED <<op, call, late, gate>>, givenUp => givenUp' PROVE GateAll'
  BY <1>2 DEF CallKind
<1>3. CASE \/ RebuildAsked \/ Rebuild \/ BuildFails \/ BuildDone \/ ProcExit \/ Adopt
           \/ Beat \/ BeatStep \/ RecStep \/ Crash \/ UNCHANGED vars
  <2>1. UNCHANGED givenUp
    BY <1>3 DEF RebuildAsked, Rebuild, BuildFails, BuildDone, buildUnchanged, ProcExit, Adopt, Crash,
                others, vars, Beat, BeatStep, BeatStatus, BeatReason, BeatMissing, RecStep,
                recUnchanged, RecList, RecProbe, RecWrite, RecClear, history
  <2> QED
    BY <1>2, <1>3, <2>1, OpKept
<1>4. CASE Handler
  <2>1. op' = op /\ CallKind' = CallKind /\ givenUp' = givenUp
    BY <1>4, HandlerFrame DEF others, CallKind, history
  <2>2. CASE Refuse \/ NotRunning \/ CreateBegin \/ Kill \/ RemoveBegin
    BY <2>1, <2>2 DEF Refuse, NotRunning, CreateBegin, Kill, RemoveBegin, Begins, workervars
  <2>3. ASSUME NEW who \in {"call", "late"}, Create(who) \/ Remove(who) \/ Reap(who)
        PROVE  GateAll'
    BY <2>1, <2>3 DEF Create, Remove, Reap, Reply, Handles
  <2>4. ASSUME NEW who \in {"call", "late"}, StartBegin(who) \/ StopBegin(who) PROVE GateAll'
    BY <2>1, <2>4 DEF StartBegin, StopBegin, Begins, Handles, Worker!Starting, Worker!Stopping,
                      Worker!Holds
  <2>5. ASSUME NEW who \in {"call", "late"}, StartDone(who) PROVE GateAll'
    BY <2>1, <2>5 DEF StartDone, Reply, Handles
  <2>6. ASSUME NEW who \in {"call", "late"}, StopDone(who) PROVE GateAll'
    BY <2>1, <2>6 DEF StopDone, Reply, Handles
  <2>7. ASSUME NEW who \in {"call", "late"}, StopFails(who) PROVE GateAll'
    BY <2>1, <2>7 DEF StopFails, Reply, Handles
  <2> QED
    BY <1>4, <2>2, <2>3, <2>4, <2>5, <2>6, <2>7 DEF Handler
<1>5. CASE GiveUp
  BY <1>5 DEF GiveUp, GivesUp, Orphaned
<1>6. CASE CpCrash
  BY <1>6 DEF CpCrash, GivesUp, Orphaned
<1>7. CASE WorkerCrash
  BY <1>7 DEF WorkerCrash, history
<1> QED
  BY <1>1, <1>3, <1>4, <1>5, <1>6, <1>7 DEF Next

-----------------------------------------------------------------------------
\* A deleted instance

\* The steps of tasks, heartbeats and their reconciliation do not touch the Worker.
BesideWorker == \/ RebuildAsked \/ Rebuild \/ BuildFails \/ BuildDone
                \/ Beat \/ BeatStep \/ RecStep \/ UNCHANGED vars

LEMMA BesideFrame ==
    ASSUME BesideWorker
    PROVE  UNCHANGED <<op, call, workervars, late, history>>
BY DEF BesideWorker, RebuildAsked, Rebuild, BuildFails, BuildDone, buildUnchanged, Beat, BeatStep,
       BeatStatus, BeatReason, BeatMissing, RecStep, recUnchanged, RecList, RecProbe, RecWrite,
       RecClear, vars, workervars, history

LEMMA GoneStep ==
    ASSUME GoneInv, GateAll, OpOK, CallInv, WorkerOK, [Next]_vars,
           Kept \/ (Removed /\ call = "ok" /\ row' = Deleted)
    PROVE  GoneInv'
<1> USE DEF GoneInv, Removing, Clearing
<1> DEFINE Over == ~row.there \/ Clearing
           Empty == ~row.there \/ Removing
<1>0. /\ Over => /\ call \in {"none", "reaping", "ok"}
                 /\ (known => givenUp \/ adopted) /\ late \notin Gated
      /\ Empty => Over /\ proc = "none" /\ call # "reaping"
      /\ ~row.there => op.pc = "idle" /\ call = "none"
      /\ call \in Answers
  BY DEF CallInv, OpOK
<1>1. CASE Resync \/ OpStep \/ \E kind \in Kinds \ {"resync"} : Request(kind)
  <2>1. /\ UNCHANGED <<late, gate, givenUp, adopted, proc, known>>
        /\ {call, call'} \cap {"running", "reaping"} = {}
    BY <1>0, <1>1, CpStep
  <2>2. call' # "ok" /\ row.there
    BY <1>0, <1>1 DEF Resync, Request, OpStep, Prepared, Observe, Registered, Acted, NotActed, Query,
                  WriteQuery, Halted, Removed, Resynced, Send, End, CallInv
  <2>3. CASE Kept
    BY <2>1, <2>2, <2>3 DEF Kept
  <2>4. CASE Removed /\ call = "ok" /\ row' = Deleted
    BY <1>0, <2>1, <2>2, <2>4 DEF Removed, End, NoOp, Send, Goto
  <2> QED
    BY <2>3, <2>4
<1>2. CASE Kept /\ ~(Resync \/ OpStep \/ \E kind \in Kinds \ {"resync"} : Request(kind))
  <2>1. row'.there = row.there
    BY <1>2 DEF Kept
  <2>2. CASE BesideWorker
    BY <2>1, <2>2, BesideFrame DEF workervars, history
  <2>3. CASE ProcExit \/ Crash
    BY <2>1, <2>3 DEF ProcExit, Crash, others, history
  <2>4. CASE Handler
    <3>1. op' = op /\ givenUp' = givenUp /\ adopted' = adopted
      BY <2>4, HandlerFrame DEF others, history
    <3>2. CASE Over
      <4>1. ASSUME NEW kind \in Calls PROVE ~Begins(kind) /\ ~Handles("call", kind)
        BY <1>0, <3>2 DEF Begins, Handles
      <4>2. PICK who \in {"call", "late"} : Create(who) \/ Remove(who) \/ Reap(who)
        <5>1. ~(Refuse \/ NotRunning \/ CreateBegin \/ Kill \/ RemoveBegin)
          BY <4>1 DEF Refuse, NotRunning, CreateBegin, Kill, RemoveBegin, Calls
        <5>2. ASSUME NEW who \in {"call", "late"}
              PROVE  ~(StartBegin(who) \/ StartDone(who) \/ StopBegin(who) \/ StopDone(who)
                       \/ StopFails(who))
          BY <1>0, <3>2, <4>1 DEF StartBegin, StartDone, StopBegin, StopDone, StopFails, Calls, Gated,
                                  Handles
        <5> QED
          BY <2>4, <5>1, <5>2 DEF Handler
      <4>3. CASE Create(who)
        <5>1. who = "late" /\ givenUp
          BY <4>1, <4>3 DEF Create, Calls, Handles, GateAll, LateInv
        <5> QED
          BY <1>0, <2>1, <3>1, <3>2, <4>3, <5>1 DEF Create, Reply, Gated
      <4>4. CASE Remove(who)
        <5>1. who = "late"
          BY <4>1, <4>4 DEF Remove, Calls
        <5>2. known' = FALSE /\ late' = "reap" /\ call' = call
          BY <4>4, <5>1 DEF Remove
        <5>3. proc = "none" => proc' = "none"
          BY <4>4 DEF Remove
        <5> QED
          BY <1>0, <2>1, <3>1, <3>2, <5>2, <5>3 DEF Gated
      <4>5. CASE Reap(who)
        <5>1. proc' = "none" /\ known' = known /\ late' \in {late, "none"}
          BY <4>5 DEF Reap, Reply
        <5> QED
          BY <1>0, <2>1, <3>1, <3>2, <5>1 DEF Gated
      <4> QED
        BY <4>2, <4>3, <4>4, <4>5
    <3>3. CASE ~Over /\ Clearing'
      <4>1. /\ op.pc \in {"remove", "settle"} /\ call \notin {"reaping", "ok"}
            /\ call' \in {"reaping", "ok"}
        BY <3>1, <3>3
      <4>2. CallKind = "remove"
        BY <4>1 DEF CallKind
      <4>3. Remove("call")
        <5>1. ~(Refuse \/ NotRunning \/ CreateBegin \/ Kill \/ RemoveBegin)
          BY <4>1, <4>2 DEF Refuse, NotRunning, CreateBegin, Kill, RemoveBegin, Begins
        <5>2. ASSUME NEW who \in {"call", "late"}
              PROVE  ~(\/ Create(who) \/ StartBegin(who) \/ StartDone(who) \/ StopBegin(who)
                       \/ StopDone(who) \/ StopFails(who) \/ Reap(who))
          BY <4>1, <4>2 DEF Create, StartBegin, StartDone, StopBegin, StopDone, StopFails, Reap,
                            Handles, Begins, Reply
        <5>3. ~Remove("late")
          BY <4>1 DEF Remove
        <5> QED
          BY <2>4, <5>1, <5>2, <5>3 DEF Handler
      <4>4. late' \notin Gated /\ call' = "reaping" /\ known' = FALSE
        BY <4>3 DEF Remove, GateAll, GateInv
      <4> QED
        BY <2>1, <3>1, <3>3, <4>4
    <3> QED
      BY <2>1, <3>1, <3>2, <3>3
  <2>5. CASE GiveUp
    <3>1. /\ op' = op /\ call' = "lost" /\ UNCHANGED <<known, proc, adopted>>
          /\ givenUp => givenUp'
      BY <2>5 DEF GiveUp, GivesUp
    <3>2. row.there
      BY <1>0, <2>5 DEF GiveUp
    <3> QED
      BY <2>1, <3>1, <3>2
  <2>6. CASE CpCrash
    <3>1. /\ op'.pc = "idle" /\ call' = "none" /\ UNCHANGED <<known, proc, adopted>>
          /\ givenUp => givenUp'
      BY <2>6 DEF CpCrash, GivesUp, NoOp
    <3>2. ~row.there => late' = late
      BY <1>0, <2>6 DEF CpCrash, GivesUp, Orphaned
    <3> QED
      BY <1>0, <2>1, <3>1, <3>2
  <2>7. CASE WorkerCrash
    <3>1. op' = op /\ UNCHANGED <<givenUp, adopted>> /\ proc' = proc /\ late' = "none"
      BY <2>7 DEF WorkerCrash, history
    <3>2. Clearing' => Removing
      BY <2>7, <3>1 DEF WorkerCrash
    <3>3. Empty => known' = FALSE
      BY <1>0, <2>7 DEF WorkerCrash
    <3> QED
      BY <1>0, <2>1, <3>1, <3>2, <3>3 DEF Gated
  <2>8. CASE Adopt
    <3>1. ~Empty
      BY <1>0, <2>8 DEF Adopt
    <3>2. UNCHANGED <<op, call, late, proc>> /\ adopted' = (adopted \/ call = "reaping")
      BY <2>8 DEF Adopt
    <3> QED
      BY <1>0, <2>1, <3>1, <3>2
  <2> QED
    BY <1>2, <2>2, <2>3, <2>4, <2>5, <2>6, <2>7, <2>8 DEF Next, BesideWorker
<1> QED
  BY <1>1, <1>2 DEF OpStep

-----------------------------------------------------------------------------
\* A late start

\* What a call is for, as far as it starts something.
LEMMA StartCalls ==
    /\ CallKind \in Starts => op.pc = "act" /\ CallKind = op.kind
    /\ op.pc = "act" => CallKind = op.kind
BY DEF CallKind, Starts

\* A step of an operation does not turn it into another one.
LEMMA KindKept ==
    ASSUME op \in OpType, OpStep
    PROVE  op'.kind \in {op.kind, "resync"}
<1>1. ASSUME NEW pc, Goto(pc) PROVE op'.kind = op.kind
  BY <1>1 DEF Goto, OpType
<1>2. ASSUME End PROVE op'.kind = "resync"
  BY <1>2 DEF End, NoOp
<1>3. CASE Observe
  <2>1. ASSUME op' = [op EXCEPT !.seen = row.status,
                                !.pc = IF op.kind \in {"start", "restart"} THEN "register" ELSE "act"]
        PROVE  op'.kind = op.kind
    BY <2>1 DEF OpType
  <2> QED
    BY <1>2, <1>3, <2>1 DEF Observe
<1>4. CASE Query
  <2>1. ASSUME op' = [op EXCEPT !.pc = "write", !.found = state] PROVE op'.kind = op.kind
    BY <2>1 DEF OpType
  <2> QED
    BY <1>2, <1>4, <2>1 DEF Query
<1>5. CASE Prepared \/ Registered \/ Acted \/ NotActed
  BY <1>1, <1>2, <1>5 DEF Prepared, Registered, Acted, NotActed, Send
<1>6. CASE WriteQuery \/ Halted \/ Removed \/ Resynced
  BY <1>1, <1>2, <1>6 DEF WriteQuery, Halted, Removed, Resynced, Send
<1> QED
  BY <1>3, <1>4, <1>5, <1>6 DEF OpStep

LEMMA HaltStep ==
    ASSUME HaltInv, GateAll, OpOK, CallInv, [Next]_vars
    PROVE  HaltInv'
<1> USE DEF HaltInv, Stopping, Starts
<1>0. /\ call \in Answers
      /\ op.pc \in {"idle", "observe", "query", "write"} => call = "none"
  BY DEF OpOK, CallInv
<1>1. ASSUME NEW kind \in Kinds \ {"resync"}, Request(kind) PROVE HaltInv'
  <2>1. call' # "ok" /\ late' = late
    BY <1>0, <1>1 DEF Request
  <2>2. op'.kind = kind
    BY <1>1 DEF Request, NoOp
  <2>3. halted' => halted /\ kind \notin Starts
    BY <1>1 DEF Request
  <2> QED
    BY <2>1, <2>2, <2>3
<1>2. CASE Resync
  BY <1>2 DEF Resync, NoOp, history
<1>3. CASE OpStep
  <2>1. late' = late /\ call' # "ok"
    BY <1>0, <1>3, CpStep DEF OpStep, Prepared, Observe, Registered, Acted, NotActed, Query,
                  WriteQuery, Halted, Removed, Resynced, Send, End
  <2>2. op'.kind \in {op.kind, "resync"}
    BY <1>3, KindKept DEF OpOK
  <2>3. CASE Acted
    <3>1. halted' = (halted \/ op.kind \in {"stop", "kill"}) /\ op'.kind = "resync"
      BY <2>3 DEF Acted, End, NoOp
    <3>2. op.pc = "act" /\ call = "ok"
      BY <2>3 DEF Acted
    <3> QED
      BY <2>1, <3>1, <3>2
  <2>4. CASE ~Acted
    <3>1. halted' = halted
      BY <1>3, <2>4 DEF OpStep, Prepared, Observe, Registered, NotActed, Query, WriteQuery, Halted,
                        Removed, Resynced, history
    <3> QED
      BY <2>1, <2>2, <3>1
  <2> QED
    BY <2>3, <2>4
<1>4. CASE BesideWorker
  BY <1>4, BesideFrame DEF history
<1>5. CASE ProcExit \/ Adopt \/ Crash
  BY <1>5 DEF ProcExit, Adopt, Crash, others, history
<1>6. CASE Handler
  <2>1. op' = op /\ halted' = halted
    BY <1>6, HandlerFrame DEF others, history
  <2>2. late' \in {late, "none", "reap"}
    BY <1>6 DEF Handler, Refuse, NotRunning, CreateBegin, Kill, RemoveBegin, Create, StartBegin,
                StartDone, StopBegin, StopDone, StopFails, Remove, Reap, Reply, workervars
  <2>3. CASE halted \/ Stopping \/ ~Stopping'
    BY <2>1, <2>2, <2>3
  <2>4. CASE ~Stopping /\ Stopping'
    <3>1. op.pc = "act" /\ CallKind \in {"stop", "kill"} /\ call # "ok" /\ call' = "ok"
      BY <2>1, <2>4, StartCalls
    <3>2. Kill \/ StopDone("call")
      <4>1. ~(Refuse \/ NotRunning \/ CreateBegin \/ RemoveBegin)
        BY <3>1 DEF Refuse, NotRunning, CreateBegin, RemoveBegin
      <4>2. ASSUME NEW who \in {"call", "late"}
            PROVE  ~(\/ Create(who) \/ StartBegin(who) \/ StartDone(who) \/ StopBegin(who)
                     \/ StopFails(who) \/ Remove(who) \/ Reap(who))
        BY <3>1 DEF Create, StartBegin, StartDone, StopBegin, StopFails, Remove, Reap, Handles,
                    Reply, CallInv
      <4>3. ~StopDone("late")
        BY <3>1 DEF StopDone, Reply
      <4> QED
        BY <1>6, <4>1, <4>2, <4>3 DEF Handler
    <3>3. late \notin Gated
      BY <3>2 DEF Kill, StopDone, GateAll, GateInv
    <3> QED
      BY <2>1, <2>2, <3>1, <3>3 DEF Gated
  <2> QED
    BY <2>3, <2>4
<1>7. CASE GiveUp
  BY <1>7, StartCalls DEF GiveUp, GivesUp, Orphaned
<1>8. CASE CpCrash
  BY <1>8, StartCalls DEF CpCrash, GivesUp, Orphaned, NoOp
<1>9. CASE WorkerCrash
  BY <1>9 DEF WorkerCrash, history
<1> QED
  BY <1>1, <1>2, <1>3, <1>4, <1>5, <1>6, <1>7, <1>8, <1>9 DEF Next, BesideWorker

-----------------------------------------------------------------------------
\* The theorems

\* The initial states.
LEMMA InitInv == Init => IInv
<1> SUFFICES ASSUME Init PROVE IInv
  OBVIOUS
<1>0. PICK s \in {"STOPPED", "RUNNING"}, b \in BOOLEAN :
          /\ row = [there |-> TRUE, status |-> s, text |-> IF b THEN "build" ELSE "",
                    ofWorker |-> FALSE]
          /\ build = [NoBuild EXCEPT !.first = b] /\ whole = ~b
  BY DEF Init
<1>1. row \in RowType /\ row.there /\ ReasonOwned
  BY <1>0, Sets DEF RowType, ReasonOwned
<1>2. BuildOK /\ CountInv
  <2>1. build = [first |-> b, asked |-> FALSE, again |-> 0, cut |-> FALSE] /\ whole \in BOOLEAN
    BY <1>0 DEF NoBuild
  <2>2. BuildOK
    BY <2>1, BoundAssumption DEF BuildOK
  <2>3. CountInv
    <3>1. requests = 0
      BY DEF Init
    <3> QED
      BY <2>1, <3>1 DEF CountInv
  <2> QED
    BY <2>2, <2>3
<1>3. OpOK /\ GateOK /\ WorkerOK
  BY Sets DEF Init, OpOK, OpType, Answers, NoOp, GateOK, WorkerOK
<1>4. BeatOK /\ BoundsOK
  <2>1. BeatOK
    <3>1. /\ beat = [pc |-> "idle", known |-> FALSE, state |-> "STOPPED", tone |-> "quiet"]
          /\ rec = "idle" /\ grace = 0
      BY DEF Init, NoBeat
    <3> QED
      BY <3>1, Sets DEF BeatOK
  <2>2. requests = 0 /\ faults = {} /\ halted = FALSE /\ givenUp = FALSE /\ adopted = FALSE
    BY DEF Init
  <2>3. BoundsOK
    <3>1. requests \in 0..MaxRequests
      BY <2>2, BoundAssumption
    <3> QED
      BY <2>2, <3>1 DEF BoundsOK
  <2> QED
    BY <2>1, <2>3
<1>5. CallInv /\ GateInv /\ LateInv /\ GoneInv /\ HaltInv
  <2>1. CallInv /\ GateInv /\ LateInv
    BY DEF Init, NoOp, CallInv, GateInv, Gated, LateInv
  <2>2. GoneInv /\ HaltInv
    BY <1>1 DEF Init, GoneInv, Removing, Clearing, HaltInv, Stopping, NoOp
  <2> QED
    BY <2>1, <2>2
<1> QED
  BY <1>1, <1>2, <1>3, <1>4, <1>5, TypeParts DEF IInv

\* Every step.
LEMMA StepInv == IInv /\ [Next]_vars => IInv'
<1> SUFFICES ASSUME IInv, [Next]_vars PROVE IInv'
  OBVIOUS
<1>0. row \in RowType /\ BuildOK /\ OpOK /\ GateOK /\ WorkerOK /\ BeatOK /\ BoundsOK
  BY TypeParts DEF IInv
<1>1. Kept \/ (Removed /\ call = "ok" /\ row' = Deleted /\ RowOK')
  BY RowStep DEF IInv
<1>2. row' \in RowType /\ ReasonOwned'
  BY <1>1 DEF Kept, RowOK
<1>3. BuildOK' /\ CountInv'
  BY <1>0, BuildStep DEF IInv, BoundsOK
<1>4. OpOK' /\ CallInv'
  BY <1>0, OpOKStep DEF IInv, RowType, WorkerOK
<1>5. GateAll'
  BY <1>0, GateStep DEF IInv, GateAll
<1>6. WorkerOK'
  BY <1>0, WorkerStep
<1>7. BeatOK'
  BY <1>0, BeatOKStep DEF WorkerOK
<1>8. BoundsOK'
  BY <1>0, BoundsStep DEF OpOK
<1>9. GoneInv'
  BY <1>0, <1>1, GoneStep DEF IInv, GateAll
<1>10. HaltInv'
  BY <1>0, HaltStep DEF IInv, GateAll
<1>11. TypeOK'
  <2>1. GateOK'
    BY <1>5 DEF GateAll
  <2> QED
    BY <1>2, <1>3, <1>4, <1>6, <1>7, <1>8, <2>1
       DEF TypeOK, RowType, BuildOK, OpOK, OpType, Answers, GateOK, WorkerOK, BeatOK, BoundsOK
<1> QED
  BY <1>2, <1>3, <1>4, <1>5, <1>9, <1>10, <1>11 DEF IInv, GateAll

LEMMA Invariant == Spec => []IInv
BY InitInv, StepInv, PTL DEF Spec

\* The variables keep their types.
THEOREM ReconcileTypeCorrect == Spec => []TypeOK
<1>1. IInv => TypeOK
  BY DEF IInv
<1> QED
  BY <1>1, Invariant, PTL

\* A deleted instance has left no process, and no entry but by an orphaned registration or an
\* adoption between the halves of the removal (instance.go, deleteInternal and ResyncNode).
THEOREM DeletedIsGoneHolds == Spec => []DeletedIsGone
<1>1. IInv => DeletedIsGone
  BY DEF IInv, GoneInv, DeletedIsGone
<1> QED
  BY <1>1, Invariant, PTL

\* The source of a reason is its author (handler.go, syncInstanceStates).
THEOREM ReasonOwnedHolds == Spec => []ReasonOwned
<1>1. IInv => ReasonOwned
  BY DEF IInv
<1> QED
  BY <1>1, Invariant, PTL

\* A start or restart that outlives its caller starts nothing after a stop or kill that has
\* been reported as done (manager.go, lockInstanceOperationContext).
THEOREM NoLateStartHolds == Spec => NoLateStart
<1> DEFINE Late == proc # "up" /\ proc' = "up" => ~halted
<1>1. ASSUME IInv, [Next]_vars PROVE [Late]_vars
  <2> SUFFICES ASSUME proc # "up", proc' = "up" PROVE ~halted
    OBVIOUS
  <2>1. Handler
    <3>1. CASE Resync \/ OpStep \/ \E kind \in Kinds \ {"resync"} : Request(kind)
      <4>1. CallInv /\ call \in Answers
        BY <1>1, TypeParts DEF IInv, OpOK
      <4> QED
        BY <3>1, <4>1, CpStep
    <3>2. CASE BesideWorker
      BY <3>2, BesideFrame DEF workervars
    <3>3. CASE ProcExit \/ Adopt \/ GiveUp \/ CpCrash \/ WorkerCrash \/ Crash
      BY <3>3 DEF ProcExit, Adopt, GiveUp, CpCrash, WorkerCrash, Crash
    <3> QED
      BY <1>1, <3>1, <3>2, <3>3 DEF Next, BesideWorker
  <2>2. PICK who \in {"call", "late"} : StartDone(who)
    BY <2>1 DEF Handler, Refuse, NotRunning, CreateBegin, Kill, RemoveBegin, Create, StartBegin,
                StopBegin, StopDone, StopFails, Remove, Reap, workervars
  <2>3. Handles(who, "start") \/ Handles(who, "restart")
    BY <2>2 DEF StartDone
  <2>4. CallKind \in Starts \/ late \in Starts
    BY <2>3 DEF Handles, Starts
  <2> QED
    BY <1>1, <2>4, StartCalls DEF IInv, HaltInv
<1> QED
  BY <1>1, Invariant, PTL DEF Spec, NoLateStart
=============================================================================
