--------------------------- MODULE WorkerInstance ---------------------------
(***************************************************************************)
(* What a Worker promises of one instance to everybody who only sees its   *)
(* state: the state machine behind Manager (internal/worker/process), with *)
(* the gate that serialises the operations.  A state in which a process is *)
(* wanted is entered only by the operation that holds the gate; the end of *)
(* a process may be written at any time, but never over STARTING as a mere *)
(* STOPPED.                                                                *)
(*                                                                         *)
(* Module Reconcile puts this Worker behind the Control Plane.  The        *)
(* detailed models implement it: LifecycleContract shows it of             *)
(* InstanceLifecycle (the daemon mode), and WaitLoop of the modes without  *)
(* a wrapper.                                                              *)
(***************************************************************************)
CONSTANT Holders     \* who may hold the gate; not "free"

VARIABLES
    state,           \* Instance.State
    gate             \* Instance.operationMu: who holds it, or "free"

States == {"STOPPED", "STARTING", "RUNNING", "STOPPING", "CRASHED"}

Init == state = "STOPPED" /\ gate = "free"

\* The gate is taken, or h has it already.
Holds(h) == gate \in {"free", h} /\ gate' = h
\* h has it, and keeps it or gives it back.
Held(h) == gate = h /\ gate' \in {h, "free"}

Take(h) == Holds(h) /\ UNCHANGED state
Leave(h) == Held(h) /\ UNCHANGED state

\* startLocked starts what is at rest, ...
Starting(h) == Holds(h) /\ state \in {"STOPPED", "CRASHED"} /\ state' = "STARTING"
\* ... and writes RUNNING if nothing has happened to it since.
Running(h) == Held(h) /\ state = "STARTING" /\ state' = "RUNNING"
\* stopLocked has no guard on the state.
Stopping(h) == Holds(h) /\ state' = "STOPPING"
\* A stop, a kill, a start that fails or is cancelled.
AtRest(h) == Held(h) /\ state' \in {"STOPPED", "CRASHED"}

\* markStrategyState, beside the gate.
Exited == /\ state' \in {"STOPPED", "CRASHED"}
          /\ state = "STARTING" => state' # "STOPPED"
          /\ UNCHANGED gate

Next == \/ \E h \in Holders : \/ Take(h) \/ Leave(h) \/ Starting(h) \/ Running(h)
                              \/ Stopping(h) \/ AtRest(h)
        \/ Exited

Spec == Init /\ [][Next]_<<state, gate>>
=============================================================================
