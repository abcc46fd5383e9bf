-------------------------- MODULE LifecycleContract --------------------------
(***************************************************************************)
(* InstanceLifecycle implements WorkerInstance: the state of the record    *)
(* and the gate, with the strategies, wrappers and reapers forgotten.      *)
(***************************************************************************)
EXTENDS InstanceLifecycle

Contract == INSTANCE WorkerInstance WITH Holders <- Ops, state <- inst.state, gate <- gate

\* Whatever the strategies, the wrappers and their late obituaries do, the Worker shows the
\* Control Plane the state machine of WorkerInstance (manager.go, startLocked to killLocked
\* and markStrategyState).
WorkerContract == Contract!Spec

Seen(w) == INSTANCE WrapperLife WITH life <- life[w], java <- java[w] # "none"

\* What the Worker does to a wrapper and what it expects of it is WrapperLife, for each of
\* them (daemon.go, Start, Stop, Kill and reapWrapper).
WrappersAsExpected ==
    /\ \A w \in Ids : Seen(w)!NotStarted
    /\ [][\A w \in Ids : Seen(w)!Next \/ UNCHANGED <<life[w], java[w]>>]_<<life, java>>
=============================================================================
