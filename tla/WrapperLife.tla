----------------------------- MODULE WrapperLife -----------------------------
(***************************************************************************)
(* A wrapper process and its Java, as the Worker can tell them from        *)
(* outside: this is all that InstanceLifecycle knows of a wrapper.  It     *)
(* boots, comes up, launches Java, is told to stop and ends, and no Java   *)
(* is left when it ends by itself; only when the Worker kills it may its   *)
(* Java outlive it.  Nothing comes back to life.                           *)
(*                                                                         *)
(* InstanceLifecycle treats every wrapper so (internal/worker/process,     *)
(* daemon.go), and module Wrapper does what it says, but for the late      *)
(* launch (internal/worker/daemon, wrapper.go).                            *)
(***************************************************************************)
VARIABLES
    life,      \* "none", "boot", "up", "stopping" or "gone"
    java       \* Java may be alive: the wrapper has launched it, or left it behind

Living == {"boot", "up", "stopping"}

NotStarted == life = "none" /\ java = FALSE
\* It listens and is about to launch Java; here the history of module Wrapper begins.
Listening == life = "up" /\ java = TRUE

Boots == life = "none" /\ life' = "boot" /\ UNCHANGED java
ComesUp == life = "boot" /\ life' = "up" /\ UNCHANGED java
Launches == life \in {"up", "stopping"} /\ java' = TRUE /\ UNCHANGED life
\* A stop was read, or the wrapper has decided to close; there is no way back.
Told == life = "up" /\ life' = "stopping" /\ UNCHANGED java
Ends == life \in Living /\ life' = "gone" /\ java' = FALSE
OrphanEnds == life = "gone" /\ java /\ java' = FALSE /\ UNCHANGED life

\* The Worker's SIGKILL.
Killed == life \in Living /\ life' = "gone" /\ java' \in {java, FALSE}

\* What a wrapper does that is not killed.
Alone == ComesUp \/ Launches \/ Told \/ Ends \/ OrphanEnds
Next == Boots \/ Alone \/ Killed

Spec == NotStarted /\ [][Next]_<<life, java>>
=============================================================================
