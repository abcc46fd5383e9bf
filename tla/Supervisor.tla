------------------------------ MODULE Supervisor ------------------------------
(***************************************************************************)
(* What a daemon wrapper promises to everybody who does not look inside:   *)
(* it runs one Java process at a time and kills it only when asked to; a   *)
(* request to stop is not forgotten before the wrapper has decided to      *)
(* close, and it so decides only with no Java alive; once it has, it       *)
(* launches nothing more, except in the one race that `late' records.      *)
(*                                                                         *)
(* Module Wrapper implements it (internal/worker/daemon/wrapper.go).       *)
(***************************************************************************)
VARIABLES
    java,      \* "none", "alive", or "killed": signalled, and not yet gone
    asked,     \* a stop or kill was requested and has still to be obeyed
    closing,   \* the decision to close has been taken, by whichever goroutine
    late,      \* startJava went on to launch beside a goroutine that had taken it
    up         \* the wrapper process exists

Init == java = "none" /\ asked = FALSE /\ closing = FALSE /\ late = FALSE /\ up = TRUE

\* The decision to close may be part of a step that leaves no Java alive.
MayClose == \/ UNCHANGED closing
            \/ closing' = TRUE /\ java' # "alive"

Launch == /\ up /\ java = "none" /\ (closing => late)
          /\ java' = "alive"
          /\ UNCHANGED <<asked, closing, late, up>>

Ask == /\ up /\ asked' = TRUE
       /\ MayClose
       /\ UNCHANGED <<java, late, up>>

Kill == /\ up /\ asked /\ java = "alive"
        /\ java' = "killed"
        /\ MayClose
        /\ UNCHANGED <<asked, late, up>>

JavaEnds == /\ java # "none" /\ java' = "none"
            /\ UNCHANGED <<asked, closing, late, up>>

Close == /\ up /\ MayClose
         /\ UNCHANGED <<java, asked, late, up>>

\* The request is done with, or startJava overwrites it.
Forget == /\ up /\ closing /\ java = "none"
          /\ asked' = FALSE /\ late' \in {late, TRUE}
          /\ UNCHANGED <<java, closing, up>>

Exit == /\ up /\ closing
        /\ up' = FALSE
        /\ UNCHANGED <<java, asked, closing, late>>

Next == Launch \/ Ask \/ Kill \/ JavaEnds \/ Close \/ Forget \/ Exit

Spec == Init /\ [][Next]_<<java, asked, closing, late, up>>
=============================================================================
