---------------------------- MODULE CircuitBreaker ----------------------------
(***************************************************************************)
(* The crash circuit breaker of one daemon instance                        *)
(* (internal/worker/process/health_scan.go).  Four places say whether the  *)
(* instance may restart by itself:                                         *)
(*                                                                         *)
(*  - healthState.broken, the source of truth, under its own lock h.mu;    *)
(*  - Instance.AutoRestart, under Manager.mu;                              *)
(*  - the <uuid>.circuit file, which survives the Worker, and whose writing *)
(*    and removal may fail with nothing but a line in the log;             *)
(*  - autoRestartOff inside the wrapper, which survives the Worker too and *)
(*    is reached only by control frames, over connections that get         *)
(*    replaced.                                                            *)
(*                                                                         *)
(* The scanner goroutine (HealthScanner.ScanOnce) breaks the circuit, any  *)
(* gRPC StartInstance releases it, SetLaunchConfig rewrites AutoRestart.   *)
(* No lock spans two of the places: one action is one critical section,    *)
(* one file operation or one frame sent.                                   *)
(***************************************************************************)
EXTENDS Integers, SequencesExt

CONSTANTS
    Starters,     \* gRPC StartInstance handlers that may run together
    Editors,      \* gRPC CreateInstance handlers that register the instance again
    Threshold,    \* CircuitBreakerThreshold
    Faults,       \* what may go wrong: "frame", a control connection; "file", the .circuit file
    MaxCrashes,   \* bound: crashes in the window
    MaxFrames,    \* bound: frames on their way over one connection
    MaxEvents     \* bound: StartInstance requests, registrations and restarts of the Worker

ASSUME ThresholdAssumption == Threshold \in Nat \ {0}
ASSUME FaultsAssumption == Faults \subseteq {"frame", "file"}
ASSUME BoundAssumption == {MaxCrashes, MaxFrames, MaxEvents} \subseteq Nat

VARIABLES
    broken,       \* healthState.broken has an entry
    crashes,      \* length of the crash window healthState.windows
    autoRestart,  \* Instance.AutoRestart
    state,        \* Instance.State; a start or stop in progress is not visible here
    file,         \* the .circuit file exists
    scan,         \* the scanner: where it is, and what it has read or decided
    spc,          \* where each StartInstance is
    epc,          \* where each SetLaunchConfig is, with the value it will write
    wrapper,      \* the wrapper process: alive, its Java alive, its autoRestartOff
    chan,         \* frames on their way, over the present connection and the one before it
    events,       \* counter for the bound
    lapses,       \* history: what may have parted the file from the circuit since it last
                  \* broke or was released
    astray        \* history: since the last enable of a StartInstance a frame got lost or
                  \* was overtaken, or a Worker restart cut something short

circuit == <<broken, crashes, autoRestart, state, file>>
threads == <<scan, spc, epc>>
history == <<lapses, astray>>
vars == <<broken, crashes, autoRestart, state, file, scan, spc, epc, wrapper, chan,
          events, lapses, astray>>

States == {"STOPPED", "RUNNING", "CRASHED"}
ScanPCs == {"idle", "check", "count", "evidence", "break", "persist", "record",
            "disarm", "recheck", "rearm"}
StartPCs == {"idle", "release", "running", "peek", "unpersist", "restore", "rearm", "start"}
EditPCs == {"idle", "writeTrue", "writeFalse"}
Frames == {"disable", "enable"}
\* "missing": the circuit broke while a release had yet to remove the file, or the write
\* failed.  "stale": it was released while a break had yet to write the file, or the
\* removal failed.
Lapses == {"missing", "stale"}

TypeOK ==
    /\ {broken, autoRestart, file, astray} \subseteq BOOLEAN /\ lapses \subseteq Lapses
    /\ crashes \in 0..MaxCrashes
    /\ state \in States
    /\ scan \in [pc : ScanPCs, state : States, autoRestart : BOOLEAN, force : BOOLEAN]
    /\ spc \in [Starters -> StartPCs]
    /\ epc \in [Editors -> EditPCs]
    /\ wrapper \in [up : BOOLEAN, java : BOOLEAN, off : BOOLEAN]
    /\ chan \in [old : Seq(Frames), new : Seq(Frames)]
    /\ Len(chan.old) <= MaxFrames /\ Len(chan.new) <= MaxFrames
    /\ events \in 0..MaxEvents

IdleScan == [pc |-> "idle", state |-> "STOPPED", autoRestart |-> FALSE, force |-> FALSE]
Running(off) == [up |-> TRUE, java |-> TRUE, off |-> off]
Gone == [up |-> FALSE, java |-> FALSE, off |-> FALSE]
NoFrames == [old |-> <<>>, new |-> <<>>]

\* The instance has been started once; nothing has crashed yet.
Init ==
    /\ broken = FALSE /\ crashes = 0 /\ autoRestart = TRUE
    /\ state = "RUNNING" /\ file = FALSE
    /\ scan = IdleScan
    /\ spc = [s \in Starters |-> "idle"]
    /\ epc = [e \in Editors |-> "idle"]
    /\ wrapper = Running(FALSE) /\ chan = NoFrames
    /\ events = 0
    /\ lapses = {} /\ astray = FALSE

\* A control frame goes out on the present connection; with no wrapper there is nobody
\* to dial.  (A frame that cannot be sent is one that is sent and lost.)
Send(frame) ==
    \/ /\ wrapper.up /\ Len(chan.new) < MaxFrames
       /\ chan' = [chan EXCEPT !.new = Append(@, frame)]
    \/ ~wrapper.up /\ UNCHANGED chan

-----------------------------------------------------------------------------
\* The scanner: scanOne, evaluateCircuitBreaker, breakCircuit, sendDisarmReconciled

\* What the scanner has read is forgotten where nothing uses it any more.
ScanGoes(from, to) ==
    /\ scan.pc = from
    /\ scan' = [(IF to \in {"count", "evidence", "persist", "record"} THEN scan ELSE IdleScan)
                   EXCEPT !.pc = to]
    /\ UNCHANGED <<spc, epc, wrapper, events, astray>>

\* scanOne copies State and AutoRestart under Manager.mu.
ScanBegin ==
    /\ scan.pc = "idle"
    /\ scan' = [pc |-> "check", state |-> state, autoRestart |-> autoRestart, force |-> FALSE]
    /\ UNCHANGED <<circuit, spc, epc, wrapper, chan, events, history>>

\* Mutant of ScanCheck: the scanner disarms once, when it breaks the circuit.
ScanCheckOnce ==
    /\ ScanGoes("check", IF ~broken /\ scan.autoRestart THEN "count" ELSE "idle")
    /\ UNCHANGED <<circuit, chan, lapses>>

\* A broken circuit is disarmed again on every scan; with AutoRestart off there
\* is nothing to break.
ScanCheck ==
    /\ ScanGoes("check", IF broken THEN "disarm"
                         ELSE IF scan.autoRestart THEN "count" ELSE "idle")
    /\ UNCHANGED <<circuit, chan, lapses>>

ScanCount ==
    /\ ScanGoes("count", IF crashes >= Threshold THEN "evidence" ELSE "idle")
    /\ UNCHANGED <<circuit, chan, lapses>>

\* Unless the process of a RUNNING instance is seen alive, State will be forced.
ScanEvidence ==
    /\ scan.pc = "evidence"
    /\ scan' = [IdleScan EXCEPT !.pc = "break",
                                !.force = ~(scan.state = "RUNNING" /\ wrapper.up)]
    /\ UNCHANGED <<circuit, spc, epc, wrapper, chan, events, history>>

\* What parted the file from the circuit before is over, but a release may have yet to
\* remove the file.
NoteBreak ==
    lapses' = IF broken THEN lapses
              ELSE {l \in {"missing"} : \E s \in Starters : spc[s] = "unpersist"}

\* Mutant of Break: the state file is not written.
BreakInMemory ==
    /\ ScanGoes("break", IF broken THEN "idle" ELSE "record")
    /\ broken' = TRUE /\ NoteBreak
    /\ UNCHANGED <<crashes, autoRestart, state, file, chan>>

\* The critical section of breakCircuit: only the first caller goes on.
Break ==
    /\ ScanGoes("break", IF broken THEN "idle" ELSE "persist")
    /\ broken' = TRUE /\ NoteBreak
    /\ UNCHANGED <<crashes, autoRestart, state, file, chan>>

\* A write that fails, or that has no directory to go to, is only logged.
Persist ==
    /\ ScanGoes("persist", "record")
    /\ \/ file' = TRUE /\ UNCHANGED lapses
       \/ "file" \in Faults /\ lapses' = lapses \cup {"missing"} /\ UNCHANGED file
    /\ UNCHANGED <<broken, crashes, autoRestart, state, chan>>

Record ==
    /\ ScanGoes("record", "disarm")
    /\ autoRestart' = FALSE
    /\ state' = IF scan.force THEN "CRASHED" ELSE state
    /\ UNCHANGED <<broken, crashes, file, chan, lapses>>

Disarm ==
    /\ ScanGoes("disarm", "recheck")
    /\ Send("disable")
    /\ UNCHANGED <<circuit, lapses>>

\* Mutant of Recheck: no look at the circuit after the frame has been sent.
RecheckNever ==
    /\ ScanGoes("recheck", "idle")
    /\ UNCHANGED <<circuit, chan, lapses>>

\* A disable that went out after the release is corrected by an enable.
Recheck ==
    /\ ScanGoes("recheck", IF broken THEN "idle" ELSE "rearm")
    /\ UNCHANGED <<circuit, chan, lapses>>

ScanRearm ==
    /\ ScanGoes("rearm", "idle")
    /\ Send("enable")
    /\ UNCHANGED <<circuit, lapses>>

-----------------------------------------------------------------------------
\* StartInstance: ReleaseCircuitBreaker, then StartContext

StartGoes(s, from, to) ==
    /\ spc[s] = from
    /\ spc' = [spc EXCEPT ![s] = to]
    /\ UNCHANGED <<scan, epc>>

StartInstance(s) ==
    /\ StartGoes(s, "idle", "release")
    /\ events < MaxEvents /\ events' = events + 1
    /\ UNCHANGED <<circuit, wrapper, chan, history>>

\* The critical section of the release: the entry and the crash window go.
Release(s) ==
    /\ StartGoes(s, "release", IF broken THEN "unpersist" ELSE "running")
    /\ broken' = FALSE /\ crashes' = 0
    /\ lapses' = IF broken THEN {l \in {"stale"} : scan.pc = "persist"} ELSE lapses
    /\ UNCHANGED <<autoRestart, state, file, wrapper, chan, events, astray>>

\* Nothing to release: a RUNNING instance whose circuit is still closed gets one
\* more enable frame.
ReleaseRunning(s) ==
    /\ StartGoes(s, "running", IF state = "RUNNING" THEN "peek" ELSE "start")
    /\ UNCHANGED <<circuit, wrapper, chan, events, history>>

ReleasePeek(s) ==
    /\ StartGoes(s, "peek", IF broken THEN "start" ELSE "rearm")
    /\ UNCHANGED <<circuit, wrapper, chan, events, history>>

\* A removal that fails is only logged.
Unpersist(s) ==
    /\ StartGoes(s, "unpersist", "restore")
    /\ \/ file' = FALSE /\ UNCHANGED lapses
       \/ "file" \in Faults /\ lapses' = lapses \cup {"stale"} /\ UNCHANGED file
    /\ UNCHANGED <<broken, crashes, autoRestart, state, wrapper, chan, events, astray>>

Restore(s) ==
    /\ StartGoes(s, "restore", "rearm")
    /\ autoRestart' = TRUE
    /\ UNCHANGED <<broken, crashes, state, file, wrapper, chan, events, history>>

\* The enable of a StartInstance makes up for whatever went astray before it.
ReleaseRearm(s) ==
    /\ StartGoes(s, "rearm", "start")
    /\ Send("enable") /\ astray' = FALSE
    /\ UNCHANGED <<circuit, wrapper, events, lapses>>

\* StartContext refuses a RUNNING instance, fails while the prior wrapper still
\* lives, and otherwise spawns a wrapper, whose autoRestartOff is false.
Start(s) ==
    /\ StartGoes(s, "start", "idle")
    /\ \/ state = "RUNNING" /\ UNCHANGED <<state, wrapper>>
       \/ state # "RUNNING" /\ wrapper.up /\ state' = "CRASHED" /\ UNCHANGED wrapper
       \/ state # "RUNNING" /\ ~wrapper.up /\ state' = "RUNNING" /\ wrapper' = Running(FALSE)
    /\ UNCHANGED <<broken, crashes, autoRestart, file, chan, events, history>>

-----------------------------------------------------------------------------
\* SetLaunchConfig reads the circuit first and writes AutoRestart later.

EditRead(e, value) ==
    /\ epc[e] = "idle"
    /\ epc' = [epc EXCEPT ![e] = IF value /\ ~broken THEN "writeTrue" ELSE "writeFalse"]
    /\ events < MaxEvents /\ events' = events + 1
    /\ UNCHANGED <<circuit, scan, spc, wrapper, chan, history>>

EditWrite(e) ==
    /\ epc[e] # "idle"
    /\ autoRestart' = (epc[e] = "writeTrue")
    /\ epc' = [epc EXCEPT ![e] = "idle"]
    /\ UNCHANGED <<broken, crashes, state, file, scan, spc, wrapper, chan, events, history>>

-----------------------------------------------------------------------------
\* The wrapper and the rest of the Worker

\* Mutant of JavaCrashes: the crash window has no upper limit.
JavaCrashesUncapped ==
    /\ wrapper.up /\ wrapper.java
    /\ wrapper' = [wrapper EXCEPT !.java = FALSE]
    /\ crashes' = crashes + 1
    /\ UNCHANGED <<broken, autoRestart, state, file, threads, chan, events, history>>

\* Java crashes, and the exit event reaches noteProcessCrash, or gets lost.
JavaCrashes ==
    /\ wrapper.up /\ wrapper.java
    /\ wrapper' = [wrapper EXCEPT !.java = FALSE]
    /\ \/ crashes < MaxCrashes /\ crashes' = crashes + 1
       \/ "frame" \in Faults /\ UNCHANGED crashes
    /\ UNCHANGED <<broken, autoRestart, state, file, threads, chan, events, history>>

\* crashRestartCount prunes what is older than the window.
WindowSlides ==
    /\ crashes > 0
    /\ crashes' = crashes - 1
    /\ UNCHANGED <<broken, autoRestart, state, file, threads, wrapper, chan, events, history>>

\* acceptLoop reads every connection in a readLoop of its own: frames are in order on
\* one connection, and not between two.
WrapperReads(c) ==
    /\ wrapper.up /\ chan[c] # <<>>
    /\ wrapper' = [wrapper EXCEPT !.off = (Head(chan[c]) = "disable")]
    /\ chan' = [chan EXCEPT ![c] = Tail(@)]
    /\ astray' = \/ astray
                 \/ /\ c = "new" /\ Head(chan.new) = "enable"
                    /\ chan.old # <<>> /\ Last(chan.old) = "disable"
    /\ UNCHANGED <<circuit, threads, events, lapses>>

\* The connection breaks, or another client of the wrapper replaces it: the next frame
\* goes out on a fresh one.  Bound: frames are on their way over two connections.
Redial ==
    /\ "frame" \in Faults /\ wrapper.up /\ chan.old = <<>> /\ chan.new # <<>>
    /\ chan' = [old |-> chan.new, new |-> <<>>]
    /\ UNCHANGED <<circuit, threads, wrapper, events, history>>

\* The wrapper closes a connection that has been replaced, and what it has not read of
\* it is lost.  Nothing sends an enable again; a disable is repeated by the next scan.
FramesLost ==
    /\ chan.old # <<>>
    /\ chan' = [chan EXCEPT !.old = <<>>]
    /\ astray' = (astray \/ Last(chan.old) = "enable")
    /\ UNCHANGED <<circuit, threads, wrapper, events, lapses>>

WrapperRestartsJava ==
    /\ wrapper.up /\ ~wrapper.java /\ ~wrapper.off
    /\ wrapper' = [wrapper EXCEPT !.java = TRUE]
    /\ UNCHANGED <<circuit, threads, chan, events, history>>

\* A wrapper without Java may end: disabled, or giving up.
WrapperEnds ==
    /\ wrapper.up /\ ~wrapper.java
    /\ wrapper' = Gone /\ chan' = NoFrames
    /\ UNCHANGED <<circuit, threads, events, history>>

\* The Worker learns that the wrapper is gone.
Reap ==
    /\ ~wrapper.up /\ state = "RUNNING"
    /\ state' = "CRASHED"
    /\ UNCHANGED <<broken, crashes, autoRestart, file, threads, wrapper, chan, events, history>>

\* StopInstance ends the wrapper and clears the crash window.
Stop ==
    /\ state = "RUNNING"
    /\ state' = "STOPPED" /\ crashes' = 0
    /\ wrapper' = Gone /\ chan' = NoFrames
    /\ UNCHANGED <<broken, autoRestart, file, threads, events, history>>

\* The Worker dies and comes back.  With the wrapper alive,
\* RecoverDaemonInstances restores the circuit from the file and disarms again;
\* without it the instance is registered anew, which drops all accounting and removes
\* the file, if it can.  Of the frames on their way one connection's may still be read.
WorkerRestart ==
    /\ events < MaxEvents /\ events' = events + 1
    /\ astray' = \/ astray \/ chan # NoFrames \/ scan.pc # "idle"
                 \/ broken /\ ~file
                 \/ \E s \in Starters : spc[s] # "idle"
    /\ broken' = (wrapper.up /\ file)
    /\ autoRestart' = ~broken'
    /\ file' \in {broken', file} /\ (file' # broken' => "file" \in Faults)
    /\ lapses' = {l \in {"stale"} : file' # broken'}
    /\ crashes' = 0
    /\ state' = IF wrapper.up THEN "RUNNING" ELSE "STOPPED"
    /\ scan' = [IdleScan EXCEPT !.pc = IF broken' THEN "disarm" ELSE "idle"]
    /\ spc' = [s \in Starters |-> "idle"]
    /\ epc' = [e \in Editors |-> "idle"]
    /\ chan' \in {NoFrames} \cup {[NoFrames EXCEPT !.old = chan[c]] : c \in DOMAIN chan}
    /\ UNCHANGED wrapper

-----------------------------------------------------------------------------
Scanner == \/ ScanBegin \/ ScanCheck \/ ScanCount \/ ScanEvidence \/ Break
           \/ Persist \/ Record \/ Disarm \/ Recheck \/ ScanRearm
Starter(s) == \/ Release(s) \/ ReleaseRunning(s) \/ ReleasePeek(s) \/ Unpersist(s)
              \/ Restore(s) \/ ReleaseRearm(s) \/ Start(s)
Edit(e) == EditWrite(e) \/ \E value \in BOOLEAN : EditRead(e, value)
Reads == \E c \in DOMAIN chan : WrapperReads(c)
WrapperSteps == Reads \/ WrapperRestartsJava \/ WrapperEnds
Environment == Redial \/ FramesLost \/ JavaCrashes \/ WindowSlides \/ Reap \/ Stop \/ WorkerRestart

Next ==
    \/ Scanner \/ WrapperSteps \/ Environment
    \/ \E s \in Starters : StartInstance(s) \/ Starter(s)
    \/ \E e \in Editors : Edit(e)

Spec == Init /\ [][Next]_vars

\* The scanner wakes again and again, handlers that have begun go on, the wrapper
\* reads its connections, and frames sent again and again are not all lost.
Fairness ==
    /\ WF_vars(Scanner) /\ SF_vars(Reads)
    /\ \A s \in Starters : WF_vars(Starter(s))

FairSpec == Spec /\ Fairness

-----------------------------------------------------------------------------
\* Properties

Quiet == /\ scan.pc = "idle" /\ chan = NoFrames
         /\ \A s \in Starters : spc[s] = "idle"
         /\ \A e \in Editors : epc[e] = "idle"

\* The comments on sendDisarmReconciled and in ReleaseCircuitBreaker: with the circuit
\* closed the wrapper is not left with its automatic restart off, however scans and
\* releases interleave.  After the last enable of a StartInstance only a lost enable, an
\* enable that overtook a disable of an earlier connection, or a Worker restart can do
\* that, and the next StartInstance makes it good.
WrapperFollows ==
    Quiet /\ ~broken /\ wrapper.up /\ wrapper.off => astray

\* The file follows the circuit from the moment breakCircuit goes on, so that a Worker
\* restart finds what was broken, until a release has removed it, so that it finds
\* nothing else.  What can part them is a write or a removal that fails, and a break and
\* a release that cross between memory and disk.
FileFollows ==
    /\ broken /\ scan.pc # "persist" => file \/ "missing" \in lapses
    /\ file /\ ~broken => "stale" \in lapses \/ \E s \in Starters : spc[s] = "unpersist"

\* A broken circuit reaches the wrapper, however many frames get lost.
BreakReachesWrapper == broken ~> (wrapper.off \/ ~broken \/ ~wrapper.up)

\* The comment in ReleaseCircuitBreaker: a circuit that has been released is not
\* found broken again by the next Worker.
ReleasedLeavesNoFile == Quiet /\ file => broken
=============================================================================
