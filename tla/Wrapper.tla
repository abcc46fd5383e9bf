------------------------------- MODULE Wrapper -------------------------------
(***************************************************************************)
(* One daemon wrapper process (internal/worker/daemon/wrapper.go): the     *)
(* parent of an instance's Java process, started by the Worker and meant   *)
(* to survive it.  Its goroutines share the fields of Wrapper under w.mu:  *)
(*                                                                         *)
(*  - the launcher: startJava, first on the main goroutine, then at the    *)
(*    end of javaWait, which also reaps Java and decides about restarts;   *)
(*  - one handler (readLoop) per accepted Worker connection, several at a  *)
(*    time while a replaced connection drains;                             *)
(*  - one timer goroutine per graceful stop;                               *)
(*  - main, which waits for closing, cleans the PID file up and exits.     *)
(*                                                                         *)
(* One action is one critical section of w.mu, one system call, or one     *)
(* access to the PID file; everything may happen between two of them.      *)
(***************************************************************************)
EXTENDS Integers, FiniteSets

CONSTANTS
    Handlers,        \* readLoop goroutines that may be alive together
    Launcher,        \* the goroutine that runs startJava / javaWait
    AutoRestart,     \* WrapperConfig.AutoRestart
    MaxFastCrashes,  \* maxFastCrashes (5 in the code)
    MaxLaunch,       \* bound: Java launches explored
    MaxFrames        \* bound: control frames explored

ASSUME LauncherAssumption == Launcher \notin Handlers
ASSUME ConfigAssumption == AutoRestart \in BOOLEAN
ASSUME BoundAssumption == /\ MaxFastCrashes \in Nat \ {0}
                          /\ MaxLaunch \in Nat \ {0}
                          /\ MaxFrames \in Nat

Threads == Handlers \cup {Launcher}
Generations == 1..MaxLaunch     \* the Java processes this wrapper launches, in order
NoJava == 0                     \* a nil *exec.Cmd

VARIABLES
    w,         \* the fields of Wrapper that w.mu protects
    lpc,       \* where the launcher is in startJava / javaWait
    mpc,       \* where main is in run
    spc,       \* where each thread is in stopJava / signalClose
    target,    \* the cmd that a thread's stopJava took under the lock
    timers,    \* graceful-stop timers still sleeping
    woken,     \* processes that a woken timer has read and will kill
    proc,      \* the operating system's view of each launched process
    launches,  \* number of processes launched
    pidRec,    \* whom the PID file names: nobody, this wrapper, another one
    frames,    \* control frames handled so far
    lateLaunch \* history: startJava committed to a launch while some thread
               \* had already decided to close the wrapper

pcs == <<lpc, mpc>>
stopping == <<spc, target, timers, woken>>
processes == <<proc, launches>>
history == <<frames, lateLaunch>>
vars == <<w, lpc, mpc, spc, target, timers, woken, proc, launches, pidRec, frames,
          lateLaunch>>

LauncherPCs == {"lock", "exec", "failed", "setCrashed", "register", "pid", "deferred",
                "deferStop", "deferKill", "deferring", "wait", "setStopped", "crash",
                "crashAgain", "owner", "allowed", "backoff", "recheckOff", "close", "done"}
MainPCs == {"boot", "wait", "cleanup", "remove", "leaving", "exited"}
StopPCs == {"idle", "write", "kill", "close"}
ProcStates == {"none", "alive", "killed", "dead"}

Fields == [state : {"STOPPED", "STARTING", "RUNNING", "STOPPING", "CRASHED"},
           closed : BOOLEAN, javaCmd : 0..MaxLaunch, javaStarting : BOOLEAN,
           stopDeferred : BOOLEAN, stopDeferredForce : BOOLEAN,
           autoRestartOff : BOOLEAN, fastCrashes : Nat]

TypeOK ==
    /\ w \in Fields
    /\ lpc \in LauncherPCs
    /\ mpc \in MainPCs
    /\ spc \in [Threads -> StopPCs]
    /\ target \in [Threads -> 0..MaxLaunch]
    /\ timers \in Nat
    /\ woken \subseteq Generations
    /\ proc \in [Generations -> ProcStates]
    /\ launches \in 0..MaxLaunch
    /\ pidRec \in {"none", "self", "other"}
    /\ frames \in 0..MaxFrames
    /\ lateLaunch \in BOOLEAN

\* run has listened, written the PID record and started acceptLoop; the main
\* goroutine is about to call startJava.
Init ==
    /\ w = [state |-> "STOPPED", closed |-> FALSE, javaCmd |-> NoJava,
            javaStarting |-> FALSE, stopDeferred |-> FALSE, stopDeferredForce |-> FALSE,
            autoRestartOff |-> FALSE, fastCrashes |-> 0]
    /\ lpc = "lock" /\ mpc = "boot"
    /\ spc = [t \in Threads |-> "idle"]
    /\ target = [t \in Threads |-> NoJava]
    /\ timers = 0 /\ woken = {}
    /\ proc = [g \in Generations |-> "none"]
    /\ launches = 0
    /\ pidRec = "self"
    /\ frames = 0
    /\ lateLaunch = FALSE

Up == mpc # "exited"    \* the wrapper process exists, so its goroutines run
At(pc) == Up /\ lpc = pc
ThreadAt(t, pc) == Up /\ spc[t] = pc
NoJavaInSight == w.javaCmd = NoJava /\ ~w.javaStarting

-----------------------------------------------------------------------------
\* startJava

\* What follows a startJava that returned an error: run returns on the first
\* launch, javaWait closes the wrapper on a later one.
LaunchRefused ==
    IF mpc = "boot"
    THEN lpc' = "done" /\ mpc' = "cleanup"
    ELSE lpc' = "close" /\ UNCHANGED mpc

\* First critical section: suppressed when closed or disabled, otherwise the
\* launch is committed.
StartSuppressed ==
    /\ At("lock")
    /\ w.closed \/ w.autoRestartOff
    /\ LaunchRefused
    /\ UNCHANGED <<w, stopping, processes, pidRec, history>>

StartCommit ==
    /\ At("lock")
    /\ ~w.closed /\ ~w.autoRestartOff
    /\ launches < MaxLaunch
    /\ w' = [w EXCEPT !.state = "STARTING", !.javaStarting = TRUE]
    /\ lpc' = "exec"
    /\ lateLaunch' = (lateLaunch \/ \E t \in Threads : spc[t] = "close")
    /\ UNCHANGED <<mpc, stopping, processes, pidRec, frames>>

\* cmd.Start: the operating system creates the process, or refuses.
StartExec ==
    /\ At("exec")
    /\ \/ /\ launches' = launches + 1
          /\ proc' = [proc EXCEPT ![launches + 1] = "alive"]
          /\ lpc' = "register"
       \/ /\ lpc' = "failed"
          /\ UNCHANGED processes
    /\ UNCHANGED <<w, mpc, stopping, pidRec, history>>

\* The failure path: finishJavaStarting, then setState(StateCrashed).
StartFailed ==
    /\ At("failed")
    /\ w' = [w EXCEPT !.javaStarting = FALSE]
    /\ lpc' = "setCrashed"
    /\ UNCHANGED <<mpc, stopping, processes, pidRec, history>>

StartSetCrashed ==
    /\ At("setCrashed")
    /\ w' = [w EXCEPT !.state = "CRASHED"]
    /\ LaunchRefused
    /\ UNCHANGED <<stopping, processes, pidRec, history>>

\* Second critical section: the process becomes javaCmd.
StartRegister ==
    /\ At("register")
    /\ w' = [w EXCEPT !.javaCmd = launches, !.state = "RUNNING", !.javaStarting = FALSE]
    /\ lpc' = "pid"
    /\ UNCHANGED <<mpc, stopping, processes, pidRec, history>>

\* The PID record is rewritten with this wrapper's pid, whoever it named.
StartWritePID ==
    /\ At("pid")
    /\ pidRec' = "self"
    /\ lpc' = "deferred"
    /\ UNCHANGED <<w, mpc, stopping, processes, history>>

\* Mutant of ApplyDeferredStop: the deferred stop is cleared, not replayed.
ForgetDeferredStop ==
    /\ At("deferred")
    /\ w' = [w EXCEPT !.stopDeferred = FALSE, !.stopDeferredForce = FALSE]
    /\ lpc' = "deferring"
    /\ UNCHANGED <<mpc, stopping, processes, pidRec, history>>

\* applyDeferredStop takes and clears the stop or kill that came while Java
\* was starting.
ApplyDeferredStop ==
    /\ At("deferred")
    /\ w' = [w EXCEPT !.stopDeferred = FALSE, !.stopDeferredForce = FALSE]
    /\ lpc' = IF w.stopDeferred
              THEN IF w.stopDeferredForce THEN "deferKill" ELSE "deferStop"
              ELSE "deferring"
    /\ UNCHANGED <<mpc, stopping, processes, pidRec, history>>

\* startJava returns nil and javaWait blocks in cmd.Wait; after the first
\* launch main goes on to wait for closing.
StartReturn ==
    /\ At("deferring") /\ spc[Launcher] = "idle"
    /\ lpc' = "wait"
    /\ mpc' = IF mpc = "boot" THEN "wait" ELSE mpc
    /\ UNCHANGED <<w, stopping, processes, pidRec, history>>

-----------------------------------------------------------------------------
\* stopJava and signalClose, run by a handler or by the launcher

\* Mutant of StopLocked: a stop while Java is starting closes the wrapper.
StopLockedNoDefer(t, force) ==
    /\ w' = [w EXCEPT !.state = "STOPPING"]
    /\ \/ w.javaCmd = NoJava /\ spc' = [spc EXCEPT ![t] = "close"] /\ UNCHANGED target
       \/ /\ w.javaCmd # NoJava
          /\ spc' = [spc EXCEPT ![t] = IF force THEN "kill" ELSE "write"]
          /\ target' = [target EXCEPT ![t] = w.javaCmd]

\* The critical section of stopJava run by thread t: defer while Java is
\* starting, close when there is none, otherwise go on to stop javaCmd.
StopLocked(t, force) ==
    \/ /\ w.javaCmd = NoJava /\ w.javaStarting
       /\ w' = [w EXCEPT !.state = "STOPPING", !.stopDeferred = TRUE,
                         !.stopDeferredForce = @ \/ force]
       /\ UNCHANGED <<spc, target>>
    \/ /\ NoJavaInSight
       /\ w' = [w EXCEPT !.state = "STOPPING"]
       /\ spc' = [spc EXCEPT ![t] = "close"]
       /\ UNCHANGED target
    \/ /\ w.javaCmd # NoJava
       /\ w' = [w EXCEPT !.state = "STOPPING"]
       /\ spc' = [spc EXCEPT ![t] = IF force THEN "kill" ELSE "write"]
       /\ target' = [target EXCEPT ![t] = w.javaCmd]

\* The launcher replays the deferred stop.
ReplayStop ==
    /\ Up /\ lpc \in {"deferStop", "deferKill"}
    /\ StopLocked(Launcher, lpc = "deferKill")
    /\ lpc' = "deferring"
    /\ UNCHANGED <<mpc, timers, woken, processes, pidRec, history>>

\* The stop command goes to stdin, or an interrupt is sent, and a timer starts;
\* when neither works the process is killed.
WriteStop(t) ==
    /\ ThreadAt(t, "write")
    /\ \/ /\ timers' = timers + 1
          /\ spc' = [spc EXCEPT ![t] = "idle"]
       \/ /\ spc' = [spc EXCEPT ![t] = "kill"]
          /\ UNCHANGED timers
    /\ UNCHANGED <<w, pcs, target, woken, processes, pidRec, history>>

\* killProcessTree on generation g; a process that is gone is not affected.
KillTree(g) == proc' = IF proc[g] = "alive" THEN [proc EXCEPT ![g] = "killed"] ELSE proc

ForceKill(t) ==
    /\ ThreadAt(t, "kill")
    /\ KillTree(target[t])
    /\ spc' = [spc EXCEPT ![t] = "close"]
    /\ UNCHANGED <<w, pcs, target, timers, woken, launches, pidRec, history>>

SignalClose(t) ==
    /\ ThreadAt(t, "close")
    /\ w' = [w EXCEPT !.closed = TRUE]
    /\ spc' = [spc EXCEPT ![t] = "idle"]
    /\ UNCHANGED <<pcs, target, timers, woken, processes, pidRec, history>>

\* Mutant of TimerWakes: the timers are not counted.
TimerWakesTwice ==
    /\ Up /\ timers >= 0
    /\ timers' = timers - 1
    /\ UNCHANGED <<w, pcs, spc, target, woken, processes, pidRec, history>>

\* The goroutine of a graceful stop wakes, reads javaCmd and kills it.
TimerWakes ==
    /\ Up /\ timers > 0
    /\ timers' = timers - 1
    /\ woken' = IF w.javaCmd = NoJava THEN woken ELSE woken \cup {w.javaCmd}
    /\ UNCHANGED <<w, pcs, spc, target, processes, pidRec, history>>

TimerKills(g) ==
    /\ Up /\ g \in woken
    /\ KillTree(g)
    /\ woken' = woken \ {g}
    /\ UNCHANGED <<w, pcs, spc, target, timers, launches, pidRec, history>>

-----------------------------------------------------------------------------
\* handleControl: the frames that change state

Receive(h) ==
    /\ ThreadAt(h, "idle")
    /\ frames < MaxFrames
    /\ frames' = frames + 1
    /\ UNCHANGED <<pcs, timers, woken, processes, pidRec, lateLaunch>>

HandleStop(h, force) == Receive(h) /\ StopLocked(h, force)

HandleDisable(h) ==
    /\ Receive(h)
    /\ w' = [w EXCEPT !.autoRestartOff = TRUE]
    /\ spc' = IF NoJavaInSight THEN [spc EXCEPT ![h] = "close"] ELSE spc
    /\ UNCHANGED target

HandleEnable(h) ==
    /\ Receive(h)
    /\ w' = [w EXCEPT !.autoRestartOff = FALSE]
    /\ UNCHANGED <<spc, target>>

-----------------------------------------------------------------------------
\* javaWait

\* A step of javaWait between two waits: it moves the launcher only.
Decide(from, to) ==
    /\ At(from)
    /\ lpc' = to
    /\ UNCHANGED <<w, mpc, stopping, processes, pidRec, history>>

\* Mutant of Reap: a stop that is still in progress passes for a crash.
ReapForgetsStopping ==
    /\ At("wait") /\ proc[launches] = "dead"
    /\ w' = [w EXCEPT !.javaCmd = NoJava]
    /\ lpc' = IF w.state = "STOPPED" THEN "setStopped" ELSE "crash"
    /\ UNCHANGED <<mpc, stopping, processes, pidRec, history>>

\* cmd.Wait returned; the critical section clears javaCmd and reads the state
\* that tells a requested stop from a crash.
Reap ==
    /\ At("wait") /\ proc[launches] = "dead"
    /\ w' = [w EXCEPT !.javaCmd = NoJava]
    /\ lpc' = IF w.state \in {"STOPPING", "STOPPED"} THEN "setStopped" ELSE "crash"
    /\ UNCHANGED <<mpc, stopping, processes, pidRec, history>>

ReapSetStopped ==
    /\ At("setStopped")
    /\ w' = [w EXCEPT !.state = "STOPPED"]
    /\ lpc' = "close"
    /\ UNCHANGED <<mpc, stopping, processes, pidRec, history>>

\* The crash is counted: a process that lived less than minHealthyUptime is a
\* fast crash, any other resets the count.
CountCrash ==
    /\ At("crash")
    /\ \/ w' = [w EXCEPT !.fastCrashes = @ + 1, !.state = "CRASHED"]
       \/ w' = [w EXCEPT !.fastCrashes = 0, !.state = "CRASHED"]
    /\ lpc' = "crashAgain"
    /\ UNCHANGED <<mpc, stopping, processes, pidRec, history>>

\* Mutant of CrashAgain: one fast crash too many is allowed.
CrashAgainOneMore ==
    /\ At("crashAgain")
    /\ w' = [w EXCEPT !.state = "CRASHED"]
    /\ lpc' = IF w.fastCrashes > MaxFastCrashes THEN "close" ELSE "owner"
    /\ UNCHANGED <<mpc, stopping, processes, pidRec, history>>

\* setState(StateCrashed) once more, outside that critical section, then the
\* check for a crash loop.
CrashAgain ==
    /\ At("crashAgain")
    /\ w' = [w EXCEPT !.state = "CRASHED"]
    /\ lpc' = IF w.fastCrashes >= MaxFastCrashes THEN "close" ELSE "owner"
    /\ UNCHANGED <<mpc, stopping, processes, pidRec, history>>

\* ownsPIDRecord: a missing record counts as owned.
CheckOwner == Decide("owner", IF pidRec = "other" THEN "close" ELSE "allowed")

\* Mutant of CheckAllowed: javaWait returns without closing the wrapper.
CheckAllowedNoClose ==
    Decide("allowed", IF ~AutoRestart \/ w.autoRestartOff \/ w.closed
                      THEN "done" ELSE "backoff")

\* AutoRestart, autoRestartOff and closed are read one after the other; the
\* two that can change are read again after the delay.
CheckAllowed ==
    Decide("allowed", IF ~AutoRestart \/ w.autoRestartOff \/ w.closed
                      THEN "close" ELSE "backoff")

\* The delay ends or closing wins the select; isClosed is read either way.
Backoff == Decide("backoff", IF w.closed THEN "done" ELSE "recheckOff")

RecheckOff == Decide("recheckOff", IF w.autoRestartOff THEN "close" ELSE "lock")

JavaWaitClose ==
    /\ At("close")
    /\ w' = [w EXCEPT !.closed = TRUE]
    /\ lpc' = "done"
    /\ UNCHANGED <<mpc, stopping, processes, pidRec, history>>

-----------------------------------------------------------------------------
\* main: wait for closing, then the deferred calls of run in reverse order

MainStep(from, to) ==
    /\ mpc = from
    /\ mpc' = to
    /\ UNCHANGED <<w, lpc, stopping, processes, history>>

MainWakes == w.closed /\ MainStep("wait", "cleanup") /\ UNCHANGED pidRec

\* cleanupPIDFile reads the record and leaves another wrapper's alone.
CleanupRead ==
    /\ MainStep("cleanup", IF pidRec = "other" THEN "leaving" ELSE "remove")
    /\ UNCHANGED pidRec

CleanupRemove == MainStep("remove", "leaving") /\ pidRec' = "none"

\* The process ends and takes every goroutine with it; Java lives on.
Exit == MainStep("leaving", "exited") /\ UNCHANGED pidRec

-----------------------------------------------------------------------------
\* The environment

\* A process ends by itself, because it was asked to stop, or because it was
\* killed.  Bound: the last explored launch does not crash by itself.
JavaExits(g) ==
    /\ \/ proc[g] = "killed"
       \/ proc[g] = "alive" /\ (g < MaxLaunch \/ w.state = "STOPPING")
    /\ proc' = [proc EXCEPT ![g] = "dead"]
    /\ UNCHANGED <<w, pcs, stopping, launches, pidRec, history>>

\* The PID file is lost, and then another wrapper of the instance writes its own.
PIDFileChanges(from, to) ==
    /\ Up /\ pidRec = from
    /\ pidRec' = to
    /\ UNCHANGED <<w, pcs, stopping, processes, history>>

PIDFileLost == PIDFileChanges("self", "none")
TakeOver == PIDFileChanges("none", "other")

-----------------------------------------------------------------------------
StartJava == \/ StartSuppressed \/ StartCommit \/ StartExec \/ StartFailed
             \/ StartSetCrashed \/ StartRegister \/ StartWritePID \/ ApplyDeferredStop
             \/ ReplayStop \/ StartReturn
JavaWait == \/ Reap \/ ReapSetStopped \/ CountCrash \/ CrashAgain \/ CheckOwner
            \/ CheckAllowed \/ Backoff \/ RecheckOff \/ JavaWaitClose
StopJava(t) == WriteStop(t) \/ ForceKill(t) \/ SignalClose(t)
HandleControl(h) == \/ \E force \in BOOLEAN : HandleStop(h, force)
                    \/ HandleDisable(h)
                    \/ HandleEnable(h)
Timer == TimerWakes \/ \E g \in Generations : TimerKills(g)
Main == MainWakes \/ CleanupRead \/ CleanupRemove \/ Exit
Environment == (\E g \in Generations : JavaExits(g)) \/ PIDFileLost \/ TakeOver

Next ==
    \/ StartJava \/ JavaWait \/ Timer \/ Main \/ Environment
    \/ \E t \in Threads : StopJava(t)
    \/ \E h \in Handlers : HandleControl(h)

Spec == Init /\ [][Next]_vars

\* Goroutines that can run do run, and a killed process dies.  Nothing is
\* assumed of frames, of the PID file, or of a process only asked to stop.
Fairness ==
    /\ WF_vars(StartJava) /\ WF_vars(JavaWait) /\ WF_vars(Timer) /\ WF_vars(Main)
    /\ \A t \in Threads : WF_vars(StopJava(t))
    /\ \A g \in Generations : WF_vars(proc[g] = "killed" /\ JavaExits(g))

FairSpec == Spec /\ Fairness

-----------------------------------------------------------------------------
\* Properties

\* Java is never left behind alive by a wrapper that exited, unless startJava
\* committed to a launch in the instant between a thread's decision to close
\* (stopJava or disableAutoRestart released w.mu) and its signalClose.
OrphanOnlyByLateLaunch ==
    mpc = "exited" => \A g \in Generations : proc[g] = "alive" => lateLaunch

\* The comment on stopJava promises it without exception: a stop or kill never
\* leaves a Java process that nobody supervises.
NoOrphanJava == mpc = "exited" => \A g \in Generations : proc[g] # "alive"

\* The launches of one wrapper never overlap: javaWait reaps a process before
\* startJava creates the next.
OneJava ==
    \A g, h \in Generations :
        proc[g] \in {"alive", "killed"} /\ proc[h] \in {"alive", "killed"} => g = h

\* A wrapper that has been closed starts no Java any more, but for that instant.
ClosedIsFinal == [][w.closed /\ launches' # launches => lateLaunch]_vars

\* A process is signalled only because a stop or kill was requested: timers
\* left over from an earlier stop never hit a process launched afterwards.
KilledOnlyOnStop ==
    [][\A g \in Generations : proc[g] = "alive" /\ proc'[g] = "killed"
            => w.state = "STOPPING"]_vars

\* After maxFastCrashes fast crashes in a row no Java is launched again.
CrashLoopGivesUp == [][launches' # launches => w.fastCrashes < MaxFastCrashes]_vars

\* The comment on the ownership check in javaWait: before an automatic restart a
\* wrapper makes sure that the PID record does not name another wrapper.
RestartOnlyAsOwner ==
    [][~w.javaStarting /\ w'.javaStarting /\ launches > 0 => pidRec # "other"]_vars

\* Every stop or kill, also one deferred while Java starts or ignored by Java,
\* ends the wrapper.
StopEndsWrapper == (w.state = "STOPPING") ~> (mpc = "exited")

\* A disabled wrapper without Java ends instead of idling, unless enabled again.
DisabledWrapperEnds ==
    (w.autoRestartOff /\ NoJavaInSight) ~> (~w.autoRestartOff \/ mpc = "exited")

-----------------------------------------------------------------------------
\* The wrapper from outside

JavaSeen == IF \E g \in Generations : proc[g] = "alive" THEN "alive"
            ELSE IF \E g \in Generations : proc[g] = "killed" THEN "killed" ELSE "none"

\* A stop is in progress, deferred, or about to be replayed.
StopAsked == w.state = "STOPPING" \/ w.stopDeferred \/ lpc \in {"deferStop", "deferKill"}

\* Some goroutine is past the point where it decided to close the wrapper.
Closing == w.closed \/ mpc \notin {"boot", "wait"} \/ \E t \in Threads : spc[t] = "close"
LauncherCloses == lpc \in {"setStopped", "close", "done"}

\* What StopEndsWrapper rests on: at every moment of a stop somebody is on the way to end
\* the wrapper.  A goroutine or the launcher closes it, or the launch it was deferred to is
\* under way, or a goroutine or a timer is about to hit Java, or Java has ended and is to be reaped.
StopIsPursued ==
    w.state = "STOPPING" =>
        \/ Closing \/ lpc \in {"setStopped", "close"}
        \/ w.stopDeferred /\ lpc \in {"exec", "failed", "setCrashed", "register"}
        \/ \E t \in Threads : spc[t] \in {"write", "kill"}
        \/ timers > 0 \/ woken # {}
        \/ w.javaCmd # NoJava /\ proc[w.javaCmd] \in {"killed", "dead"}

Outside == INSTANCE Supervisor WITH java <- JavaSeen, asked <- StopAsked,
               closing <- Closing \/ LauncherCloses, late <- lateLaunch, up <- Up

\* The wrapper keeps the promise of Supervisor: in particular a stop that arrives in any
\* instant, also while Java is starting or has just crashed, is remembered until some
\* goroutine has decided to close, and nobody decides so over a living Java.
SupervisorContract == Outside!Spec

\* The same again, as the Worker takes it: a wrapper counts as stopping from the first
\* request or decision to close on, and as having Java for as long as it is up.
LifeSeen == IF ~Up THEN "gone" ELSE IF StopAsked \/ Closing \/ LauncherCloses THEN "stopping" ELSE "up"
Seen == INSTANCE WrapperLife WITH life <- LifeSeen, java <- Up \/ JavaSeen = "alive"

\* A wrapper that nobody kills does what InstanceLifecycle takes for granted: once told to
\* stop, or closing, it never goes back to supervising, and it leaves no Java behind, but
\* for the late launch.
WrapperLifeContract ==
    Seen!Listening /\ [][Seen!Alone \/ lateLaunch']_<<LifeSeen, Up \/ JavaSeen = "alive">>
=============================================================================
