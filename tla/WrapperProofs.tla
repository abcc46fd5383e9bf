---------------------------- MODULE WrapperProofs ----------------------------
(***************************************************************************)
(* Safety of the daemon wrapper for every set of handlers and every bound. *)
(* The inductive invariant IInv relates where the launcher is to the       *)
(* fields of Wrapper and to the processes that exist; its part CloseInv    *)
(* says what a thread knows when it decides to close the wrapper.          *)
(***************************************************************************)
EXTENDS Wrapper, TLAPS

Registered == {"pid", "deferred", "deferStop", "deferKill", "deferring", "wait"}
Launching == {"exec", "failed", "register"}
Final == {"setStopped", "close", "done"}

\* javaStarting and javaCmd say where the launcher is.
LauncherInv ==
    /\ w.javaStarting <=> lpc \in Launching
    /\ w.javaCmd = IF lpc \in Registered THEN launches ELSE NoJava
    /\ lpc \in Registered \cup {"register"} => launches # 0

\* startJava commits to a launch only within the bound.
BoundInv == lpc = "exec" => launches < MaxLaunch

\* Only the latest process may exist, and only while the launcher minds it.
ProcInv ==
    \A g \in Generations :
        proc[g] \in {"alive", "killed"} =>
            g = launches /\ lpc \in Registered \cup {"register"}

\* The process is being stopped and the state says so, or javaWait has seen it.
StopInProgress == (lpc \in Registered /\ w.state = "STOPPING") \/ lpc \in Final

TargetInv ==
    \A t \in Threads :
        spc[t] \in {"write", "kill"} =>
            StopInProgress /\ (lpc \in Registered => target[t] = launches)

TimerInv == timers > 0 \/ woken # {} => StopInProgress

MainInv == mpc \notin {"boot", "wait"} => w.closed \/ lpc = "done"

\* Whoever decided to close did so when no process was alive or about to be.
CloseInv ==
    lateLaunch \/ (Closing => /\ lpc \notin Launching
                              /\ \A g \in Generations : proc[g] # "alive")

FastInv ==
    lpc \in {"owner", "allowed", "backoff", "recheckOff", "lock", "exec"} =>
        w.fastCrashes < MaxFastCrashes

IInv == /\ TypeOK /\ BoundInv /\ LauncherInv /\ ProcInv /\ TargetInv /\ TimerInv /\ MainInv
        /\ CloseInv /\ FastInv

-----------------------------------------------------------------------------
(* Type correctness *)

\* The critical section of stopJava keeps the variables it changes in their types.
LEMMA StopLockedType ==
    ASSUME TypeOK, NEW t \in Threads, NEW force \in BOOLEAN, StopLocked(t, force)
    PROVE  /\ w' \in Fields
           /\ spc' \in [Threads -> StopPCs] /\ target' \in [Threads -> 0..MaxLaunch]
<1>0. w \in Fields /\ spc \in [Threads -> StopPCs] /\ target \in [Threads -> 0..MaxLaunch]
  BY DEF TypeOK
<1>1. w' \in Fields
  <2>1. CASE w' = [w EXCEPT !.state = "STOPPING"]
    BY <1>0, <2>1 DEF Fields
  <2>2. CASE w' = [w EXCEPT !.state = "STOPPING", !.stopDeferred = TRUE,
                            !.stopDeferredForce = @ \/ force]
    BY <1>0, <2>2 DEF Fields
  <2> QED
    BY <2>1, <2>2 DEF StopLocked
<1>2. spc' \in [Threads -> StopPCs]
  BY <1>0 DEF StopLocked, StopPCs
<1>3. target' \in [Threads -> 0..MaxLaunch]
  <2>1. w.javaCmd \in 0..MaxLaunch
    BY <1>0 DEF Fields
  <2> QED
    BY <1>0, <2>1 DEF StopLocked
<1> QED
  BY <1>1, <1>2, <1>3

\* Every action keeps the variables in their types.
LEMMA TypeStep == TypeOK /\ BoundInv /\ [Next]_vars => TypeOK'
<1> SUFFICES ASSUME TypeOK, BoundInv, [Next]_vars PROVE TypeOK'
  OBVIOUS
<1> USE LauncherAssumption, BoundAssumption DEF LauncherAssumption, BoundAssumption
<1> USE DEF TypeOK, LauncherPCs, MainPCs, StopPCs, ProcStates, Threads, Generations, NoJava,
            pcs, stopping, processes, history
<1>0. /\ w.javaCmd \in 0..MaxLaunch
      /\ w.javaCmd # NoJava => w.javaCmd \in Generations
  BY DEF Fields
<1>1. CASE StartSuppressed
  BY <1>1 DEF StartSuppressed, LaunchRefused, At, Up
<1>2. CASE StartCommit
  <2>1. w' \in Fields
    BY <1>2 DEF StartCommit, At, Up, Fields
  <2> QED
    BY <1>2, <2>1 DEF StartCommit, At, Up
<1>3. CASE StartExec
  BY <1>3 DEF StartExec, BoundInv, At, Up
<1>4. CASE StartFailed
  <2>1. w' \in Fields
    BY <1>4 DEF StartFailed, At, Up, Fields
  <2> QED
    BY <1>4, <2>1 DEF StartFailed, At, Up
<1>5. CASE StartSetCrashed
  <2>1. w' \in Fields
    BY <1>5 DEF StartSetCrashed, LaunchRefused, At, Up, Fields
  <2> QED
    BY <1>5, <2>1 DEF StartSetCrashed, LaunchRefused, At, Up
<1>6. CASE StartRegister
  <2>1. w' \in Fields
    BY <1>6 DEF StartRegister, At, Up, Fields
  <2> QED
    BY <1>6, <2>1 DEF StartRegister, At, Up
<1>7. CASE StartWritePID
  BY <1>7 DEF StartWritePID, At, Up
<1>8. CASE ApplyDeferredStop
  <2>1. w' \in Fields
    BY <1>8 DEF ApplyDeferredStop, At, Up, Fields
  <2> QED
    BY <1>8, <2>1 DEF ApplyDeferredStop, At, Up
<1>9. CASE ReplayStop
  <2>1. /\ w' \in Fields
        /\ spc' \in [Threads -> StopPCs] /\ target' \in [Threads -> 0..MaxLaunch]
    BY <1>9, StopLockedType DEF ReplayStop
  <2> QED
    BY <1>9, <2>1 DEF ReplayStop, Up
<1>10. CASE StartReturn
  BY <1>10 DEF StartReturn, At, Up
<1>11. CASE Reap
  <2>1. w' \in Fields
    BY <1>11 DEF Reap, At, Up, Fields
  <2> QED
    BY <1>11, <2>1 DEF Reap, At, Up
<1>12. CASE ReapSetStopped
  <2>1. w' \in Fields
    BY <1>12 DEF ReapSetStopped, At, Up, Fields
  <2> QED
    BY <1>12, <2>1 DEF ReapSetStopped, At, Up
<1>13. CASE CountCrash
  <2>1. w' \in Fields
    <3>1. w.fastCrashes + 1 \in Nat /\ 0 \in Nat
      BY DEF Fields
    <3>2. PICK fast \in Nat : w' = [w EXCEPT !.fastCrashes = fast, !.state = "CRASHED"]
      BY <1>13, <3>1 DEF CountCrash
    <3> QED
      BY <3>2 DEF Fields
  <2> QED
    BY <1>13, <2>1 DEF CountCrash, At, Up
<1>14. CASE CrashAgain
  <2>1. w' \in Fields
    BY <1>14 DEF CrashAgain, At, Up, Fields
  <2> QED
    BY <1>14, <2>1 DEF CrashAgain, At, Up
<1>15. CASE CheckOwner
  BY <1>15 DEF CheckOwner, Decide, At, Up
<1>16. CASE CheckAllowed
  BY <1>16 DEF CheckAllowed, Decide, At, Up
<1>17. CASE Backoff
  BY <1>17 DEF Backoff, Decide, At, Up
<1>18. CASE RecheckOff
  BY <1>18 DEF RecheckOff, Decide, At, Up
<1>19. CASE JavaWaitClose
  <2>1. w' \in Fields
    BY <1>19 DEF JavaWaitClose, At, Up, Fields
  <2> QED
    BY <1>19, <2>1 DEF JavaWaitClose, At, Up
<1>20. CASE TimerWakes
  <2>1. timers' \in Nat
    BY <1>20 DEF TimerWakes
  <2>2. woken' \subseteq Generations
    BY <1>0, <1>20 DEF TimerWakes
  <2> QED
    BY <1>20, <2>1, <2>2 DEF TimerWakes
<1>21. CASE MainWakes
  BY <1>21 DEF MainWakes, MainStep
<1>22. CASE CleanupRead
  BY <1>22 DEF CleanupRead, MainStep
<1>23. CASE CleanupRemove
  BY <1>23 DEF CleanupRemove, MainStep
<1>24. CASE Exit
  BY <1>24 DEF Exit, MainStep
<1>25. CASE PIDFileLost
  BY <1>25 DEF PIDFileLost, PIDFileChanges, Up
<1>26. CASE TakeOver
  BY <1>26 DEF TakeOver, PIDFileChanges, Up
<1>27. ASSUME NEW g \in Generations, TimerKills(g) PROVE TypeOK'
  BY <1>27 DEF TimerKills, KillTree, Up
<1>28. ASSUME NEW g \in Generations, JavaExits(g) PROVE TypeOK'
  BY <1>28 DEF JavaExits
<1>29. ASSUME NEW t \in Threads, WriteStop(t) PROVE TypeOK'
  BY <1>29 DEF WriteStop, ThreadAt, Up
<1>30. ASSUME NEW t \in Threads, ForceKill(t) PROVE TypeOK'
  BY <1>30 DEF ForceKill, KillTree, ThreadAt, Up
<1>31. ASSUME NEW t \in Threads, SignalClose(t) PROVE TypeOK'
  <2>1. w' \in Fields
    BY <1>31 DEF SignalClose, ThreadAt, Up, Fields
  <2> QED
    BY <1>31, <2>1 DEF SignalClose, ThreadAt, Up
<1>32. ASSUME NEW h \in Handlers, NEW force \in BOOLEAN, HandleStop(h, force) PROVE TypeOK'
  <2>1. /\ w' \in Fields
        /\ spc' \in [Threads -> StopPCs] /\ target' \in [Threads -> 0..MaxLaunch]
    BY <1>32, StopLockedType DEF HandleStop
  <2> QED
    BY <1>32, <2>1 DEF HandleStop, Receive, ThreadAt, Up
<1>33. ASSUME NEW h \in Handlers, HandleDisable(h) PROVE TypeOK'
  <2>1. w' \in Fields
    BY <1>33 DEF HandleDisable, Receive, NoJavaInSight, ThreadAt, Up, Fields
  <2> QED
    BY <1>33, <2>1 DEF HandleDisable, Receive, NoJavaInSight, ThreadAt, Up
<1>34. ASSUME NEW h \in Handlers, HandleEnable(h) PROVE TypeOK'
  <2>1. w' \in Fields
    BY <1>34 DEF HandleEnable, Receive, ThreadAt, Up, Fields
  <2> QED
    BY <1>34, <2>1 DEF HandleEnable, Receive, ThreadAt, Up
<1>35. CASE UNCHANGED vars
  BY <1>35 DEF vars
<1> QED
  BY <1>1, <1>2, <1>3, <1>4, <1>5, <1>6, <1>7, <1>8, <1>9, <1>10, <1>11, <1>12,
     <1>13, <1>14, <1>15, <1>16, <1>17, <1>18, <1>19, <1>20, <1>21, <1>22, <1>23, <1>24,
     <1>25, <1>26, <1>27, <1>28, <1>29, <1>30, <1>31, <1>32, <1>33, <1>34, <1>35
     DEF Next, StartJava, JavaWait, Timer, Main, Environment, StopJava, HandleControl

-----------------------------------------------------------------------------
(* The launcher *)

Others == \/ Timer \/ Main \/ Environment
          \/ \E t \in Threads : StopJava(t)
          \/ \E h \in Handlers : HandleControl(h)

\* No other goroutine moves the launcher, registers a process or counts crashes.
LEMMA OthersFrame ==
    ASSUME TypeOK, Others
    PROVE  /\ UNCHANGED <<lpc, launches>>
           /\ w'.javaStarting = w.javaStarting /\ w'.javaCmd = w.javaCmd
           /\ w'.fastCrashes = w.fastCrashes
           /\ w'.state \in {w.state, "STOPPING"}
           /\ w.closed => w'.closed
<1> USE DEF TypeOK, Fields, pcs, processes
<1>1. CASE Timer
  BY <1>1 DEF Timer, TimerWakes, TimerKills
<1>2. CASE Main
  BY <1>2 DEF Main, MainWakes, CleanupRead, CleanupRemove, Exit, MainStep
<1>3. CASE Environment
  BY <1>3 DEF Environment, JavaExits, PIDFileLost, TakeOver, PIDFileChanges
<1>4. ASSUME NEW t \in Threads, StopJava(t)
      PROVE  /\ UNCHANGED <<lpc, launches>> /\ w' \in {w, [w EXCEPT !.closed = TRUE]}
  BY <1>4 DEF StopJava, WriteStop, ForceKill, SignalClose
<1>5. ASSUME NEW h \in Handlers, HandleControl(h)
      PROVE  /\ UNCHANGED <<lpc, launches>>
             /\ w'.javaStarting = w.javaStarting /\ w'.javaCmd = w.javaCmd
             /\ w'.fastCrashes = w.fastCrashes
             /\ w'.state \in {w.state, "STOPPING"}
             /\ w.closed => w'.closed
  BY <1>5 DEF HandleControl, HandleStop, HandleDisable, HandleEnable, Receive, StopLocked,
              NoJavaInSight
<1> QED
  BY <1>1, <1>2, <1>3, <1>4, <1>5 DEF Others

\* The launcher's place, javaCmd and javaStarting stay in step, and the crash
\* count is below the limit wherever another launch is still possible.
LEMMA LauncherStep ==
    TypeOK /\ BoundInv /\ LauncherInv /\ FastInv /\ [Next]_vars
        => BoundInv' /\ LauncherInv' /\ FastInv'
<1> SUFFICES ASSUME TypeOK, BoundInv, LauncherInv, FastInv, [Next]_vars
             PROVE  BoundInv' /\ LauncherInv' /\ FastInv'
  OBVIOUS
<1> USE BoundAssumption DEF BoundAssumption, TypeOK, Fields, BoundInv, LauncherInv, FastInv,
        Registered, Launching, NoJava, processes
<1>1. CASE Others
  BY <1>1, OthersFrame
<1>2. CASE StartJava
  <2>1. CASE StartSuppressed \/ StartSetCrashed
    BY <2>1 DEF StartSuppressed, StartSetCrashed, LaunchRefused, At
  <2>2. CASE StartCommit
    BY <2>2 DEF StartCommit, At
  <2>3. CASE StartExec
    BY <2>3 DEF StartExec, At
  <2>4. CASE StartFailed
    BY <2>4 DEF StartFailed, At
  <2>5. CASE StartRegister
    BY <2>5 DEF StartRegister, At
  <2>6. CASE StartWritePID \/ StartReturn
    BY <2>6 DEF StartWritePID, StartReturn, At
  <2>7. CASE ApplyDeferredStop
    BY <2>7 DEF ApplyDeferredStop, At
  <2>8. CASE ReplayStop
    BY <2>8 DEF ReplayStop, StopLocked, NoJavaInSight
  <2> QED
    BY <1>2, <2>1, <2>2, <2>3, <2>4, <2>5, <2>6, <2>7, <2>8 DEF StartJava
<1>3. CASE JavaWait
  <2>1. CASE Reap
    BY <2>1 DEF Reap, At
  <2>2. CASE ReapSetStopped
    BY <2>2 DEF ReapSetStopped, At
  <2>3. CASE CountCrash
    BY <2>3 DEF CountCrash, At
  <2>4. CASE CrashAgain
    BY <2>4 DEF CrashAgain, At
  <2>5. CASE CheckOwner \/ CheckAllowed \/ Backoff \/ RecheckOff
    BY <2>5 DEF CheckOwner, CheckAllowed, Backoff, RecheckOff, Decide, At
  <2>6. CASE JavaWaitClose
    BY <2>6 DEF JavaWaitClose, At
  <2> QED
    BY <1>3, <2>1, <2>2, <2>3, <2>4, <2>5, <2>6 DEF JavaWait
<1>4. CASE UNCHANGED vars
  BY <1>4 DEF vars
<1> QED
  BY <1>1, <1>2, <1>3, <1>4 DEF Next, Others

-----------------------------------------------------------------------------
(* Processes and the threads that stop them *)

\* Only cmd.Start creates a process, and javaWait leaves it only when it is gone.
LEMMA ProcStep ==
    TypeOK /\ BoundInv /\ LauncherInv /\ ProcInv /\ [Next]_vars => ProcInv'
<1> SUFFICES ASSUME TypeOK, BoundInv, LauncherInv, ProcInv, [Next]_vars PROVE ProcInv'
  OBVIOUS
<1> USE BoundAssumption DEF BoundAssumption, TypeOK, BoundInv, LauncherInv, ProcInv,
        Generations, ProcStates, Registered, Launching, processes, pcs
<1>1. CASE StartExec
  BY <1>1 DEF StartExec, At
<1>2. CASE Reap
  BY <1>2 DEF Reap, At
<1>3. CASE StartJava /\ ~StartExec
  BY <1>3 DEF StartJava, StartSuppressed, StartCommit, StartFailed, StartSetCrashed,
              StartRegister, StartWritePID, ApplyDeferredStop, ReplayStop, StartReturn,
              LaunchRefused, At
<1>4. CASE JavaWait /\ ~Reap
  BY <1>4 DEF JavaWait, ReapSetStopped, CountCrash, CrashAgain, CheckOwner, CheckAllowed,
              Backoff, RecheckOff, JavaWaitClose, Decide, At
<1>5. CASE Timer
  BY <1>5 DEF Timer, TimerWakes, TimerKills, KillTree
<1>6. CASE Main
  BY <1>6 DEF Main, MainWakes, CleanupRead, CleanupRemove, Exit, MainStep
<1>7. CASE Environment
  BY <1>7 DEF Environment, JavaExits, PIDFileLost, TakeOver, PIDFileChanges
<1>8. ASSUME NEW t \in Threads, StopJava(t) PROVE ProcInv'
  BY <1>8 DEF StopJava, WriteStop, ForceKill, SignalClose, KillTree
<1>9. ASSUME NEW h \in Handlers, HandleControl(h) PROVE ProcInv'
  BY <1>9 DEF HandleControl, HandleStop, HandleDisable, HandleEnable, Receive
<1>10. CASE UNCHANGED vars
  BY <1>10 DEF vars
<1> QED
  BY <1>1, <1>2, <1>3, <1>4, <1>5, <1>6, <1>7, <1>8, <1>9, <1>10 DEF Next

\* A stop in progress stays in progress until javaWait has taken notice of it.
LEMMA StopInProgressStep ==
    TypeOK /\ LauncherInv /\ StopInProgress /\ [Next]_vars
        => StopInProgress' /\ UNCHANGED launches /\ (lpc' \in Registered => lpc \in Registered)
<1> SUFFICES ASSUME TypeOK, LauncherInv, StopInProgress, [Next]_vars
             PROVE  /\ StopInProgress' /\ UNCHANGED launches
                    /\ lpc' \in Registered => lpc \in Registered
  OBVIOUS
<1> USE DEF TypeOK, Fields, LauncherInv, StopInProgress, Registered, Final, Launching,
            processes
<1>1. CASE Others
  BY <1>1, OthersFrame
<1>2. CASE StartJava
  BY <1>2 DEF StartJava, StartSuppressed, StartCommit, StartExec, StartFailed,
              StartSetCrashed, StartRegister, StartWritePID, ApplyDeferredStop, ReplayStop,
              StartReturn, LaunchRefused, StopLocked, NoJavaInSight, At
<1>3. CASE JavaWait
  BY <1>3 DEF JavaWait, Reap, ReapSetStopped, CountCrash, CrashAgain, CheckOwner,
              CheckAllowed, Backoff, RecheckOff, JavaWaitClose, Decide, At
<1>4. CASE UNCHANGED vars
  BY <1>4 DEF vars
<1> QED
  BY <1>1, <1>2, <1>3, <1>4 DEF Next, Others

\* A thread holds a cmd to stop only while that stop is in progress, and so do
\* the timers.
LEMMA TargetStep ==
    TypeOK /\ LauncherInv /\ TargetInv /\ TimerInv /\ [Next]_vars => TargetInv' /\ TimerInv'
<1> SUFFICES ASSUME TypeOK, LauncherInv, TargetInv, TimerInv, [Next]_vars
             PROVE  TargetInv' /\ TimerInv'
  OBVIOUS
<1> USE DEF TargetInv, TimerInv
<1>0. StopInProgress =>
        StopInProgress' /\ UNCHANGED launches /\ (lpc' \in Registered => lpc \in Registered)
  BY StopInProgressStep
<1>1. ASSUME NEW t \in Threads, NEW force \in BOOLEAN, StopLocked(t, force),
             lpc' \in {lpc, "deferring"}, lpc = lpc' \/ lpc \in Registered,
             UNCHANGED <<timers, woken, launches>>
      PROVE  TargetInv' /\ TimerInv'
  <2>1. CASE w.javaCmd = NoJava
    BY <1>0, <1>1, <2>1 DEF StopLocked, NoJavaInSight, TypeOK
  <2>2. CASE w.javaCmd # NoJava
    <3>1. /\ lpc \in Registered /\ lpc' \in Registered
          /\ w'.state = "STOPPING" /\ w.javaCmd = launches
      BY <1>1, <2>2 DEF StopLocked, NoJavaInSight, LauncherInv, Registered, TypeOK, Fields
    <3>2. \A u \in Threads : target'[u] = IF u = t THEN launches ELSE target[u]
      BY <1>1, <2>2, <3>1 DEF StopLocked, NoJavaInSight, TypeOK
    <3>3. \A u \in Threads \ {t} : spc'[u] = spc[u]
      BY <1>1, <2>2 DEF StopLocked, NoJavaInSight, TypeOK
    <3>4. StopInProgress'
      BY <3>1 DEF StopInProgress
    <3> QED
      BY <1>0, <1>1, <3>1, <3>2, <3>3, <3>4
  <2> QED
    BY <2>1, <2>2
<1>2. CASE ReplayStop
  <2>1. PICK force \in BOOLEAN : StopLocked(Launcher, force)
    BY <1>2 DEF ReplayStop
  <2> QED
    BY <1>1, <1>2, <2>1 DEF ReplayStop, Threads, Registered, processes
<1>3. ASSUME NEW h \in Handlers, NEW force \in BOOLEAN, HandleStop(h, force)
      PROVE  TargetInv' /\ TimerInv'
  BY <1>1, <1>3 DEF HandleStop, Receive, Threads, pcs, processes
<1>4. ASSUME \A t \in Threads : spc'[t] \in {"write", "kill"} => spc[t] \in {"write", "kill"},
             target' = target,
             timers' > 0 \/ woken' # {} =>
                 timers > 0 \/ woken # {} \/ \E t \in Threads : spc[t] = "write"
      PROVE  TargetInv' /\ TimerInv'
  BY <1>0, <1>4
<1>5. CASE UNCHANGED stopping
  BY <1>4, <1>5 DEF stopping
<1>6. ASSUME NEW t \in Threads, StopJava(t)
      PROVE  TargetInv' /\ TimerInv'
  <2>1. \A u \in Threads : spc'[u] \in {"write", "kill"} => spc[u] \in {"write", "kill"}
    BY <1>6 DEF StopJava, WriteStop, ForceKill, SignalClose, ThreadAt, TypeOK
  <2>2. UNCHANGED <<target, woken>> /\ (UNCHANGED timers \/ spc[t] = "write")
    BY <1>6 DEF StopJava, WriteStop, ForceKill, SignalClose, ThreadAt
  <2> QED
    BY <1>4, <2>1, <2>2
<1>7. CASE Timer
  <2>1. UNCHANGED <<spc, target>> /\ (timers > 0 \/ woken # {})
    BY <1>7 DEF Timer, TimerWakes, TimerKills
  <2> QED
    BY <1>4, <2>1
<1>8. ASSUME NEW h \in Handlers, HandleDisable(h) \/ HandleEnable(h)
      PROVE  TargetInv' /\ TimerInv'
  <2>1. \A u \in Threads : spc'[u] \in {"write", "kill"} => spc[u] \in {"write", "kill"}
    BY <1>8 DEF HandleDisable, HandleEnable, Receive, Threads, TypeOK
  <2>2. UNCHANGED <<target, timers, woken>>
    BY <1>8 DEF HandleDisable, HandleEnable, Receive
  <2> QED
    BY <1>4, <2>1, <2>2
<1>9. CASE StartJava /\ ~ReplayStop
  BY <1>5, <1>9 DEF StartJava, StartSuppressed, StartCommit, StartExec, StartFailed,
                    StartSetCrashed, StartRegister, StartWritePID, ApplyDeferredStop,
                    StartReturn
<1>10. CASE JavaWait
  BY <1>5, <1>10 DEF JavaWait, Reap, ReapSetStopped, CountCrash, CrashAgain, CheckOwner,
                     CheckAllowed, Backoff, RecheckOff, JavaWaitClose, Decide
<1>11. CASE Main
  BY <1>5, <1>11 DEF Main, MainWakes, CleanupRead, CleanupRemove, Exit, MainStep
<1>12. CASE Environment
  BY <1>5, <1>12 DEF Environment, JavaExits, PIDFileLost, TakeOver, PIDFileChanges
<1>13. CASE UNCHANGED vars
  BY <1>5, <1>13 DEF vars, stopping
<1> QED
  BY <1>2, <1>3, <1>6, <1>7, <1>8, <1>9, <1>10, <1>11, <1>12, <1>13 DEF Next, HandleControl

-----------------------------------------------------------------------------
(* Closing *)

\* main leaves its wait only for a closed wrapper or a failed first launch.
LEMMA MainStepInv == TypeOK /\ MainInv /\ [Next]_vars => MainInv'
<1> SUFFICES ASSUME TypeOK, MainInv, [Next]_vars PROVE MainInv'
  OBVIOUS
<1> USE DEF MainInv, TypeOK, Fields
<1>1. CASE Main
  BY <1>1 DEF Main, MainWakes, CleanupRead, CleanupRemove, Exit, MainStep
<1>2. CASE StartJava
  BY <1>2 DEF StartJava, StartSuppressed, StartCommit, StartExec, StartFailed,
              StartSetCrashed, StartRegister, StartWritePID, ApplyDeferredStop, ReplayStop,
              StartReturn, LaunchRefused, StopLocked, At
<1>3. CASE JavaWait
  BY <1>3 DEF JavaWait, Reap, ReapSetStopped, CountCrash, CrashAgain, CheckOwner,
              CheckAllowed, Backoff, RecheckOff, JavaWaitClose, Decide, At
<1>4. CASE Others /\ ~Main
  <2>1. UNCHANGED mpc
    BY <1>4 DEF Others, Timer, TimerWakes, TimerKills, Environment, JavaExits, PIDFileLost,
                TakeOver, PIDFileChanges, StopJava, WriteStop, ForceKill, SignalClose,
                HandleControl, HandleStop, HandleDisable, HandleEnable, Receive, pcs
  <2> QED
    BY <1>4, <2>1, OthersFrame
<1>5. CASE UNCHANGED vars
  BY <1>5 DEF vars
<1> QED
  BY <1>1, <1>2, <1>3, <1>4, <1>5 DEF Next, Others

\* No process is alive when the launcher is neither launching nor minding one.
LEMMA NoneAlive ==
    ASSUME ProcInv, lpc \notin Registered \cup {"register"}
    PROVE  \A g \in Generations : proc[g] # "alive"
BY DEF ProcInv

\* A thread that sees no Java under the lock is right about it.
LEMMA InSight ==
    ASSUME TypeOK, LauncherInv, ProcInv, NoJavaInSight
    PROVE  lpc \notin Launching /\ \A g \in Generations : proc[g] # "alive"
<1>1. lpc \notin Launching /\ lpc \notin Registered
  BY DEF LauncherInv, NoJavaInSight, NoJava
<1> QED
  BY <1>1, NoneAlive DEF Launching

\* Once the wrapper is closing, only a launch committed in the instant between
\* a decision to close and signalClose brings a process to life.
LEMMA CloseStep == IInv /\ [Next]_vars => CloseInv'
<1> SUFFICES ASSUME IInv, [Next]_vars, ~lateLaunch', Closing'
             PROVE  lpc' \notin Launching /\ \A g \in Generations : proc'[g] # "alive"
  BY DEF CloseInv
<1> USE DEF IInv
<1>1. ~lateLaunch
  BY DEF Next, StartJava, StartSuppressed, StartCommit, StartExec, StartFailed,
         StartSetCrashed, StartRegister, StartWritePID, ApplyDeferredStop, ReplayStop,
         StartReturn, JavaWait, Reap, ReapSetStopped, CountCrash, CrashAgain, CheckOwner,
         CheckAllowed, Backoff, RecheckOff, JavaWaitClose, Decide, Timer, TimerWakes,
         TimerKills, Main, MainWakes, CleanupRead, CleanupRemove, Exit, MainStep,
         Environment, JavaExits, PIDFileLost, TakeOver, PIDFileChanges, StopJava, WriteStop,
         ForceKill, SignalClose, HandleControl, HandleStop, HandleDisable, HandleEnable,
         Receive, history, vars, TypeOK
<1>2. CASE Closing
  <2>1. lpc \notin Launching /\ \A g \in Generations : proc[g] # "alive"
    BY <1>1, <1>2 DEF CloseInv
  <2>2. ~StartCommit
    BY <1>1, <1>2 DEF StartCommit, At, Closing, MainInv
  <2>3. ~StartExec
    BY <2>1 DEF StartExec, At, Launching
  <2>4. lpc' \notin Launching
    <3>1. CASE Others
      BY <2>1, <3>1, OthersFrame
    <3>2. CASE StartJava
      BY <2>1, <2>2, <2>3, <3>2
         DEF StartJava, StartSuppressed, StartFailed, StartSetCrashed, StartRegister,
             StartWritePID, ApplyDeferredStop, ReplayStop, StartReturn, LaunchRefused, At,
             Launching
    <3>3. CASE JavaWait
      BY <3>3 DEF JavaWait, Reap, ReapSetStopped, CountCrash, CrashAgain, CheckOwner,
                  CheckAllowed, Backoff, RecheckOff, JavaWaitClose, Decide, Launching
    <3>4. CASE UNCHANGED vars
      BY <2>1, <3>4 DEF vars
    <3> QED
      BY <3>1, <3>2, <3>3, <3>4 DEF Next, Others
  <2>5. \A g \in Generations : proc'[g] # "alive"
    <3>1. ASSUME UNCHANGED proc PROVE \A g \in Generations : proc'[g] # "alive"
      BY <2>1, <3>1
    <3>2. CASE StartJava
      BY <2>3, <3>1, <3>2
         DEF StartJava, StartSuppressed, StartCommit, StartFailed, StartSetCrashed,
             StartRegister, StartWritePID, ApplyDeferredStop, ReplayStop, StartReturn,
             processes
    <3>3. CASE JavaWait
      BY <3>1, <3>3 DEF JavaWait, Reap, ReapSetStopped, CountCrash, CrashAgain, CheckOwner,
                        CheckAllowed, Backoff, RecheckOff, JavaWaitClose, Decide, processes
    <3>4. CASE Timer
      BY <2>1, <3>1, <3>4 DEF Timer, TimerWakes, TimerKills, KillTree, processes
    <3>5. CASE Main
      BY <3>1, <3>5 DEF Main, MainWakes, CleanupRead, CleanupRemove, Exit, MainStep, processes
    <3>6. CASE Environment
      BY <2>1, <3>6 DEF Environment, JavaExits, PIDFileLost, TakeOver, PIDFileChanges,
                        processes, TypeOK
    <3>7. ASSUME NEW t \in Threads, StopJava(t)
          PROVE  \A g \in Generations : proc'[g] # "alive"
      BY <2>1, <3>1, <3>7 DEF StopJava, WriteStop, ForceKill, SignalClose, KillTree,
                              processes, TypeOK
    <3>8. ASSUME NEW h \in Handlers, HandleControl(h)
          PROVE  \A g \in Generations : proc'[g] # "alive"
      BY <3>1, <3>8 DEF HandleControl, HandleStop, HandleDisable, HandleEnable, Receive,
                        processes
    <3> QED
      BY <3>1, <3>2, <3>3, <3>4, <3>5, <3>6, <3>7, <3>8 DEF Next, vars
  <2> QED
    BY <2>4, <2>5
<1>3. CASE ~Closing
  <2>1. CASE StartSuppressed \/ StartSetCrashed
    <3>1. lpc \notin Registered \cup {"register"} /\ lpc' \notin Launching /\ UNCHANGED proc
      BY <2>1 DEF StartSuppressed, StartSetCrashed, LaunchRefused, At, Registered, Launching,
                  processes
    <3> QED
      BY <3>1, NoneAlive
  <2>2. CASE JavaWaitClose
    <3>1. lpc \notin Registered \cup {"register"} /\ lpc' \notin Launching /\ UNCHANGED proc
      BY <2>2 DEF JavaWaitClose, At, Registered, Launching, processes
    <3> QED
      BY <3>1, NoneAlive
  <2>3. CASE ReplayStop
    BY <1>3, <2>3 DEF ReplayStop, StopLocked, Closing, LauncherInv, NoJavaInSight, Registered,
                      Launching, TypeOK, Fields, NoJava
  <2>4. ASSUME NEW h \in Handlers, NEW force \in BOOLEAN, HandleStop(h, force)
        PROVE  lpc' \notin Launching /\ \A g \in Generations : proc'[g] # "alive"
    <3>1. UNCHANGED <<lpc, mpc, proc>>
      BY <2>4 DEF HandleStop, Receive, pcs, processes
    <3>2. w'.closed = w.closed
      BY <2>4 DEF HandleStop, StopLocked, TypeOK, Fields
    <3>3. \E t \in Threads : spc[t] # "close" /\ spc'[t] = "close"
      BY <1>3, <3>1, <3>2 DEF Closing
    <3>4. NoJavaInSight
      BY <2>4, <3>3 DEF HandleStop, StopLocked, NoJavaInSight, TypeOK
    <3> QED
      BY <3>1, <3>4, InSight
  <2>5. ASSUME NEW h \in Handlers, HandleDisable(h) \/ HandleEnable(h)
        PROVE  lpc' \notin Launching /\ \A g \in Generations : proc'[g] # "alive"
    <3>1. UNCHANGED <<lpc, mpc, proc>>
      BY <2>5 DEF HandleDisable, HandleEnable, Receive, pcs, processes
    <3>2. w'.closed = w.closed
      BY <2>5 DEF HandleDisable, HandleEnable, TypeOK, Fields
    <3>3. spc' # spc
      BY <1>3, <3>1, <3>2 DEF Closing
    <3>4. NoJavaInSight
      BY <2>5, <3>3 DEF HandleDisable, HandleEnable
    <3> QED
      BY <3>1, <3>4, InSight
  <2>6. ASSUME NEW t \in Threads, ForceKill(t)
        PROVE  lpc' \notin Launching /\ \A g \in Generations : proc'[g] # "alive"
    <3>1. StopInProgress /\ (lpc \in Registered => target[t] = launches) /\ UNCHANGED lpc
      BY <2>6 DEF ForceKill, ThreadAt, TargetInv, pcs
    <3>2. lpc \notin Launching /\ lpc # "register"
      BY <3>1 DEF StopInProgress, Registered, Final, Launching
    <3>3. \A g \in Generations : proc[g] = "alive" => g = target[t]
      BY <3>1, <3>2 DEF ProcInv
    <3> QED
      BY <2>6, <3>1, <3>2, <3>3 DEF ForceKill, KillTree, TypeOK
  <2>7. ASSUME UNCHANGED <<mpc, spc>>, w'.closed = w.closed PROVE FALSE
    BY <1>3, <2>7 DEF Closing
  <2>8. CASE StartJava /\ ~StartSuppressed /\ ~StartSetCrashed /\ ~ReplayStop
    BY <1>3, <2>8 DEF StartJava, StartCommit, StartExec, StartFailed, StartRegister,
                      StartWritePID, ApplyDeferredStop, StartReturn, Closing, stopping, TypeOK,
                      Fields
  <2>9. CASE JavaWait /\ ~JavaWaitClose
    BY <2>7, <2>9 DEF JavaWait, Reap, ReapSetStopped, CountCrash, CrashAgain, CheckOwner,
                      CheckAllowed, Backoff, RecheckOff, Decide, stopping, TypeOK, Fields
  <2>10. CASE Timer
    BY <2>7, <2>10 DEF Timer, TimerWakes, TimerKills, pcs
  <2>11. CASE Main
    BY <1>3, <2>11 DEF Main, MainWakes, CleanupRead, CleanupRemove, Exit, MainStep, Closing
  <2>12. CASE Environment
    BY <2>7, <2>12 DEF Environment, JavaExits, PIDFileLost, TakeOver, PIDFileChanges, pcs,
                       stopping
  <2>13. ASSUME NEW t \in Threads, WriteStop(t) \/ SignalClose(t) PROVE FALSE
    BY <1>3, <2>13 DEF WriteStop, SignalClose, ThreadAt, Closing, pcs, TypeOK
  <2>14. CASE UNCHANGED vars
    BY <2>7, <2>14 DEF vars
  <2> QED
    BY <2>1, <2>2, <2>3, <2>4, <2>5, <2>6, <2>8, <2>9, <2>10, <2>11, <2>12, <2>13, <2>14
       DEF Next, StopJava, HandleControl
<1> QED
  BY <1>2, <1>3

\* cmd.Start is the only step that creates a process.
LEMMA LaunchesChange ==
    ASSUME TypeOK, LauncherInv, [Next]_vars, launches' # launches
    PROVE  lpc = "exec"
<1>1. ~Others
  BY OthersFrame
<1>2. ~JavaWait
  BY DEF JavaWait, Reap, ReapSetStopped, CountCrash, CrashAgain, CheckOwner, CheckAllowed,
         Backoff, RecheckOff, JavaWaitClose, Decide, processes
<1>3. CASE StartJava
  BY <1>3 DEF StartJava, StartSuppressed, StartCommit, StartExec, StartFailed,
              StartSetCrashed, StartRegister, StartWritePID, ApplyDeferredStop, ReplayStop,
              StartReturn, processes, At
<1> QED
  BY <1>1, <1>2, <1>3 DEF Next, Others, vars

\* Whoever kills a live process holds it while a stop is in progress.
LEMMA KillsOnlyInProgress ==
    ASSUME TypeOK, TargetInv, TimerInv, [Next]_vars,
           NEW g \in Generations, proc[g] = "alive", proc'[g] = "killed"
    PROVE  StopInProgress
<1>0. proc' # proc
  OBVIOUS
<1>1. CASE StartJava
  <2>1. StartExec
    BY <1>0, <1>1 DEF StartJava, StartSuppressed, StartCommit, StartFailed, StartSetCrashed,
                      StartRegister, StartWritePID, ApplyDeferredStop, ReplayStop,
                      StartReturn, processes
  <2> QED
    BY <2>1 DEF StartExec, TypeOK, processes
<1>2. CASE JavaWait
  BY <1>0, <1>2 DEF JavaWait, Reap, ReapSetStopped, CountCrash, CrashAgain, CheckOwner,
                    CheckAllowed, Backoff, RecheckOff, JavaWaitClose, Decide, processes
<1>3. CASE Timer
  BY <1>0, <1>3 DEF Timer, TimerWakes, TimerKills, TimerInv, processes
<1>4. CASE Main
  BY <1>0, <1>4 DEF Main, MainWakes, CleanupRead, CleanupRemove, Exit, MainStep, processes
<1>5. CASE Environment
  BY <1>0, <1>5 DEF Environment, JavaExits, PIDFileLost, TakeOver, PIDFileChanges, processes,
                    TypeOK
<1>6. ASSUME NEW t \in Threads, StopJava(t) PROVE StopInProgress
  BY <1>0, <1>6 DEF StopJava, WriteStop, ForceKill, SignalClose, ThreadAt, TargetInv, processes
<1>7. ASSUME NEW h \in Handlers, HandleControl(h) PROVE FALSE
  BY <1>0, <1>7 DEF HandleControl, HandleStop, HandleDisable, HandleEnable, Receive, processes
<1> QED
  BY <1>0, <1>1, <1>2, <1>3, <1>4, <1>5, <1>6, <1>7 DEF Next, vars

-----------------------------------------------------------------------------
(* The theorems *)

\* IInv holds initially and every step keeps it.
THEOREM Inductive == Spec => []IInv
<1>1. Init => IInv
  <2> SUFFICES ASSUME Init PROVE IInv
    OBVIOUS
  <2> USE BoundAssumption, LauncherAssumption DEF BoundAssumption, LauncherAssumption, Init
  <2>1. w \in Fields
    BY DEF Fields, NoJava
  <2>2. TypeOK
    <3>1. spc \in [Threads -> StopPCs] /\ target \in [Threads -> 0..MaxLaunch]
      BY DEF StopPCs, NoJava
    <3>2. proc \in [Generations -> ProcStates] /\ woken \subseteq Generations
      BY DEF ProcStates
    <3>3. lpc \in LauncherPCs /\ mpc \in MainPCs /\ pidRec \in {"none", "self", "other"}
      BY DEF LauncherPCs, MainPCs
    <3>4. launches \in 0..MaxLaunch /\ timers \in Nat /\ frames \in 0..MaxFrames
      OBVIOUS
    <3>5. lateLaunch \in BOOLEAN
      OBVIOUS
    <3> QED
      BY ONLY <2>1, <3>1, <3>2, <3>3, <3>4, <3>5 DEF TypeOK
  <2>3. BoundInv /\ LauncherInv /\ ProcInv /\ TargetInv
    BY DEF BoundInv, LauncherInv, ProcInv, TargetInv, Launching, Registered, NoJava, Generations
  <2>4. TimerInv /\ MainInv /\ CloseInv /\ FastInv
    BY DEF TimerInv, MainInv, CloseInv, Closing, FastInv, Launching, NoJava, Generations
  <2> QED
    BY <2>2, <2>3, <2>4 DEF IInv
<1>2. IInv /\ [Next]_vars => IInv'
  BY TypeStep, LauncherStep, ProcStep, TargetStep, MainStepInv, CloseStep DEF IInv
<1> QED
  BY <1>1, <1>2, PTL DEF Spec

\* The variables of the wrapper keep their types, and the bound on launches holds.
THEOREM TypeCorrect == Spec => []TypeOK
<1>1. IInv => TypeOK
  BY DEF IInv
<1> QED
  BY <1>1, Inductive, PTL

\* A wrapper that has exited left no live Java behind, unless startJava
\* committed to a launch while a thread was between its decision to close the
\* wrapper and signalClose.
THEOREM OrphanSafety == Spec => []OrphanOnlyByLateLaunch
<1>1. IInv => OrphanOnlyByLateLaunch
  BY DEF IInv, OrphanOnlyByLateLaunch, CloseInv, Closing
<1> QED
  BY <1>1, Inductive, PTL

\* Two processes of one wrapper never run at the same time.
THEOREM OneJavaSafety == Spec => []OneJava
<1>1. IInv => OneJava
  BY DEF IInv, OneJava, ProcInv
<1> QED
  BY <1>1, Inductive, PTL

\* A closed wrapper creates no process, but for that instant.
THEOREM ClosedIsFinalTheorem == Spec => ClosedIsFinal
<1>1. IInv /\ [Next]_vars => [w.closed /\ launches' # launches => lateLaunch]_vars
  <2> SUFFICES ASSUME IInv, [Next]_vars, w.closed, launches' # launches PROVE lateLaunch
    OBVIOUS
  <2>1. lpc = "exec"
    BY LaunchesChange DEF IInv
  <2> QED
    BY <2>1 DEF IInv, CloseInv, Closing, Launching
<1> QED
  BY <1>1, Inductive, PTL DEF Spec, ClosedIsFinal

\* After maxFastCrashes fast crashes in a row no process is created.
THEOREM CrashLoopTheorem == Spec => CrashLoopGivesUp
<1>1. IInv /\ [Next]_vars => [launches' # launches => w.fastCrashes < MaxFastCrashes]_vars
  <2> SUFFICES ASSUME IInv, [Next]_vars, launches' # launches
               PROVE  w.fastCrashes < MaxFastCrashes
    OBVIOUS
  <2>1. lpc = "exec"
    BY LaunchesChange DEF IInv
  <2> QED
    BY <2>1 DEF IInv, FastInv
<1> QED
  BY <1>1, Inductive, PTL DEF Spec, CrashLoopGivesUp

\* A live process is killed only while a stop is in progress: a thread or timer
\* never hits a process launched after the one it was meant for.
THEOREM KilledOnlyOnStopTheorem == Spec => KilledOnlyOnStop
<1> DEFINE A == \A g \in Generations : proc[g] = "alive" /\ proc'[g] = "killed"
                    => w.state = "STOPPING"
<1>1. IInv /\ [Next]_vars => [A]_vars
  <2> SUFFICES ASSUME IInv, [Next]_vars, NEW g \in Generations,
                      proc[g] = "alive", proc'[g] = "killed"
               PROVE  w.state = "STOPPING"
    OBVIOUS
  <2>1. StopInProgress
    BY KillsOnlyInProgress DEF IInv
  <2> QED
    BY <2>1 DEF IInv, ProcInv, StopInProgress, Registered, Final
<1> QED
  BY <1>1, Inductive, PTL DEF Spec, KilledOnlyOnStop

-----------------------------------------------------------------------------
(* The wrapper from outside *)

\* The launcher is in stopJava only while startJava replays a deferred stop.
ReplayInv == spc[Launcher] # "idle" => lpc = "deferring"

\* A deferred stop waits for the end of the launch, and a stop that found no process has
\* a goroutine that decided to close, unless the launch it was deferred to has failed.
AskInv ==
    /\ w.stopDeferred => lpc \in Launching \cup {"pid", "deferred", "setCrashed"} \cup Final
    /\ w.state = "STOPPING" /\ lpc \in Launching => w.stopDeferred
    /\ w.state = "STOPPING" /\ lpc \notin Registered \cup Launching =>
           w.stopDeferred \/ Closing \/ lpc \in Final

\* Nobody goes back on the decision to close.
LEMMA ClosingStays == ASSUME TypeOK, ReplayInv, [Next]_vars, Closing PROVE Closing'
<1> USE DEF Closing
<1>1. CASE StartJava
  <2>1. CASE StartSuppressed \/ StartSetCrashed
    BY <2>1 DEF StartSuppressed, StartSetCrashed, LaunchRefused, stopping, TypeOK, Fields
  <2>2. CASE ReplayStop
    <3>1. UNCHANGED mpc /\ w'.closed = w.closed
      BY <2>2 DEF ReplayStop, StopLocked, TypeOK, Fields
    <3>2. Launcher \in Threads /\ spc[Launcher] # "close"
      BY <2>2 DEF ReplayStop, ReplayInv, Threads
    <3>3. \A t \in Threads : t # Launcher => spc'[t] = spc[t]
      BY <2>2 DEF ReplayStop, StopLocked, TypeOK
    <3> QED BY <3>1, <3>2, <3>3
  <2> QED
    BY <1>1, <2>1, <2>2 DEF StartJava, StartCommit, StartExec, StartFailed, StartRegister,
       StartWritePID, ApplyDeferredStop, StartReturn, stopping, TypeOK, Fields
<1>2. CASE JavaWait
  BY <1>2 DEF JavaWait, Reap, ReapSetStopped, CountCrash, CrashAgain, CheckOwner, CheckAllowed,
         Backoff, RecheckOff, JavaWaitClose, Decide, stopping, TypeOK, Fields
<1>3. CASE Timer \/ Environment \/ UNCHANGED vars
  BY <1>3 DEF Timer, TimerWakes, TimerKills, Environment, JavaExits, PIDFileLost, TakeOver,
         PIDFileChanges, pcs, stopping, vars
<1>4. CASE Main
  BY <1>4 DEF Main, MainWakes, CleanupRead, CleanupRemove, Exit, MainStep, stopping
<1>5. ASSUME NEW t \in Threads, StopJava(t) PROVE Closing'
  BY <1>5 DEF StopJava, WriteStop, ForceKill, SignalClose, ThreadAt, pcs, TypeOK, Fields
<1>6. ASSUME NEW h \in Handlers, HandleControl(h) PROVE Closing'
  <2>1. UNCHANGED mpc /\ spc[h] # "close" /\ h \in Threads
    BY <1>6 DEF HandleControl, HandleStop, HandleDisable, HandleEnable, Receive, ThreadAt, pcs,
                Threads
  <2>2. w'.closed = w.closed
    BY <1>6 DEF HandleControl, HandleStop, HandleDisable, HandleEnable, StopLocked, TypeOK, Fields
  <2>3. \A t \in Threads : t # h => spc'[t] = spc[t]
    BY <1>6, <2>1 DEF HandleControl, HandleStop, HandleDisable, HandleEnable, StopLocked, TypeOK
  <2> QED BY <2>1, <2>2, <2>3
<1> QED BY <1>1, <1>2, <1>3, <1>4, <1>5, <1>6 DEF Next

\* A stop frame, or a deferred stop that is replayed.
LEMMA StopLockedAsks ==
    ASSUME TypeOK, LauncherInv, NEW t \in Threads, NEW force \in BOOLEAN, StopLocked(t, force)
    PROVE  /\ w'.state = "STOPPING" /\ w'.closed = w.closed
           /\ w.stopDeferred => w'.stopDeferred
           /\ w'.stopDeferred => w.stopDeferred \/ lpc \in Launching
           /\ lpc \in Launching => w'.stopDeferred /\ UNCHANGED spc
           /\ lpc \notin Registered \cup Launching => spc'[t] = "close"
           /\ lpc \in Registered => spc'[t] # "close" /\ spc'[t] \in {"kill", "write"}
           /\ \A u \in Threads : u # t => spc'[u] = spc[u]
<1>1. /\ w.javaCmd = NoJava /\ w.javaStarting <=> lpc \in Launching
      /\ w.javaCmd # NoJava <=> lpc \in Registered
      /\ w.stopDeferred \in BOOLEAN /\ w \in Fields /\ spc \in [Threads -> StopPCs]
  BY DEF LauncherInv, TypeOK, Fields, NoJava, Launching, Registered
<1>2. CASE /\ w.javaCmd = NoJava /\ w.javaStarting
            /\ w' = [w EXCEPT !.state = "STOPPING", !.stopDeferred = TRUE,
                              !.stopDeferredForce = @ \/ force]
            /\ UNCHANGED spc
  BY <1>1, <1>2 DEF Fields, Launching, Registered
<1>3. CASE NoJavaInSight /\ w' = [w EXCEPT !.state = "STOPPING"] /\ spc' = [spc EXCEPT ![t] = "close"]
  BY <1>1, <1>3 DEF NoJavaInSight, Fields
<1>4. CASE /\ w.javaCmd # NoJava /\ w' = [w EXCEPT !.state = "STOPPING"]
           /\ spc' = [spc EXCEPT ![t] = IF force THEN "kill" ELSE "write"]
  BY <1>1, <1>4 DEF Fields
<1> QED BY <1>2, <1>3, <1>4 DEF StopLocked

LEMMA ReplayStep == TypeOK /\ ReplayInv /\ [Next]_vars => ReplayInv'
<1> SUFFICES ASSUME TypeOK, ReplayInv, [Next]_vars PROVE ReplayInv'
  OBVIOUS
<1> USE DEF ReplayInv, pcs, stopping
<1>0. Launcher \in Threads /\ Launcher \notin Handlers
  BY LauncherAssumption DEF LauncherAssumption, Threads
<1>1. CASE StartJava
  BY <1>1 DEF StartJava, StartSuppressed, StartCommit, StartExec, StartFailed, StartSetCrashed,
         StartRegister, StartWritePID, ApplyDeferredStop, ReplayStop, StartReturn, LaunchRefused, At
<1>2. CASE JavaWait
  BY <1>2 DEF JavaWait, Reap, ReapSetStopped, CountCrash, CrashAgain, CheckOwner, CheckAllowed,
         Backoff, RecheckOff, JavaWaitClose, Decide, At
<1>3. CASE Timer \/ Environment \/ UNCHANGED vars
  BY <1>3 DEF Timer, TimerWakes, TimerKills, Environment, JavaExits, PIDFileLost, TakeOver,
         PIDFileChanges, vars
<1>4. CASE Main
  BY <1>4 DEF Main, MainWakes, CleanupRead, CleanupRemove, Exit, MainStep
<1>5. ASSUME NEW t \in Threads, StopJava(t) PROVE ReplayInv'
  BY <1>0, <1>5 DEF StopJava, WriteStop, ForceKill, SignalClose, ThreadAt, TypeOK
<1>6. ASSUME NEW h \in Handlers, HandleControl(h) PROVE ReplayInv'
  BY <1>0, <1>6 DEF HandleControl, HandleStop, HandleDisable, HandleEnable, Receive, StopLocked, TypeOK
<1> QED BY <1>1, <1>2, <1>3, <1>4, <1>5, <1>6 DEF Next

LEMMA AskStep == IInv /\ ReplayInv /\ AskInv /\ [Next]_vars => AskInv'
<1> SUFFICES ASSUME IInv, ReplayInv, AskInv, [Next]_vars PROVE AskInv'
  OBVIOUS
<1>0. TypeOK /\ LauncherInv /\ (Closing => Closing')
  BY ClosingStays DEF IInv
<1> USE <1>0 DEF Registered, Launching, Final
<1>1. CASE StartJava
  <2>1. CASE StartSuppressed \/ StartSetCrashed
    BY <2>1 DEF AskInv, StartSuppressed, StartSetCrashed, LaunchRefused, At, TypeOK, Fields
  <2>2. CASE StartCommit \/ StartExec \/ StartFailed \/ StartRegister
    BY <2>2 DEF AskInv, StartCommit, StartExec, StartFailed, StartRegister, At, TypeOK, Fields
  <2>3. CASE StartWritePID \/ ApplyDeferredStop \/ StartReturn
    BY <2>3 DEF AskInv, StartWritePID, ApplyDeferredStop, StartReturn, At, TypeOK, Fields
  <2>4. CASE ReplayStop
    <3>1. lpc \in {"deferStop", "deferKill"} /\ lpc' = "deferring" /\ ~w.stopDeferred
      BY <2>4 DEF ReplayStop, AskInv
    <3>2. ~w'.stopDeferred
      BY <2>4, <3>1 DEF ReplayStop, StopLocked, NoJavaInSight, LauncherInv, TypeOK, Fields, NoJava
    <3> QED BY <3>1, <3>2 DEF AskInv
  <2> QED BY <1>1, <2>1, <2>2, <2>3, <2>4 DEF StartJava
<1>2. CASE JavaWait
  BY <1>2 DEF AskInv, JavaWait, Reap, ReapSetStopped, CountCrash, CrashAgain, CheckOwner,
              CheckAllowed, Backoff, RecheckOff, JavaWaitClose, Decide, At, TypeOK, Fields
<1>3. ASSUME UNCHANGED lpc, w'.state = w.state, w'.stopDeferred = w.stopDeferred PROVE AskInv'
  BY <1>3 DEF AskInv
<1>4. CASE Timer \/ Main \/ Environment \/ UNCHANGED vars
  BY <1>3, <1>4 DEF Timer, TimerWakes, TimerKills, Main, MainWakes, CleanupRead, CleanupRemove,
         Exit, MainStep, Environment, JavaExits, PIDFileLost, TakeOver, PIDFileChanges, pcs, vars
<1>5. ASSUME NEW t \in Threads, StopJava(t) PROVE AskInv'
  BY <1>3, <1>5 DEF StopJava, WriteStop, ForceKill, SignalClose, pcs, TypeOK, Fields
<1>6. ASSUME NEW h \in Handlers, NEW force \in BOOLEAN, HandleStop(h, force) PROVE AskInv'
  <2>1. h \in Threads /\ UNCHANGED lpc
    BY <1>6 DEF HandleStop, Receive, Threads, pcs
  <2>2. /\ w'.stopDeferred => w.stopDeferred \/ lpc \in Launching
        /\ lpc \in Launching => w'.stopDeferred
        /\ lpc \notin Registered \cup Launching => spc'[h] = "close"
    BY <1>6, <2>1, StopLockedAsks DEF HandleStop
  <2> QED BY <2>1, <2>2 DEF AskInv, Closing
<1>7. ASSUME NEW h \in Handlers, HandleDisable(h) \/ HandleEnable(h) PROVE AskInv'
  BY <1>3, <1>7 DEF HandleDisable, HandleEnable, Receive, pcs, TypeOK, Fields
<1> QED BY <1>1, <1>2, <1>4, <1>5, <1>6, <1>7 DEF Next, HandleControl

\* A stop is remembered: whatever the launcher overwrites, a deferred stop or a goroutine
\* that is closing the wrapper stands for it.
THEOREM AskInvariant == Spec => [](ReplayInv /\ AskInv)
<1>1. Init => ReplayInv /\ AskInv
  BY DEF Init, ReplayInv, AskInv, Launching, Final, Registered, Threads
<1>2. IInv /\ ReplayInv /\ AskInv /\ [Next]_vars => ReplayInv' /\ AskInv'
  BY ReplayStep, AskStep DEF IInv
<1> QED BY <1>1, <1>2, Inductive, PTL DEF Spec

\* A woken timer is about to hit the process that is being stopped, which exists.
WokenInv ==
    lpc \in Registered \cup {"register"} =>
        woken \subseteq {launches} /\ proc[launches] # "none"

LEMMA WokenStep == IInv /\ WokenInv /\ [Next]_vars => WokenInv'
<1> SUFFICES ASSUME IInv, WokenInv, [Next]_vars PROVE WokenInv'
  OBVIOUS
<1> USE BoundAssumption DEF BoundAssumption, WokenInv, Registered, Generations
<1>0. /\ TypeOK /\ LauncherInv /\ BoundInv /\ proc \in [1..MaxLaunch -> ProcStates]
      /\ launches \in 0..MaxLaunch
      /\ lpc \in Registered \cup {"register"} => launches \in 1..MaxLaunch
  BY DEF IInv, TypeOK, LauncherInv
<1>1. CASE StartExec
  <2>1. woken = {} /\ launches + 1 \in 1..MaxLaunch
    BY <1>0, <1>1 DEF StartExec, At, IInv, TimerInv, StopInProgress, Final, BoundInv
  <2> QED
    BY <1>0, <1>1, <2>1 DEF StartExec, stopping
\* The launcher registers a process only by launching it.
<1>2. CASE /\ UNCHANGED <<woken, proc, launches>>
           /\ lpc' \in Registered \cup {"register"} => lpc \in Registered \cup {"register"}
  BY <1>2
<1>3. CASE StartJava /\ ~StartExec
  BY <1>2, <1>3 DEF StartJava, StartSuppressed, StartCommit, StartFailed, StartSetCrashed,
     StartRegister, StartWritePID, ApplyDeferredStop, ReplayStop, StartReturn, LaunchRefused, At,
     stopping, processes
<1>4. CASE JavaWait
  BY <1>2, <1>4 DEF JavaWait, Reap, ReapSetStopped, CountCrash, CrashAgain, CheckOwner,
     CheckAllowed, Backoff, RecheckOff, JavaWaitClose, Decide, At, stopping, processes
<1>5. CASE Main \/ UNCHANGED vars
  BY <1>2, <1>5 DEF Main, MainWakes, CleanupRead, CleanupRemove, Exit, MainStep, stopping,
     processes, vars
<1>6. CASE Timer
  <2>1. /\ UNCHANGED <<lpc, launches>> /\ proc' \in [1..MaxLaunch -> ProcStates]
        /\ \A g \in 1..MaxLaunch : proc[g] # "none" => proc'[g] # "none"
    BY <1>0, <1>6 DEF Timer, TimerWakes, TimerKills, KillTree, pcs, processes, ProcStates
  <2>2. woken' \subseteq woken \cup ({w.javaCmd} \ {NoJava})
    BY <1>6 DEF Timer, TimerWakes, TimerKills
  <2>3. w.javaCmd \in {launches, NoJava}
    BY <1>0 DEF LauncherInv
  <2> QED
    BY <1>0, <2>1, <2>2, <2>3
<1>7. CASE Environment
  <2>1. /\ UNCHANGED <<lpc, launches, woken>>
        /\ \A g \in 1..MaxLaunch : proc[g] # "none" => proc'[g] # "none"
    BY <1>0, <1>7 DEF Environment, JavaExits, PIDFileLost, TakeOver, PIDFileChanges, pcs, stopping,
       processes, ProcStates
  <2> QED
    BY <1>0, <2>1
<1>8. ASSUME NEW t \in Threads, StopJava(t) PROVE WokenInv'
  <2>1. /\ UNCHANGED <<lpc, launches, woken>>
        /\ \A g \in 1..MaxLaunch : proc[g] # "none" => proc'[g] # "none"
    BY <1>0, <1>8 DEF StopJava, WriteStop, ForceKill, SignalClose, KillTree, pcs, stopping,
       processes, ProcStates
  <2> QED
    BY <1>0, <2>1
<1>9. ASSUME NEW h \in Handlers, HandleControl(h) PROVE WokenInv'
  BY <1>2, <1>9 DEF HandleControl, HandleStop, HandleDisable, HandleEnable, Receive, pcs, processes
<1> QED
  BY <1>1, <1>3, <1>4, <1>5, <1>6, <1>7, <1>8, <1>9 DEF Next

\* The launcher is through only with a wrapper that is closed, or has failed to start.
DoneInv == lpc = "done" => Closing

LEMMA DoneStep == TypeOK /\ ReplayInv /\ DoneInv /\ [Next]_vars => DoneInv'
<1> SUFFICES ASSUME TypeOK, ReplayInv, DoneInv, [Next]_vars, lpc # "done", lpc' = "done"
             PROVE  Closing'
  BY ClosingStays DEF DoneInv
<1> USE DEF Closing
<1>1. CASE StartJava
  BY <1>1 DEF StartJava, StartSuppressed, StartCommit, StartExec, StartFailed, StartSetCrashed,
     StartRegister, StartWritePID, ApplyDeferredStop, ReplayStop, StartReturn, LaunchRefused
<1>2. CASE JavaWait
  BY <1>2 DEF JavaWait, Reap, ReapSetStopped, CountCrash, CrashAgain, CheckOwner, CheckAllowed,
     Backoff, RecheckOff, JavaWaitClose, Decide, TypeOK, Fields
<1>3. CASE Others
  BY <1>3, OthersFrame
<1>4. CASE UNCHANGED vars
  BY <1>4 DEF vars
<1> QED
  BY <1>1, <1>2, <1>3, <1>4 DEF Next, Others

LEMMA PursueStep ==
    ASSUME IInv, ReplayInv, AskInv, WokenInv, DoneInv, StopIsPursued, [Next]_vars
    PROVE  StopIsPursued'
<1> USE DEF Registered, Launching, Final
<1> DEFINE Pending == w.stopDeferred /\ lpc \in {"exec", "failed", "setCrashed", "register"}
           Hitting == \E t \in Threads : spc[t] \in {"write", "kill"}
           Timed == timers > 0 \/ woken # {}
           Felled == w.javaCmd # NoJava /\ proc[w.javaCmd] \in {"killed", "dead"}
           Ends == lpc \in {"setStopped", "close"}
           Pursued == Closing \/ Ends \/ Pending \/ Hitting \/ Timed \/ Felled
<1>0. /\ TypeOK /\ LauncherInv /\ TimerInv /\ MainInv /\ (Closing => Closing')
      /\ w \in Fields /\ proc \in [1..MaxLaunch -> ProcStates] /\ spc \in [Threads -> StopPCs]
      /\ launches \in 0..MaxLaunch /\ timers \in Nat
  BY ClosingStays DEF IInv, TypeOK, Generations
<1>a. w.state = "STOPPING" => Pursued
  BY DEF StopIsPursued
<1> SUFFICES ASSUME w'.state = "STOPPING" PROVE Pursued'
  BY DEF StopIsPursued
<1> HIDE DEF Pursued
\* Steps that leave threads, timers and processes alone, and move the launcher at most.
<1>b. ASSUME w.state = "STOPPING", w'.javaCmd = w.javaCmd, UNCHANGED <<stopping, processes>>,
             Ends => Ends' \/ Closing', Pending => Pending' \/ Ends' \/ Closing'
      PROVE  Pursued'
  BY <1>0, <1>a, <1>b DEF Pursued, stopping, processes
<1>1. CASE StartSuppressed \/ StartExec \/ StartFailed
  <2>1. w.state = "STOPPING"
    BY <1>0, <1>1 DEF StartSuppressed, StartExec, StartFailed, Fields
  <2>2. CASE StartSuppressed
    BY <1>b, <2>1, <2>2 DEF StartSuppressed, LaunchRefused, At, Closing
  <2>3. CASE StartExec \/ StartFailed
    <3>1. w.stopDeferred
      BY <2>1, <2>3 DEF AskInv, StartExec, StartFailed, At
    <3>2. Pending'
      BY <1>0, <2>3, <3>1 DEF StartExec, StartFailed, At, Fields
    <3> QED
      BY <3>2 DEF Pursued
  <2> QED
    BY <1>1, <2>2, <2>3
<1>2. CASE StartCommit \/ StartSetCrashed \/ StartRegister
  BY <1>0, <1>2 DEF StartCommit, StartSetCrashed, StartRegister, Fields
<1>3. CASE StartWritePID \/ ApplyDeferredStop \/ StartReturn
  <2>1. w.state = "STOPPING" /\ w'.javaCmd = w.javaCmd
    BY <1>0, <1>3 DEF StartWritePID, ApplyDeferredStop, StartReturn, Fields
  <2> QED
    BY <1>b, <1>3, <2>1 DEF StartWritePID, ApplyDeferredStop, StartReturn, At, stopping,
       processes
\* A stop that comes closes, is deferred, or is in the hands of its goroutine.
<1>4. ASSUME NEW t \in Threads, NEW force \in BOOLEAN, StopLocked(t, force),
             lpc' = lpc \/ lpc \in Registered
      PROVE  Pursued'
  <2>1. CASE lpc \in Launching
    BY <1>0, <1>4, <2>1, StopLockedAsks DEF Pursued
  <2>2. CASE lpc \in Registered
    BY <1>0, <1>4, <2>2, StopLockedAsks DEF Pursued
  <2>3. CASE lpc \notin Registered \cup Launching
    BY <1>0, <1>4, <2>3, StopLockedAsks DEF Pursued, Closing
  <2> QED
    BY <2>1, <2>2, <2>3
<1>5. CASE ReplayStop
  <2>1. PICK force \in BOOLEAN : StopLocked(Launcher, force)
    BY <1>5 DEF ReplayStop
  <2> QED
    BY <1>4, <1>5, <2>1 DEF ReplayStop, Threads
<1>6. CASE JavaWait
  <2>1. CASE Reap
    BY <1>0, <2>1 DEF Reap, At, Fields, Pursued
  <2>2. CASE ReapSetStopped \/ CountCrash \/ CrashAgain
    BY <1>0, <2>2 DEF ReapSetStopped, CountCrash, CrashAgain, Fields
  <2>3. CASE CheckOwner \/ CheckAllowed \/ Backoff \/ RecheckOff
    <3>1. w.state = "STOPPING" /\ w'.javaCmd = w.javaCmd /\ UNCHANGED <<stopping, processes>>
      BY <1>0, <2>3 DEF CheckOwner, CheckAllowed, Backoff, RecheckOff, Decide
    <3>2. lpc \in {"owner", "allowed", "backoff", "recheckOff"}
      BY <2>3 DEF CheckOwner, CheckAllowed, Backoff, RecheckOff, Decide, At
    <3> QED
      BY <1>b, <3>1, <3>2
  <2>4. CASE JavaWaitClose
    <3>1. w'.closed
      BY <1>0, <2>4 DEF JavaWaitClose, Fields
    <3> QED
      BY <3>1 DEF Pursued, Closing
  <2> QED
    BY <1>6, <2>1, <2>2, <2>3, <2>4 DEF JavaWait
<1>7. ASSUME NEW t \in Threads, StopJava(t) PROVE Pursued'
  <2>1. w.state = "STOPPING" /\ UNCHANGED <<lpc, launches, woken>> /\ w'.stopDeferred = w.stopDeferred
    BY <1>0, <1>7 DEF StopJava, WriteStop, ForceKill, SignalClose, pcs, stopping, processes, Fields
  <2>2. CASE WriteStop(t)
    <3>1. spc'[t] = "kill" \/ timers' > 0
      BY <1>0, <2>2 DEF WriteStop
    <3> QED
      BY <3>1 DEF Pursued
  <2>3. CASE ForceKill(t)
    <3>1. spc'[t] = "close"
      BY <1>0, <2>3 DEF ForceKill
    <3> QED
      BY <3>1 DEF Pursued, Closing
  <2>4. CASE SignalClose(t)
    <3>1. w'.closed
      BY <1>0, <2>4 DEF SignalClose, Fields
    <3> QED
      BY <3>1 DEF Pursued, Closing
  <2> QED
    BY <1>7, <2>2, <2>3, <2>4 DEF StopJava
\* A timer that wakes finds the process, or javaWait is past it; one that kills hits it.
<1>8. CASE Timer
  <2>1. UNCHANGED <<lpc, w, launches>> /\ w'.javaCmd = w.javaCmd /\ StopInProgress
    BY <1>8 DEF Timer, TimerWakes, TimerKills, pcs, processes, TimerInv, IInv
  <2>2. CASE lpc \in Final
    BY <1>0, <2>1, <2>2 DEF Pursued, DoneInv
  <2>3. CASE lpc \in Registered
    <3>1. w.javaCmd = launches /\ launches # 0 /\ woken \subseteq {launches} /\ proc[launches] # "none"
      BY <1>0, <2>3 DEF LauncherInv, WokenInv
    <3>2. CASE TimerWakes
      BY <3>1, <3>2 DEF TimerWakes, Pursued, NoJava
    <3>3. ASSUME NEW g \in Generations, TimerKills(g) PROVE Felled'
      <4>1. g = launches /\ KillTree(launches)
        BY <3>1, <3>3 DEF TimerKills
      <4>2. proc'[launches] \in {"killed", "dead"}
        BY <1>0, <3>1, <4>1 DEF KillTree, ProcStates
      <4> QED
        BY <2>1, <3>1, <4>2 DEF NoJava
    <3> QED
      BY <1>8, <3>2, <3>3 DEF Timer, Pursued
  <2> QED
    BY <2>1, <2>2, <2>3 DEF StopInProgress
<1>9. CASE Main
  <2>1. UNCHANGED <<w, lpc, stopping, processes>>
    BY <1>9 DEF Main, MainWakes, CleanupRead, CleanupRemove, Exit, MainStep
  <2> QED
    BY <1>b, <2>1
<1>10. CASE Environment
  <2>1. UNCHANGED <<w, pcs, stopping, launches>>
    BY <1>10 DEF Environment, JavaExits, PIDFileLost, TakeOver, PIDFileChanges, processes
  <2>2. Felled => Felled'
    <3>1. ASSUME NEW g \in Generations, JavaExits(g) PROVE Felled => Felled'
      BY <1>0, <2>1, <3>1 DEF JavaExits, Generations
    <3>2. CASE PIDFileLost \/ TakeOver
      BY <3>2 DEF PIDFileLost, TakeOver, PIDFileChanges, processes
    <3> QED
      BY <1>10, <3>1, <3>2 DEF Environment
  <2> QED
    BY <1>a, <2>1, <2>2 DEF Pursued, Closing, pcs, stopping
<1>11. ASSUME NEW h \in Handlers, HandleControl(h) PROVE Pursued'
  <2>1. h \in Threads /\ UNCHANGED <<pcs, timers, woken, processes>> /\ spc[h] = "idle"
    BY <1>11 DEF HandleControl, HandleStop, HandleDisable, HandleEnable, Receive, Threads, ThreadAt
  <2>2. ASSUME NEW force \in BOOLEAN, HandleStop(h, force) PROVE Pursued'
    BY <1>4, <2>1, <2>2 DEF HandleStop, pcs
  <2>3. CASE HandleDisable(h) \/ HandleEnable(h)
    <3>1. /\ w'.state = w.state /\ w'.stopDeferred = w.stopDeferred /\ w'.closed = w.closed
          /\ w'.javaCmd = w.javaCmd
      BY <1>0, <2>3 DEF HandleDisable, HandleEnable, Fields
    <3>2. \A t \in Threads : t # h => spc'[t] = spc[t]
      BY <1>0, <2>3 DEF HandleDisable, HandleEnable
    <3>3. Hitting => Hitting'
      BY <2>1, <3>2
    <3>4. Timed' <=> Timed
      BY <2>1
    <3>5. (Felled => Felled') /\ (Ends => Ends') /\ (Pending => Pending')
      BY <2>1, <3>1 DEF pcs, processes
    <3> HIDE DEF Hitting, Timed, Felled, Pending
    <3> QED
      BY <1>0, <1>a, <3>1, <3>3, <3>4, <3>5 DEF Pursued
  <2> QED
    BY <1>11, <2>2, <2>3 DEF HandleControl
<1>12. CASE UNCHANGED vars
  BY <1>b, <1>12 DEF vars, stopping, processes
<1> QED
  BY <1>1, <1>2, <1>3, <1>5, <1>6, <1>7, <1>8, <1>9, <1>10, <1>11, <1>12 DEF Next, StartJava

\* No step of a stop drops it: at every moment somebody is on the way to end the wrapper.
THEOREM StopIsPursuedHolds == Spec => []StopIsPursued
<1>1. Init => WokenInv /\ DoneInv /\ StopIsPursued
  BY DEF Init, WokenInv, DoneInv, StopIsPursued, Registered
<1>2. IInv /\ ReplayInv /\ AskInv /\ WokenInv /\ DoneInv /\ StopIsPursued /\ [Next]_vars
        => WokenInv' /\ DoneInv' /\ StopIsPursued'
  BY WokenStep, DoneStep, PursueStep DEF IInv
<1> QED
  BY <1>1, <1>2, Inductive, AskInvariant, PTL DEF Spec

Decided == Closing \/ LauncherCloses
OutsideVars == <<JavaSeen, StopAsked, Decided, lateLaunch, Up>>
OutsideStep == [Outside!Next]_OutsideVars

\* Java, as seen from outside, changes only with the processes.
LEMMA SeenSame ==
    ASSUME \A g \in Generations : proc'[g] = proc[g]
    PROVE  JavaSeen' = JavaSeen
BY DEF JavaSeen, Generations

\* No process is seen unless the launcher minds it.
LEMMA NoneSeen ==
    ASSUME ProcInv, lpc \notin Registered \cup {"register"}
    PROVE  JavaSeen = "none"
BY DEF JavaSeen, ProcInv

\* A step that leaves Java alone asks for a stop, decides to close, or shows nothing.
LEMMA Quiet ==
    ASSUME Up, Up', JavaSeen' = JavaSeen, lateLaunch' = lateLaunch,
           StopAsked => StopAsked', Decided => Decided',
           Decided' => Decided \/ JavaSeen # "alive"
    PROVE  OutsideStep
<1>1. StopAsked \in BOOLEAN /\ StopAsked' \in BOOLEAN /\ Decided \in BOOLEAN
      /\ Decided' \in BOOLEAN /\ Up \in BOOLEAN /\ Up' \in BOOLEAN
  BY DEF StopAsked, Decided, Closing, LauncherCloses, Up
<1>2. CASE StopAsked'
  <2>1. Outside!Ask
    BY <1>1, <1>2 DEF Outside!Ask, Outside!MayClose, Decided
  <2> QED BY <2>1 DEF OutsideStep, Outside!Next
<1>3. CASE ~StopAsked'
  <2>1. Outside!Close
    BY <1>1, <1>3 DEF Outside!Close, Outside!MayClose, Decided
  <2> QED BY <2>1 DEF OutsideStep, Outside!Next
<1> QED BY <1>2, <1>3

\* A step after which no stop is remembered any more.
LEMMA Forgets ==
    ASSUME Up, Up', JavaSeen = "none", JavaSeen' = JavaSeen, Decided, Decided',
           lateLaunch' \in {lateLaunch, TRUE}, ~StopAsked'
    PROVE  OutsideStep
<1>1. StopAsked' = FALSE /\ (Decided' = Decided) /\ (Up' = Up)
  BY DEF StopAsked, Decided, Up
<1>2. Outside!Forget
  BY <1>1 DEF Outside!Forget, Decided
<1> QED BY <1>2 DEF OutsideStep, Outside!Next

\* startJava: only cmd.Start is seen, and what it overwrites is remembered elsewhere.
LEMMA StartOutside == IInv /\ AskInv /\ ReplayInv /\ StartJava => OutsideStep
<1> SUFFICES ASSUME IInv, AskInv, ReplayInv, StartJava PROVE OutsideStep
  OBVIOUS
<1>0. TypeOK /\ LauncherInv /\ ProcInv /\ CloseInv /\ (Closing => Closing')
  BY ClosingStays DEF IInv, Next
<1> USE <1>0, SeenSame, NoneSeen, Quiet
    DEF Registered, Launching, Decided, LauncherCloses, processes
<1>1. CASE StartSuppressed
  BY <1>1 DEF StartSuppressed, LaunchRefused, StopAsked, At, Up, history
<1>2. CASE StartCommit
  <2>1. /\ Up /\ Up' /\ JavaSeen = "none" /\ JavaSeen' = JavaSeen /\ lpc = "lock"
        /\ lpc' = "exec" /\ lateLaunch' \in {lateLaunch, TRUE}
    BY <1>2 DEF StartCommit, At, Up, TypeOK
  <2>2. ~StopAsked'
    BY <1>2, <2>1 DEF StartCommit, StopAsked, AskInv, Final, TypeOK, Fields
  <2>3. CASE Closing
    BY <2>1, <2>2, <2>3, Forgets
  <2>4. CASE ~Closing
    <3>1. lateLaunch' = lateLaunch /\ ~Closing' /\ ~StopAsked
      BY <1>2, <2>1, <2>4 DEF StartCommit, Closing, StopAsked, AskInv, Final, TypeOK, Fields,
                              stopping
    <3> QED BY <2>1, <3>1
  <2> QED BY <2>3, <2>4
<1>3. CASE StartExec
  <2>1. CASE proc' = proc
    BY <1>3, <2>1 DEF StartExec, StopAsked, At, Up, history
  <2>2. CASE proc' # proc
    <3>1. /\ launches + 1 \in Generations
          /\ proc' = [proc EXCEPT ![launches + 1] = "alive"] /\ lpc = "exec"
          /\ lpc' = "register" /\ UNCHANGED <<w, mpc, spc, lateLaunch>> /\ Up
      BY <1>3, <2>2, BoundAssumption DEF StartExec, At, IInv, BoundInv, TypeOK, Generations,
         BoundAssumption, stopping, history
    <3>2. JavaSeen = "none" /\ JavaSeen' = "alive"
      BY <3>1 DEF JavaSeen, TypeOK
    <3>3. Closing => lateLaunch
      BY <3>1 DEF CloseInv
    <3>4. Outside!Launch
      BY <3>1, <3>2, <3>3 DEF Outside!Launch, StopAsked, Closing, Up
    <3> QED BY <3>4 DEF OutsideStep, Outside!Next
  <2> QED BY <2>1, <2>2
<1>4. CASE StartFailed
  BY <1>4 DEF StartFailed, StopAsked, At, Up, TypeOK, Fields, history
<1>5. CASE StartSetCrashed
  <2>1. /\ Up /\ Up' /\ JavaSeen = "none" /\ JavaSeen' = JavaSeen /\ lateLaunch' = lateLaunch
        /\ lpc = "setCrashed" /\ lpc' \in {"done", "close"} /\ w' = [w EXCEPT !.state = "CRASHED"]
    BY <1>5 DEF StartSetCrashed, LaunchRefused, At, Up, history
  <2>2. StopAsked' <=> w.stopDeferred
    BY <2>1 DEF StopAsked, TypeOK, Fields
  <2>3. CASE Closing /\ ~StopAsked'
    BY <2>1, <2>3, Forgets
  <2>4. CASE StopAsked' \/ ~Closing
    <3>1. StopAsked => StopAsked'
      BY <2>1, <2>2, <2>4 DEF StopAsked, AskInv, Final
    <3> QED BY <2>1, <3>1
  <2> QED BY <2>3, <2>4
<1>6. CASE StartRegister
  <2>1. StopAsked' <=> StopAsked
    BY <1>6 DEF StartRegister, StopAsked, AskInv, At, TypeOK, Fields
  <2> QED BY <1>6, <2>1 DEF StartRegister, At, Up, Closing, stopping, history, TypeOK, Fields
<1>7. CASE StartWritePID
  BY <1>7 DEF StartWritePID, StopAsked, At, Up, Closing, stopping, history
<1>8. CASE ApplyDeferredStop
  <2>1. StopAsked' <=> StopAsked
    BY <1>8 DEF ApplyDeferredStop, StopAsked, At, TypeOK, Fields
  <2> QED BY <1>8, <2>1 DEF ApplyDeferredStop, At, Up, Closing, stopping, history, TypeOK, Fields
<1>9. CASE ReplayStop
  <2>1. /\ lpc \in {"deferStop", "deferKill"} /\ lpc' = "deferring" /\ Launcher \in Threads
        /\ UNCHANGED <<mpc, proc, lateLaunch>> /\ Up
    BY <1>9 DEF ReplayStop, Threads, history
  <2>2. /\ w'.state = "STOPPING" /\ w'.closed = w.closed /\ spc'[Launcher] # "close"
        /\ \A u \in Threads : u # Launcher => spc'[u] = spc[u]
    BY <1>9, <2>1, StopLockedAsks DEF ReplayStop
  <2> QED BY <2>1, <2>2 DEF StopAsked, Closing, Up
<1>10. CASE StartReturn
  BY <1>10 DEF StartReturn, StopAsked, At, Up, Closing, stopping, history
<1> QED
  BY <1>1, <1>2, <1>3, <1>4, <1>5, <1>6, <1>7, <1>8, <1>9, <1>10 DEF StartJava

\* javaWait forgets a stop only when it is obeyed.
LEMMA WaitOutside == IInv /\ AskInv /\ ReplayInv /\ JavaWait => OutsideStep
<1> SUFFICES ASSUME IInv, AskInv, ReplayInv, JavaWait PROVE OutsideStep
  OBVIOUS
<1>0. TypeOK /\ ProcInv /\ (Closing => Closing')
  BY ClosingStays DEF IInv, Next
<1> USE <1>0, SeenSame, NoneSeen, Quiet DEF Registered, Decided, LauncherCloses, processes, history
<1>1. CASE Reap
  <2>1. JavaSeen = "none"
    BY <1>1 DEF Reap, ProcInv, JavaSeen
  <2> QED BY <1>1, <2>1 DEF Reap, StopAsked, At, Up, TypeOK, Fields
<1>2. CASE ReapSetStopped \/ CountCrash \/ CrashAgain
  <2>1. /\ Up /\ Up' /\ JavaSeen = "none" /\ JavaSeen' = JavaSeen /\ lateLaunch' = lateLaunch
        /\ lpc \in {"setStopped", "crash", "crashAgain"}
        /\ lpc' \in {"close", "crashAgain", "owner"} /\ (lpc = "setStopped" => lpc' = "close")
        /\ w'.state \in {"STOPPED", "CRASHED"} /\ w'.stopDeferred = w.stopDeferred
    BY <1>2 DEF ReapSetStopped, CountCrash, CrashAgain, At, Up, TypeOK, Fields
  <2>2. CASE Decided /\ ~StopAsked'
    BY <2>1, <2>2, Forgets
  <2>3. CASE StopAsked' \/ ~Decided
    <3>1. StopAsked => StopAsked'
      BY <2>1, <2>3 DEF StopAsked, AskInv, Launching, Final
    <3> QED BY <2>1, <3>1
  <2> QED BY <2>2, <2>3
<1>3. CASE CheckOwner \/ CheckAllowed \/ Backoff \/ RecheckOff \/ JavaWaitClose
  BY <1>3 DEF CheckOwner, CheckAllowed, Backoff, RecheckOff, JavaWaitClose, Decide, StopAsked,
              At, Up, TypeOK, Fields
<1> QED BY <1>1, <1>2, <1>3 DEF JavaWait

\* killProcessTree on a process that a stop in progress may hold.
LEMMA KillOutside ==
    ASSUME IInv, Up, Up', StopInProgress, lateLaunch' = lateLaunch, UNCHANGED <<w, lpc>>,
           Decided => Decided', NEW g \in 0..MaxLaunch, KillTree(g),
           Decided' => Decided \/ lpc \in Final \/ g = launches
    PROVE  OutsideStep
<1>0. TypeOK /\ ProcInv /\ LauncherInv /\ (StopAsked' <=> StopAsked)
  BY DEF IInv, StopAsked
<1>1. CASE g \in Generations /\ proc[g] = "alive"
  <2>1. lpc \in Registered /\ w.state = "STOPPING" /\ g = launches
    BY <1>0, <1>1 DEF ProcInv, StopInProgress, Registered, Final
  <2>2. JavaSeen = "alive" /\ JavaSeen' = "killed" /\ StopAsked
    BY <1>0, <1>1, <2>1 DEF KillTree, JavaSeen, ProcInv, TypeOK, StopAsked
  <2>3. Outside!Kill
    BY <1>0, <2>2 DEF Outside!Kill, Outside!MayClose, Decided, Closing, LauncherCloses, Up,
       StopAsked
  <2> QED BY <2>3 DEF OutsideStep, Outside!Next
<1>2. CASE ~(g \in Generations /\ proc[g] = "alive")
  <2>1. JavaSeen' = JavaSeen
    BY <1>0, <1>2, SeenSame DEF KillTree, TypeOK, Generations
  <2>2. lpc \in Final \/ g = launches => JavaSeen # "alive"
    <3>1. lpc \in Final => JavaSeen = "none"
      BY <1>0, NoneSeen DEF Final, Registered
    <3>2. g = launches => JavaSeen # "alive"
      BY <1>0, <1>2 DEF JavaSeen, ProcInv
    <3> QED BY <3>1, <3>2
  <2> QED BY <1>0, <2>1, <2>2, Quiet
<1> QED BY <1>1, <1>2

\* The other goroutines: handlers, timers, stopJava, main, and the environment.
LEMMA OthersOutside == IInv /\ Others => OutsideStep
<1> SUFFICES ASSUME IInv, Others PROVE OutsideStep
  OBVIOUS
<1>0. TypeOK /\ ProcInv /\ LauncherInv
  BY DEF IInv
<1> USE <1>0, Quiet, SeenSame DEF Decided, LauncherCloses, processes, pcs, stopping, history
<1>1. CASE Timer
  <2>1. CASE TimerWakes
    BY <2>1 DEF TimerWakes, Up, StopAsked, Closing
  <2>2. ASSUME NEW g \in Generations, TimerKills(g) PROVE OutsideStep
    <3>1. StopInProgress /\ g \in 0..MaxLaunch
      BY <2>2 DEF TimerKills, IInv, TimerInv, Generations
    <3> QED BY <2>2, <3>1, KillOutside DEF TimerKills, Up, Closing
  <2> QED BY <1>1, <2>1, <2>2 DEF Timer
<1>2. CASE Main
  <2>1. CASE Exit
    <3>1. /\ mpc = "leaving" /\ mpc' = "exited"
          /\ UNCHANGED <<w, lpc, spc, proc, lateLaunch>>
      BY <2>1 DEF Exit, MainStep
    <3>2. Outside!Exit
      BY <3>1 DEF Outside!Exit, StopAsked, Closing, Up
    <3> QED BY <3>2 DEF OutsideStep, Outside!Next
  <2>2. CASE MainWakes \/ CleanupRead \/ CleanupRemove
    BY <2>2 DEF MainWakes, CleanupRead, CleanupRemove, MainStep, Up, StopAsked, Closing
  <2> QED BY <1>2, <2>1, <2>2 DEF Main
<1>3. CASE Environment
  <2>1. ASSUME NEW g \in Generations, JavaExits(g) PROVE OutsideStep
    <3>1. JavaSeen # "none" /\ JavaSeen' = "none"
      BY <2>1 DEF JavaExits, JavaSeen, ProcInv, TypeOK
    <3>2. Outside!JavaEnds
      BY <2>1, <3>1 DEF Outside!JavaEnds, JavaExits, StopAsked, Closing, Up
    <3> QED BY <3>2 DEF OutsideStep, Outside!Next
  <2>2. CASE PIDFileLost \/ TakeOver
    BY <2>2 DEF PIDFileLost, TakeOver, PIDFileChanges, Up, StopAsked, Closing
  <2> QED BY <1>3, <2>1, <2>2 DEF Environment
<1>4. ASSUME NEW t \in Threads, StopJava(t) PROVE OutsideStep
  <2>1. CASE WriteStop(t)
    <3>1. /\ UNCHANGED <<w, lpc, mpc, proc, lateLaunch>> /\ Up
          /\ \A u \in Threads : spc[u] = "close" <=> spc'[u] = "close"
      BY <2>1 DEF WriteStop, ThreadAt, TypeOK
    <3>2. (Closing' <=> Closing) /\ (StopAsked' <=> StopAsked) /\ (Up' <=> Up)
      BY <3>1 DEF Closing, StopAsked, Up
    <3> QED BY <3>1, <3>2
  <2>2. CASE SignalClose(t)
    BY <2>2 DEF SignalClose, ThreadAt, Up, StopAsked, Closing, Fields, TypeOK
  <2>3. CASE ForceKill(t)
    <3>1. /\ StopInProgress /\ target[t] \in 0..MaxLaunch
          /\ lpc \in Final \/ target[t] = launches
      BY <2>3 DEF ForceKill, ThreadAt, IInv, TargetInv, StopInProgress, TypeOK
    <3>2. Closing => Closing'
      BY <2>3 DEF ForceKill, ThreadAt, Closing, TypeOK
    <3> QED BY <2>3, <3>1, <3>2, KillOutside DEF ForceKill, ThreadAt, Up
  <2> QED BY <1>4, <2>1, <2>2, <2>3 DEF StopJava
<1>5. ASSUME NEW h \in Handlers, NEW force \in BOOLEAN, HandleStop(h, force)
      PROVE  OutsideStep
  <2>1. h \in Threads /\ UNCHANGED <<pcs, proc, lateLaunch>> /\ Up
    BY <1>5 DEF HandleStop, Receive, ThreadAt, Threads
  <2>2. /\ w'.state = "STOPPING" /\ w'.closed = w.closed
        /\ lpc \in Launching => UNCHANGED spc
        /\ lpc \in Registered => spc'[h] # "close"
        /\ \A u \in Threads : u # h => spc'[u] = spc[u]
        /\ spc[h] = "idle"
    BY <1>5, <2>1, StopLockedAsks DEF HandleStop, Receive, ThreadAt
  <2>3. StopAsked' /\ (Closing => Closing')
    BY <2>1, <2>2 DEF StopAsked, Closing
  <2>4. Closing' => Closing \/ lpc \notin Launching \cup Registered
    BY <2>1, <2>2 DEF Closing
  <2> QED BY <2>1, <2>3, <2>4, NoneSeen DEF Launching, Up
<1>6. ASSUME NEW h \in Handlers, HandleDisable(h) \/ HandleEnable(h) PROVE OutsideStep
  <2>1. h \in Threads /\ UNCHANGED <<pcs, proc, lateLaunch>> /\ Up /\ spc[h] = "idle"
    BY <1>6 DEF HandleDisable, HandleEnable, Receive, ThreadAt, Threads
  <2>2. /\ w'.closed = w.closed /\ w'.state = w.state /\ w'.stopDeferred = w.stopDeferred
        /\ \A u \in Threads : u # h => spc'[u] = spc[u]
        /\ spc' = spc \/ NoJavaInSight
    BY <1>6 DEF HandleDisable, HandleEnable, TypeOK, Fields
  <2>3. (StopAsked' <=> StopAsked) /\ (Closing => Closing')
    BY <2>1, <2>2 DEF StopAsked, Closing
  <2>4. NoJavaInSight => lpc \notin Registered \cup {"register"}
    BY DEF NoJavaInSight, Launching, Registered, NoJava, LauncherInv
  <2> QED BY <2>1, <2>2, <2>3, <2>4, NoneSeen DEF Closing, Up
<1> QED BY <1>1, <1>2, <1>3, <1>4, <1>5, <1>6 DEF Others, HandleControl

\* The wrapper keeps the promise of Supervisor: in particular a stop that arrives in any
\* instant, also while Java is starting or has just crashed, is remembered until some
\* goroutine has decided to close, and nobody decides so over a living Java.
THEOREM SupervisorContractHolds == Spec => SupervisorContract
<1>1. Init => Outside!Init
  BY DEF Init, Outside!Init, JavaSeen, StopAsked, Closing, LauncherCloses, Up
<1>2. IInv /\ ReplayInv /\ AskInv /\ [Next]_vars => OutsideStep
  <2>1. UNCHANGED vars => OutsideStep
    BY DEF vars, OutsideStep, OutsideVars, JavaSeen, StopAsked, Decided, Closing,
           LauncherCloses, Up
  <2> QED BY <2>1, StartOutside, WaitOutside, OthersOutside DEF Next, Others
<1>3. IInv /\ ReplayInv /\ AskInv /\ [Next]_vars
          => [Outside!Next]_<<JavaSeen, StopAsked, Closing \/ LauncherCloses, lateLaunch, Up>>
  BY <1>2 DEF OutsideStep, OutsideVars, Decided
<1> QED
  BY <1>1, <1>3, Inductive, AskInvariant, PTL DEF Spec, SupervisorContract, Outside!Spec

-----------------------------------------------------------------------------
\* The promise of Supervisor leaves one way for Java to live on after the decision to close.
LateInv == Decided /\ JavaSeen = "alive" => lateLaunch

JavaMaybe == Up \/ JavaSeen = "alive"
SeenStep == [Seen!Alone \/ lateLaunch']_<<LifeSeen, JavaMaybe>>

LEMMA Booleans ==
    /\ StopAsked \in BOOLEAN /\ Decided \in BOOLEAN /\ Up \in BOOLEAN /\ JavaMaybe \in BOOLEAN
    /\ StopAsked' \in BOOLEAN /\ Decided' \in BOOLEAN /\ Up' \in BOOLEAN
    /\ JavaMaybe' \in BOOLEAN
BY DEF StopAsked, Decided, Closing, LauncherCloses, Up, JavaMaybe

LEMMA LateStep == LateInv /\ OutsideStep => LateInv'
<1> USE DEF LateInv, Decided, Outside!MayClose
<1> SUFFICES ASSUME LateInv, OutsideStep PROVE LateInv'
  OBVIOUS
<1>1. CASE UNCHANGED OutsideVars
  BY <1>1 DEF OutsideVars
<1>2. CASE Outside!Launch \/ Outside!Ask \/ Outside!Kill \/ Outside!JavaEnds
  BY <1>2 DEF Outside!Launch, Outside!Ask, Outside!Kill, Outside!JavaEnds
<1>3. CASE Outside!Close \/ Outside!Forget \/ Outside!Exit
  BY <1>3 DEF Outside!Close, Outside!Forget, Outside!Exit
<1> QED
  BY <1>1, <1>2, <1>3 DEF OutsideStep, Outside!Next

\* Each step of Supervisor, as the Worker sees it.
LEMMA SeenFollows == LateInv /\ OutsideStep => SeenStep
<1> SUFFICES ASSUME LateInv, OutsideStep PROVE SeenStep
  OBVIOUS
<1>1. LifeSeen = IF ~Up THEN "gone" ELSE IF StopAsked \/ Decided THEN "stopping" ELSE "up"
  BY DEF LifeSeen, Decided
<1>2. LifeSeen' = IF ~Up' THEN "gone" ELSE IF StopAsked' \/ Decided' THEN "stopping" ELSE "up"
  BY DEF LifeSeen, Decided
<1> USE <1>1, <1>2, Booleans DEF SeenStep, JavaMaybe, Seen!Alone, Decided
<1>3. CASE UNCHANGED OutsideVars
  BY <1>3 DEF OutsideVars
<1>4. CASE Outside!Launch \/ Outside!Ask \/ Outside!Kill \/ Outside!Close
  BY <1>4 DEF Outside!Launch, Outside!Ask, Outside!Kill, Outside!Close, Outside!MayClose, Seen!Told
<1>5. CASE Outside!Forget
  BY <1>5 DEF Outside!Forget
<1>6. CASE Outside!JavaEnds
  BY <1>6 DEF Outside!JavaEnds, Seen!OrphanEnds
<1>7. CASE Outside!Exit
  BY <1>7 DEF Outside!Exit, LateInv, Seen!Ends, Seen!Living
<1> QED
  BY <1>3, <1>4, <1>5, <1>6, <1>7 DEF OutsideStep, Outside!Next

\* wrapper.go keeps what InstanceLifecycle assumes of a wrapper; the argument uses nothing
\* of it but the promise of Supervisor.
THEOREM WrapperLifeHolds == Spec => WrapperLifeContract
<1>1. Outside!Init => LateInv /\ LifeSeen = "up" /\ JavaMaybe = TRUE
  BY Booleans DEF Outside!Init, LateInv, Decided, LifeSeen, JavaMaybe, Up
<1>2. LateInv /\ [Outside!Next]_OutsideVars => LateInv'
  BY LateStep DEF OutsideStep
<1>3. LateInv /\ [Outside!Next]_OutsideVars
          => [Seen!Alone \/ lateLaunch']_<<LifeSeen, Up \/ JavaSeen = "alive">>
  BY SeenFollows DEF OutsideStep, SeenStep, JavaMaybe
<1>4. Outside!Init => Seen!Listening
  BY <1>1 DEF Seen!Listening, JavaMaybe
<1>5. Spec => Outside!Init /\ [][Outside!Next]_OutsideVars
  BY SupervisorContractHolds DEF SupervisorContract, Outside!Spec, OutsideVars, Decided
<1> QED
  BY <1>1, <1>2, <1>3, <1>4, <1>5, PTL DEF WrapperLifeContract
=============================================================================
