----------------------------- MODULE CircuitProofs -----------------------------
(***************************************************************************)
(* What holds of the circuit breaker for any numbers of starts and edits   *)
(* under way, any threshold, any bounds and any set of faults.             *)
(* The invariant follows the last word the wrapper has been sent: as long  *)
(* as nothing went astray, a wrapper that is to stay disabled belongs to   *)
(* a broken circuit, or to a scan or a release that has yet to enable it.  *)
(***************************************************************************)
EXTENDS CircuitBreaker, SequenceTheorems, TLAPS

\* TypeOK in three parts: where the threads are, the frames, and the rest.
WrapperType == [up : BOOLEAN, java : BOOLEAN, off : BOOLEAN]
PlaceInv ==
    /\ scan \in [pc : ScanPCs, state : States, autoRestart : BOOLEAN, force : BOOLEAN]
    /\ spc \in [Starters -> StartPCs] /\ epc \in [Editors -> EditPCs]
ChannelInv ==
    /\ chan \in [old : Seq(Frames), new : Seq(Frames)]
    /\ Len(chan.old) <= MaxFrames /\ Len(chan.new) <= MaxFrames
DataInv ==
    /\ broken \in BOOLEAN /\ autoRestart \in BOOLEAN /\ file \in BOOLEAN
    /\ astray \in BOOLEAN /\ lapses \subseteq Lapses
    /\ crashes \in 0..MaxCrashes /\ state \in States
    /\ wrapper \in WrapperType
    /\ events \in 0..MaxEvents

\* The wrapper will not restart Java once it has read all its frames in order.
LastIsDisable(frames) == frames[Len(frames)] = "disable"
Disabled ==
    IF chan.new # <<>> THEN LastIsDisable(chan.new)
    ELSE IF chan.old # <<>> THEN LastIsDisable(chan.old)
    ELSE wrapper.off

\* A scan that looks at the circuit again after its disable, and a release that has
\* opened the circuit and not sent its enable.
WillRecheck == scan.pc \in {"persist", "record", "disarm", "recheck", "rearm"}
Releasing(s) == spc[s] \in {"unpersist", "restore", "rearm"}
WillEnable == WillRecheck \/ \E s \in Starters : Releasing(s)

\* No frame is on its way to a wrapper that is gone.
GoneInv == ~wrapper.up => chan = NoFrames /\ ~wrapper.off

\* The file is removed while the circuit is closed and written while it is broken, or
\* the two have crossed.
CrossInv ==
    /\ \A s \in Starters : spc[s] = "unpersist" => ~broken \/ "missing" \in lapses
    /\ scan.pc = "persist" => broken \/ "stale" \in lapses

FollowInv == wrapper.up /\ ~broken /\ ~astray => ~Disabled \/ WillEnable

IInv ==
    /\ PlaceInv /\ ChannelInv /\ DataInv
    /\ GoneInv /\ CrossInv /\ FileFollows /\ FollowInv

-----------------------------------------------------------------------------
\* Frames join at the end and leave at the head.
LEMMA Appended ==
    ASSUME NEW S, NEW c \in Seq(S), NEW x \in S
    PROVE  /\ Append(c, x) \in Seq(S) /\ Len(Append(c, x)) = Len(c) + 1
           /\ Append(c, x) # <<>> /\ Append(c, x)[Len(Append(c, x))] = x
OBVIOUS

LEMMA Shortened ==
    ASSUME NEW S, NEW c \in Seq(S), c # <<>>
    PROVE  /\ Tail(c) \in Seq(S) /\ Len(Tail(c)) = Len(c) - 1
           /\ Head(c) = c[1] /\ Head(c) \in S /\ Len(c) \in Nat /\ Len(c) >= 1
           /\ Len(c) = 1 => Tail(c) = <<>>
           /\ Len(c) # 1 => Tail(c) # <<>> /\ Tail(c)[Len(Tail(c))] = c[Len(c)]
<1>1. Tail(c) \in Seq(S) /\ Len(Tail(c)) = Len(c) - 1
  OBVIOUS
<1>2. Head(c) = c[1] /\ Head(c) \in S /\ Len(c) \in Nat /\ Len(c) >= 1
  OBVIOUS
<1>3. CASE Len(c) = 1
  <2>1. Len(Tail(c)) = 0
    BY <1>1, <1>2, <1>3
  <2>2. Tail(c) = <<>>
    BY <1>1, <2>1, EmptySeq
  <2> QED BY <1>1, <1>2, <1>3, <2>2
<1>4. CASE Len(c) # 1
  <2>1. Tail(c) # <<>>
    <3>1. Len(Tail(c)) # 0
      BY <1>1, <1>2, <1>4
    <3> QED BY <3>1, EmptySeq
  <2>2. Tail(c)[Len(Tail(c))] = c[Len(c)]
    BY <1>1, <1>2, <1>4
  <2> QED BY <1>1, <1>2, <1>4, <2>1, <2>2
<1> QED BY <1>1, <1>2, <1>3, <1>4

\* Two connections make a channel.
LEMMA Pair ==
    ASSUME NEW S, NEW o \in S, NEW n \in S
    PROVE  /\ [old |-> o, new |-> n] \in [old : S, new : S]
           /\ [old |-> o, new |-> n].old = o /\ [old |-> o, new |-> n].new = n
OBVIOUS

LEMMA Channel ==
    ASSUME NEW o \in Seq(Frames), NEW n \in Seq(Frames), Len(o) <= MaxFrames, Len(n) <= MaxFrames,
           chan' = [old |-> o, new |-> n]
    PROVE  ChannelInv'
<1>1. chan' \in [old : Seq(Frames), new : Seq(Frames)] /\ chan'.old = o /\ chan'.new = n
  BY Pair
<1> QED BY <1>1 DEF ChannelInv

LEMMA Bounds ==
    /\ MaxCrashes \in Nat /\ MaxFrames \in Nat /\ MaxEvents \in Nat
    /\ 0 \in 0..MaxCrashes /\ 0 \in 0..MaxEvents
BY BoundAssumption

LEMMA Wrappers ==
    /\ Running(FALSE) \in WrapperType /\ Gone \in WrapperType
    /\ \A w \in WrapperType, b \in BOOLEAN :
           [w EXCEPT !.java = b] \in WrapperType /\ [w EXCEPT !.off = b] \in WrapperType
BY DEF Running, Gone, WrapperType

LEMMA InitSound == Init => IInv
<1> SUFFICES ASSUME Init PROVE IInv
  OBVIOUS
<1>1. ChannelInv
  BY BoundAssumption DEF Init, ChannelInv, NoFrames
<1>2. DataInv
  BY Bounds, Wrappers DEF Init, DataInv, States, Lapses
<1>3. PlaceInv
  BY DEF Init, PlaceInv, IdleScan, ScanPCs, StartPCs, EditPCs, States
<1>4. GoneInv /\ CrossInv /\ FileFollows /\ FollowInv
  BY DEF Init, GoneInv, CrossInv, FileFollows, FollowInv, Disabled, Running, NoFrames, IdleScan
<1> QED BY <1>1, <1>2, <1>3, <1>4 DEF IInv

\* What a frame does to the last word.
LEMMA SendSound ==
    ASSUME ChannelInv, NEW f \in Frames, Send(f)
    PROVE  /\ ChannelInv'
           /\ ~wrapper.up => chan' = chan
           /\ wrapper.up => chan'.new # <<>> /\ chan'.new[Len(chan'.new)] = f
<1>1. CASE /\ wrapper.up /\ Len(chan.new) < MaxFrames
           /\ chan' = [chan EXCEPT !.new = Append(@, f)]
  <2>1. Len(chan.new) \in Nat /\ MaxFrames \in Nat
    BY BoundAssumption DEF ChannelInv
  <2>2. /\ chan'.new = Append(chan.new, f) /\ chan'.old = chan.old
        /\ chan' = [old |-> chan'.old, new |-> chan'.new]
    BY <1>1 DEF ChannelInv
  <2>3. /\ chan'.new \in Seq(Frames) /\ Len(chan'.new) = Len(chan.new) + 1
        /\ chan'.new # <<>> /\ chan'.new[Len(chan'.new)] = f
    BY <2>2, Appended DEF ChannelInv
  <2>4. chan.old \in Seq(Frames) /\ Len(chan.old) <= MaxFrames /\ Len(chan'.new) <= MaxFrames
    BY <1>1, <2>1, <2>3 DEF ChannelInv
  <2>5. ChannelInv'
    BY <2>2, <2>3, <2>4, Channel
  <2> QED BY <1>1, <2>3, <2>5
<1>2. CASE ~wrapper.up /\ UNCHANGED chan
  BY <1>2 DEF ChannelInv
<1> QED BY <1>1, <1>2 DEF Send

\* What the wrapper reads is the first frame of a connection.
LEMMA TailSound ==
    ASSUME ChannelInv, NEW c \in DOMAIN chan, chan[c] # <<>>,
           chan' = [chan EXCEPT ![c] = Tail(@)]
    PROVE  /\ ChannelInv'
           /\ Head(chan[c]) \in Frames
           /\ \/ chan'[c] = <<>> /\ chan[c][Len(chan[c])] = Head(chan[c])
              \/ chan'[c] # <<>> /\ chan'[c][Len(chan'[c])] = chan[c][Len(chan[c])]
<1>1. c \in {"old", "new"} /\ chan[c] \in Seq(Frames)
  BY DEF ChannelInv
<1>2. chan'[c] = Tail(chan[c]) /\ \A d \in {"old", "new"} : d # c => chan'[d] = chan[d]
  BY <1>1 DEF ChannelInv
<1>3. chan' = [old |-> chan'.old, new |-> chan'.new]
  BY <1>1 DEF ChannelInv
<1>4. /\ chan'[c] \in Seq(Frames) /\ Len(chan'[c]) = Len(chan[c]) - 1 /\ Len(chan[c]) \in Nat
      /\ Head(chan[c]) = chan[c][1] /\ Head(chan[c]) \in Frames
      /\ Len(chan[c]) = 1 => chan'[c] = <<>>
      /\ Len(chan[c]) # 1 => chan'[c] # <<>> /\ chan'[c][Len(chan'[c])] = chan[c][Len(chan[c])]
  BY <1>1, <1>2, Shortened
<1>5. MaxFrames \in Nat /\ Len(chan[c]) <= MaxFrames
  BY <1>1, BoundAssumption DEF ChannelInv
<1>6. ChannelInv'
  <2>1. Len(chan'[c]) <= MaxFrames
    BY <1>4, <1>5
  <2>2. \A d \in {"old", "new"} : chan'[d] \in Seq(Frames) /\ Len(chan'[d]) <= MaxFrames
    BY <1>2, <1>4, <2>1 DEF ChannelInv
  <2> QED BY <1>3, <2>2, Channel
<1> QED BY <1>4, <1>6

\* Empty connections, and a connection that becomes the old one.
LEMMA ShiftSound ==
    ASSUME ChannelInv, \/ chan' = NoFrames
                       \/ chan' = [chan EXCEPT !.old = <<>>]
                       \/ \E c \in DOMAIN chan : chan' = [old |-> chan[c], new |-> <<>>]
    PROVE  ChannelInv'
<1>1. <<>> \in Seq(Frames) /\ Len(<<>>) <= MaxFrames
  BY BoundAssumption
<1>2. \A c \in DOMAIN chan : chan[c] \in Seq(Frames) /\ Len(chan[c]) <= MaxFrames
  BY DEF ChannelInv
<1>3. CASE chan' = NoFrames
  BY <1>1, <1>3, Channel DEF NoFrames
<1>4. CASE chan' = [chan EXCEPT !.old = <<>>]
  <2>1. chan' = [old |-> <<>>, new |-> chan.new] /\ "new" \in DOMAIN chan
    BY <1>4 DEF ChannelInv
  <2> QED BY <1>1, <1>2, <2>1, Channel
<1>5. ASSUME NEW c \in DOMAIN chan, chan' = [old |-> chan[c], new |-> <<>>] PROVE ChannelInv'
  BY <1>1, <1>2, <1>5, Channel
<1> QED BY <1>3, <1>4, <1>5

-----------------------------------------------------------------------------
\* Types

LEMMA ChannelStep == ASSUME ChannelInv, [Next]_vars PROVE ChannelInv'
<1>1. CASE UNCHANGED chan
  BY <1>1 DEF ChannelInv
<1>2. CASE \/ chan' = NoFrames
           \/ chan' = [chan EXCEPT !.old = <<>>]
           \/ \E c \in DOMAIN chan : chan' = [old |-> chan[c], new |-> <<>>]
  BY <1>2, ShiftSound
<1>3. CASE Reads
  BY <1>3, TailSound DEF Reads, WrapperReads
<1>4. CASE Disarm \/ ScanRearm \/ \E s \in Starters : ReleaseRearm(s)
  BY <1>4, SendSound DEF Disarm, ScanRearm, ReleaseRearm, Frames
<1>5. CASE Scanner
  BY <1>1, <1>4, <1>5 DEF Scanner, ScanBegin, ScanCheck, ScanCount, ScanEvidence, Break, Persist,
     Record, Recheck
<1>6. ASSUME NEW s \in Starters, StartInstance(s) \/ Starter(s) PROVE ChannelInv'
  BY <1>1, <1>4, <1>6 DEF StartInstance, Starter, Release, ReleaseRunning, ReleasePeek, Unpersist,
     Restore, Start
<1>7. CASE WrapperSteps \/ Environment
  <2>1. CASE WorkerRestart
    <3>1. \A q : [NoFrames EXCEPT !.old = q] = [old |-> q, new |-> <<>>]
      BY DEF NoFrames
    <3> QED BY <1>2, <2>1, <3>1 DEF WorkerRestart
  <2>2. CASE Redial \/ FramesLost
    <3>1. chan.new = chan["new"] /\ "new" \in DOMAIN chan
      BY DEF ChannelInv
    <3> QED BY <1>2, <2>2, <3>1 DEF Redial, FramesLost
  <2> QED BY <1>1, <1>2, <1>3, <1>7, <2>1, <2>2 DEF WrapperSteps, Environment,
         WrapperRestartsJava, WrapperEnds, JavaCrashes, WindowSlides, Reap, Stop
<1>8. ASSUME NEW e \in Editors, Edit(e) PROVE ChannelInv'
  BY <1>1, <1>8 DEF Edit, EditRead, EditWrite
<1>9. CASE UNCHANGED vars
  BY <1>1, <1>9 DEF vars
<1> QED BY <1>5, <1>6, <1>7, <1>8, <1>9 DEF Next

LEMMA PlaceStep == ASSUME PlaceInv, DataInv, [Next]_vars PROVE PlaceInv'
<1> USE DEF PlaceInv
<1>1. CASE UNCHANGED <<scan, spc, epc>>
  BY <1>1
<1>2. CASE Scanner
  <2>1. ASSUME NEW from, NEW to \in ScanPCs, ScanGoes(from, to) PROVE PlaceInv'
    BY <2>1 DEF ScanGoes, IdleScan, ScanPCs, States
  <2>2. CASE ScanBegin \/ ScanEvidence
    <3> DEFINE force == ~(scan.state = "RUNNING" /\ wrapper.up)
    <3>1. force \in BOOLEAN
      OBVIOUS
    <3>2. CASE scan' = [IdleScan EXCEPT !.pc = "break", !.force = force]
      <4>1. scan' \in [pc : ScanPCs, state : States, autoRestart : BOOLEAN, force : BOOLEAN]
        <5> HIDE DEF force
        <5> QED BY <3>1, <3>2 DEF IdleScan, ScanPCs, States
      <4> QED BY <2>2, <4>1 DEF ScanBegin, ScanEvidence
    <3>3. CASE ScanBegin
      BY <3>3 DEF ScanBegin, DataInv, ScanPCs
    <3> QED BY <2>2, <3>2, <3>3 DEF ScanEvidence
  <2>3. CASE ScanCheck \/ ScanCount \/ Break \/ Persist
    BY <2>1, <2>3 DEF ScanCheck, ScanCount, Break, Persist, ScanPCs
  <2>4. CASE Record \/ Disarm \/ Recheck \/ ScanRearm
    BY <2>1, <2>4 DEF Record, Disarm, Recheck, ScanRearm, ScanPCs
  <2> QED BY <1>2, <2>2, <2>3, <2>4 DEF Scanner
<1>3. ASSUME NEW s \in Starters, StartInstance(s) \/ Starter(s) PROVE PlaceInv'
  <2>1. ASSUME NEW from, NEW to \in StartPCs, StartGoes(s, from, to) PROVE PlaceInv'
    BY <2>1 DEF StartGoes
  <2> QED BY <1>3, <2>1 DEF StartInstance, Starter, Release, ReleaseRunning, ReleasePeek,
         Unpersist, Restore, ReleaseRearm, Start, StartPCs
<1>4. CASE WorkerRestart
  BY <1>4 DEF WorkerRestart, IdleScan, ScanPCs, StartPCs, EditPCs, States
<1>5. CASE WrapperSteps \/ Environment
  BY <1>1, <1>4, <1>5 DEF WrapperSteps, Environment, Reads, WrapperReads, WrapperRestartsJava,
     WrapperEnds, Redial, FramesLost, JavaCrashes, WindowSlides, Reap, Stop, threads
<1>6. ASSUME NEW e \in Editors, Edit(e) PROVE PlaceInv'
  BY <1>6 DEF Edit, EditRead, EditWrite, EditPCs
<1>7. CASE UNCHANGED vars
  BY <1>1, <1>7 DEF vars
<1> QED BY <1>2, <1>3, <1>5, <1>6, <1>7 DEF Next

LEMMA DataStep == ASSUME DataInv, [Next]_vars PROVE DataInv'
<1> USE Bounds, Wrappers DEF DataInv, Lapses, circuit, threads, history
<1>1. CASE Scanner
  <2>1. CASE ScanBegin \/ ScanEvidence
    BY <2>1 DEF ScanBegin, ScanEvidence
  <2>2. CASE ScanCheck \/ ScanCount \/ Recheck \/ Disarm \/ ScanRearm
    BY <2>2 DEF ScanCheck, ScanCount, Recheck, Disarm, ScanRearm, ScanGoes
  <2>3. CASE Break
    BY <2>3 DEF Break, NoteBreak, ScanGoes
  <2>4. CASE Persist \/ Record
    BY <2>4 DEF Persist, Record, ScanGoes, States
  <2> QED BY <1>1, <2>1, <2>2, <2>3, <2>4 DEF Scanner
<1>2. ASSUME NEW s \in Starters, StartInstance(s) \/ Starter(s) PROVE DataInv'
  <2>1. CASE StartInstance(s)
    BY <2>1 DEF StartInstance, StartGoes
  <2>2. CASE ReleaseRunning(s) \/ ReleasePeek(s) \/ ReleaseRearm(s)
    BY <2>2 DEF ReleaseRunning, ReleasePeek, ReleaseRearm, StartGoes
  <2>3. CASE Release(s) \/ Unpersist(s) \/ Restore(s)
    BY <2>3 DEF Release, Unpersist, Restore, StartGoes
  <2>4. CASE Start(s)
    BY <2>4 DEF Start, StartGoes, States
  <2> QED BY <1>2, <2>1, <2>2, <2>3, <2>4 DEF Starter
<1>3. ASSUME NEW e \in Editors, Edit(e) PROVE DataInv'
  <2>1. ASSUME NEW value \in BOOLEAN, EditRead(e, value) PROVE DataInv'
    BY <2>1 DEF EditRead
  <2>2. CASE EditWrite(e)
    BY <2>2 DEF EditWrite
  <2> QED BY <1>3, <2>1, <2>2 DEF Edit
<1>4. CASE WrapperSteps
  BY <1>4 DEF WrapperSteps, Reads, WrapperReads, WrapperRestartsJava, WrapperEnds
<1>5. CASE Environment
  <2>1. CASE WorkerRestart
    <3>1. broken' \in BOOLEAN /\ astray' \in BOOLEAN /\ events' \in 0..MaxEvents
      BY <2>1 DEF WorkerRestart
    <3>2. autoRestart' \in BOOLEAN /\ file' \in BOOLEAN /\ lapses' \subseteq Lapses
      BY <2>1, <3>1 DEF WorkerRestart
    <3> QED BY <2>1, <3>1, <3>2 DEF WorkerRestart, States
  <2>2. CASE Redial \/ FramesLost
    BY <2>2 DEF Redial, FramesLost
  <2>3. CASE JavaCrashes
    <3>1. crashes' \in 0..MaxCrashes
      BY <2>3 DEF JavaCrashes
    <3> QED BY <2>3, <3>1 DEF JavaCrashes
  <2>4. CASE WindowSlides
    BY <2>4 DEF WindowSlides
  <2>5. CASE Reap \/ Stop
    BY <2>5 DEF Reap, Stop, States
  <2> QED BY <1>5, <2>1, <2>2, <2>3, <2>4, <2>5 DEF Environment
<1>6. CASE UNCHANGED vars
  BY <1>6 DEF vars
<1> QED BY <1>1, <1>2, <1>3, <1>4, <1>5, <1>6 DEF Next

-----------------------------------------------------------------------------
\* The other parts, one action at a time

Parts == GoneInv /\ CrossInv /\ FileFollows /\ FollowInv

LEMMA ScannerStep == ASSUME IInv, Scanner PROVE Parts'
<1> USE DEF IInv, Parts, GoneInv, CrossInv, FileFollows, FollowInv, circuit, history,
        WillEnable, WillRecheck, Releasing
<1>1. ASSUME NEW from, NEW to, ScanGoes(from, to)
      PROVE scan.pc = from /\ scan'.pc = to /\ UNCHANGED <<spc, wrapper, astray>>
  BY <1>1 DEF ScanGoes, PlaceInv, IdleScan
<1>2. CASE ScanBegin \/ ScanEvidence
  <2>1. /\ scan.pc \in {"idle", "evidence"} /\ scan'.pc \in {"check", "break"}
        /\ UNCHANGED <<circuit, spc, wrapper, chan, history>>
    <3>1. CASE ScanBegin
      BY <3>1 DEF ScanBegin
    <3>2. CASE ScanEvidence
      <4> DEFINE force == ~(scan.state = "RUNNING" /\ wrapper.up)
      <4>1. scan' = [IdleScan EXCEPT !.pc = "break", !.force = force]
        BY <3>2 DEF ScanEvidence
      <4>2. scan'.pc = "break"
        <5> HIDE DEF force
        <5> QED BY <4>1 DEF IdleScan
      <4> QED BY <3>2, <4>2 DEF ScanEvidence
    <3> QED BY <1>2, <3>1, <3>2
  <2> QED BY <2>1 DEF Disabled
<1>3. CASE ScanCheck \/ ScanCount \/ Recheck
  BY <1>3, <1>1 DEF ScanCheck, ScanCount, Recheck, Disabled
<1>4. CASE Break
  <2>1. /\ scan.pc = "break" /\ scan'.pc = IF broken THEN "idle" ELSE "persist"
        /\ broken' /\ UNCHANGED <<file, spc, wrapper, chan, astray>>
        /\ broken => lapses' = lapses
        /\ ~broken => \A s \in Starters : spc[s] = "unpersist" => "missing" \in lapses'
    BY <1>4, <1>1 DEF Break, NoteBreak
  <2> QED BY <2>1 DEF Disabled
<1>5. CASE Persist \/ Record
  BY <1>5, <1>1 DEF Persist, Record, Disabled
<1>6. CASE Disarm
  BY <1>6, <1>1, SendSound DEF Disarm, Frames
<1>7. CASE ScanRearm
  <2>1. /\ scan.pc = "rearm" /\ scan'.pc = "idle" /\ Send("enable")
        /\ UNCHANGED <<circuit, spc, wrapper, lapses, astray>>
    BY <1>7, <1>1 DEF ScanRearm
  <2>2. /\ ~wrapper.up => chan' = chan
        /\ wrapper.up => chan'.new # <<>> /\ ~LastIsDisable(chan'.new)
    BY <2>1, SendSound DEF Frames, LastIsDisable
  <2> QED BY <2>1, <2>2 DEF Disabled
<1> QED BY <1>2, <1>3, <1>4, <1>5, <1>6, <1>7 DEF Scanner

LEMMA StarterStep ==
    ASSUME IInv, NEW s \in Starters, StartInstance(s) \/ Starter(s)
    PROVE  Parts'
<1> USE DEF IInv, Parts, GoneInv, CrossInv, FileFollows, FollowInv, circuit, history,
        WillEnable, WillRecheck, Releasing
<1>1. ASSUME NEW from, NEW to, StartGoes(s, from, to)
      PROVE /\ spc[s] = from /\ \A t \in Starters : spc'[t] = IF t = s THEN to ELSE spc[t]
            /\ UNCHANGED scan
  BY <1>1 DEF StartGoes, PlaceInv
<1>2. CASE StartInstance(s) \/ ReleaseRunning(s) \/ ReleasePeek(s)
  BY <1>2, <1>1 DEF StartInstance, ReleaseRunning, ReleasePeek, Disabled
<1>3. CASE Release(s)
  BY <1>3, <1>1 DEF Release, Disabled
<1>4. CASE Unpersist(s)
  <2>1. /\ spc[s] = "unpersist" /\ \A t \in Starters : spc'[t] = IF t = s THEN "restore" ELSE spc[t]
        /\ UNCHANGED <<scan, broken, wrapper, chan, astray>>
        /\ \/ ~file' /\ lapses' = lapses
           \/ file' = file /\ lapses' = lapses \cup {"stale"}
    BY <1>4, <1>1 DEF Unpersist
  <2> QED BY <2>1 DEF Disabled
<1>7. CASE Restore(s)
  BY <1>7, <1>1 DEF Restore, Disabled
<1>5. CASE ReleaseRearm(s)
  <2>1. /\ spc[s] = "rearm" /\ \A t \in Starters : spc'[t] = IF t = s THEN "start" ELSE spc[t]
        /\ Send("enable") /\ UNCHANGED <<circuit, scan, wrapper, lapses>>
    BY <1>5, <1>1 DEF ReleaseRearm
  <2>2. /\ ~wrapper.up => chan' = chan
        /\ wrapper.up => chan'.new # <<>> /\ ~LastIsDisable(chan'.new)
    BY <2>1, SendSound DEF Frames, LastIsDisable
  <2> QED BY <2>1, <2>2 DEF Disabled
<1>6. CASE Start(s)
  BY <1>6, <1>1 DEF Start, Running, NoFrames, Disabled
<1> QED BY <1>2, <1>3, <1>4, <1>5, <1>6, <1>7 DEF Starter

LEMMA RestStep ==
    ASSUME IInv, \/ WrapperSteps \/ Environment \/ (\E e \in Editors : Edit(e))
                 \/ UNCHANGED vars
    PROVE  Parts'
<1> USE DEF IInv, Parts, GoneInv, CrossInv, FileFollows, FollowInv, circuit, threads,
        history, WillEnable, WillRecheck, Releasing
<1> DEFINE Rest == UNCHANGED <<broken, file, spc, scan, lapses>>
<1>1. CASE Reads
  <2>1. PICK c \in DOMAIN chan : WrapperReads(c)
    BY <1>1 DEF Reads
  <2>2. /\ wrapper.up /\ chan[c] # <<>> /\ chan' = [chan EXCEPT ![c] = Tail(@)]
        /\ wrapper' = [wrapper EXCEPT !.off = (Head(chan[c]) = "disable")] /\ Rest
        /\ astray' <=> \/ astray
                       \/ /\ c = "new" /\ Head(chan.new) = "enable"
                          /\ chan.old # <<>> /\ LastIsDisable(chan.old)
    BY <2>1 DEF WrapperReads, Last, LastIsDisable
  <2>3. wrapper'.up /\ (wrapper'.off <=> Head(chan[c]) = "disable")
    BY <2>2 DEF DataInv, WrapperType
  <2>4. GoneInv' /\ CrossInv' /\ FileFollows'
    BY <2>2, <2>3
  <2>5. /\ Head(chan[c]) \in Frames
        /\ \/ chan'[c] = <<>> /\ chan[c][Len(chan[c])] = Head(chan[c])
           \/ chan'[c] # <<>> /\ chan'[c][Len(chan'[c])] = chan[c][Len(chan[c])]
    BY <2>2, TailSound
  <2>6. c \in {"old", "new"} /\ \A d \in {"old", "new"} : d # c => chan'[d] = chan[d]
    BY <2>2 DEF ChannelInv
  <2>7. ~Disabled /\ ~astray' => ~Disabled'
    <3>1. CASE c = "old"
      BY <2>2, <2>3, <2>5, <2>6, <3>1 DEF Disabled, LastIsDisable
    <3>2. CASE c = "new"
      BY <2>2, <2>3, <2>5, <2>6, <3>2 DEF Disabled, LastIsDisable, Frames
    <3> QED BY <2>6, <3>1, <3>2
  <2> QED BY <2>2, <2>4, <2>7
<1>7. CASE Redial
  <2>1. chan.old = <<>> /\ chan.new # <<>> /\ chan'.old = chan.new /\ chan'.new = <<>>
    BY <1>7 DEF Redial
  <2>2. Rest /\ UNCHANGED <<wrapper, astray>> /\ wrapper.up
    BY <1>7 DEF Redial
  <2>3. Disabled' = Disabled
    BY <2>1, <2>2 DEF Disabled, LastIsDisable
  <2> QED BY <2>2, <2>3
<1>8. CASE FramesLost
  <2>1. /\ chan.old # <<>> /\ chan'.old = <<>> /\ chan'.new = chan.new
        /\ astray' <=> astray \/ chan.old[Len(chan.old)] = "enable"
    BY <1>8 DEF FramesLost, ChannelInv, Last
  <2>2. Rest /\ UNCHANGED wrapper
    BY <1>8 DEF FramesLost
  <2>3. wrapper.up
    BY <2>1 DEF NoFrames
  <2>4. chan.old[Len(chan.old)] \in Frames
    <3>1. chan.old \in Seq(Frames) /\ Len(chan.old) \in Nat
      BY DEF ChannelInv
    <3>2. Len(chan.old) # 0
      BY <2>1, <3>1, EmptySeq
    <3> QED BY <3>1, <3>2
  <2>5. ~Disabled /\ ~astray' => ~Disabled'
    BY <2>1, <2>2, <2>4 DEF Disabled, LastIsDisable, Frames
  <2> QED BY <2>1, <2>2, <2>3, <2>5
<1>2. CASE WrapperRestartsJava \/ WrapperEnds
  BY <1>2 DEF WrapperRestartsJava, WrapperEnds, Gone, NoFrames, Disabled, DataInv, WrapperType
<1>3. CASE JavaCrashes \/ WindowSlides \/ Reap \/ Stop
  BY <1>3 DEF JavaCrashes, WindowSlides, Reap, Stop, Gone, NoFrames, Disabled, DataInv, WrapperType
<1>4. CASE WorkerRestart
  <2>1. /\ broken' = (wrapper.up /\ file) /\ file' \in {broken', file}
        /\ lapses' = {l \in {"stale"} : file' # broken'}
        /\ scan'.pc = (IF broken' THEN "disarm" ELSE "idle") /\ UNCHANGED wrapper
        /\ \A s \in Starters : spc'[s] = "idle"
        /\ chan' \in {NoFrames} \cup {[NoFrames EXCEPT !.old = chan[c]] : c \in DOMAIN chan}
    BY <1>4 DEF WorkerRestart, IdleScan
  <2>2. CrossInv' /\ FileFollows'
    BY <2>1 DEF DataInv
  <2>3. GoneInv'
    <3>1. ASSUME chan = NoFrames PROVE chan' = NoFrames
      BY <2>1, <3>1 DEF NoFrames
    <3> QED BY <2>1, <3>1
  <2>4. CASE astray'
    BY <2>2, <2>3, <2>4
  <2>5. CASE ~astray'
    <3>1. /\ ~astray /\ chan = NoFrames /\ scan.pc = "idle" /\ (broken => file)
          /\ \A s \in Starters : spc[s] = "idle"
      BY <1>4, <2>5 DEF WorkerRestart
    <3>2. chan' = NoFrames
      BY <2>1, <3>1 DEF NoFrames
    <3>3. Disabled' = Disabled
      BY <2>1, <3>1, <3>2 DEF Disabled
    <3> QED BY <2>1, <2>2, <2>3, <3>1, <3>3
  <2> QED BY <2>4, <2>5
<1>5. ASSUME NEW e \in Editors, Edit(e) PROVE Parts'
  BY <1>5 DEF Edit, EditRead, EditWrite, Disabled
<1>6. CASE UNCHANGED vars
  BY <1>6 DEF vars, Disabled
<1> QED BY <1>1, <1>2, <1>3, <1>4, <1>5, <1>6, <1>7, <1>8 DEF WrapperSteps, Environment

LEMMA NextSound == IInv /\ [Next]_vars => IInv'
BY PlaceStep, ChannelStep, DataStep, ScannerStep, StarterStep, RestStep DEF IInv, Parts, Next

-----------------------------------------------------------------------------
\* The invariant is inductive: the last word to the wrapper and the file follow the
\* circuit, or someone has yet to make them, or something went astray.
THEOREM CircuitInductive == Spec => []IInv
BY InitSound, NextSound, PTL DEF Spec

\* Every variable keeps its type, for any handlers and any bounds.
THEOREM CircuitTypeCorrect == Spec => []TypeOK
<1>1. IInv => TypeOK
  BY DEF IInv, PlaceInv, ChannelInv, DataInv, WrapperType, TypeOK
<1> QED BY <1>1, CircuitInductive, PTL

\* The file is there for a broken circuit and for no other, however many releases race
\* with the scan: only a failed write or removal, and a break and a release that cross
\* between memory and disk, part the two, until the circuit breaks or is released again.
THEOREM FileFollowsHolds == Spec => []FileFollows
<1>1. IInv => FileFollows
  BY DEF IInv
<1> QED BY <1>1, CircuitInductive, PTL

\* With everything at rest and the circuit closed the wrapper may restart Java, unless,
\* since the last enable of a StartInstance, an enable got lost or overtook a disable of
\* an earlier connection, or a Worker restart cut something short.
THEOREM WrapperFollowsHolds == Spec => []WrapperFollows
<1>1. IInv => WrapperFollows
  BY DEF IInv, FollowInv, WrapperFollows, Quiet, NoFrames, Disabled, WillEnable, WillRecheck,
         Releasing
<1> QED BY <1>1, CircuitInductive, PTL
=============================================================================
