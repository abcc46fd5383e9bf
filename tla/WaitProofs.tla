------------------------------ MODULE WaitProofs ------------------------------
(***************************************************************************)
(* What holds of the modes without a wrapper for any numbers of requests,  *)
(* processes, edits and broken circuits.  The loops decide beside the      *)
(* gate; the invariant says what a loop and the operation that holds the   *)
(* gate may rely on about each other: which strategies are out of use and  *)
(* bear the mark of a stop, which process is the latest and who answers    *)
(* for it, and which loops had passed the circuit when it broke.           *)
(***************************************************************************)
EXTENDS WaitLoop, TLAPS

\* TypeOK in two parts: the manager, and the strategies with their processes.
OpType == [by : {"free", "operator", "loop"}, kind : Kinds, pc : PCs, old : States,
           str : Strats \cup {0}, cmd : Procs \cup {0}]
InstType == [state : States, strategy : Strats \cup {0}, stale : BOOLEAN, auto : BOOLEAN]
FlagType ==
    /\ mode \in Modes /\ scan \in {"idle", "keep", "force"}
    /\ broken \in BOOLEAN /\ window \in BOOLEAN /\ panicked \in BOOLEAN
    /\ stopped \in BOOLEAN /\ overlap \in BOOLEAN /\ misforced \in BOOLEAN
    /\ asleep \subseteq Procs /\ edited \subseteq Strats
    /\ requests \in 0..MaxRequests /\ edits \in 0..MaxEdits /\ breaks \in 0..MaxBreaks
ManagerType == op \in OpType /\ inst \in InstType /\ FlagType

StratType == [st : States, cmd : Procs \cup {0}, auto : BOOLEAN]
ProcType ==
    /\ strat \in [Strats -> StratType] /\ spawned \in 0..MaxProcs
    /\ proc \in [Procs -> {"none", "alive", "told", "dead"}]
    /\ host \in [Procs -> Strats \cup {0}] /\ loop \in [Procs -> LoopPCs]
    /\ felled \subseteq Procs /\ adrift \subseteq Procs

\* The operation is at one of the places.
In(pcs) == op.by # "free" /\ op.pc \in pcs

\* The mark that a stop or a kill leaves on a strategy, and that no loop takes away.
Marked(s) == strat[s].st \in {"STOPPING", "STOPPED"}

\* A strategy is built when the last one was taken away, by a kill or an edit.
CountInv ==
    /\ built \in Nat
    /\ built + (IF inst.strategy = 0 \/ inst.stale THEN 1 ELSE 0) + (IF In({"kill"}) THEN 1 ELSE 0)
           <= requests + edits + 1

\* What an operation has in its hands at each place.
OpInv ==
    /\ op.by = "loop" => /\ op.pc \in {"start", "launch", "fail", "cas"}
                         /\ op.kind = "start" /\ op.cmd \in Procs
    /\ In({"launch", "halt", "signal", "drain", "stopped", "mark", "fell"}) => op.str \in 1..built
    /\ In({"signal", "drain", "fell"}) => op.cmd \in 1..spawned /\ host[op.cmd] = op.str
    /\ In({"launch"}) => ~stopped /\ (op.str = inst.strategy \/ op.str \in edited)
    /\ In({"halt", "signal", "drain", "stopped"}) => inst.strategy \in {0, op.str}
    /\ In({"mark", "fell", "killed"}) => inst.strategy = 0
    /\ In({"signal", "drain", "stopped"}) => Marked(op.str)
    /\ In({"launch", "undo", "fail", "halt", "signal", "drain", "stopped"}) =>
           inst.state # "RUNNING"
    /\ In({"launch"}) => op.old \in {"STOPPED", "CRASHED"}
    /\ In({"undo"}) => op.old \in {"STOPPED", "CRASHED"}

\* A process that is alive, and no call to Docker about it has failed.
Kept(p) == proc[p] = "alive" /\ p \notin adrift

\* The processes and loops launched so far, each of its strategy, and what a loop knows.
HostInv ==
    /\ inst.strategy \in 0..built
    /\ inst.stale => inst.strategy # 0 /\ inst.strategy \in edited
    /\ \A s \in Strats : strat[s].cmd # 0 => strat[s].cmd \in 1..spawned /\ host[strat[s].cmd] = s
    /\ \A p \in 1..spawned : host[p] \in 1..built /\ proc[p] # "none"
    /\ \A p \in Procs : p > spawned => proc[p] = "none" /\ loop[p] = "none"
    /\ \A p \in Procs : Kept(p) => loop[p] \in {"begin", "wait"}

\* A strategy that was replaced has been edited away or bears the mark of a kill; after a
\* stop all of them do.
RetiredInv ==
    /\ \A s \in 1..built : \/ s = inst.strategy \/ s \in edited \/ Marked(s)
                           \/ In({"mark"}) /\ op.str = s
    /\ stopped => \A s \in 1..built : s \in edited \/ Marked(s)

\* What was killed belongs to a marked strategy that will not be started again.
FelledInv ==
    \A p \in Procs : p \in felled \/ (In({"fell"}) /\ op.cmd = p) =>
        /\ p \in 1..spawned
        /\ host[p] \in 1..built /\ host[p] # inst.strategy /\ Marked(host[p])
        /\ In({"launch"}) => op.str # host[p]

\* Nobody but the latest loop has still to report, unless a start overtook one.
ReportInv ==
    ~overlap => \A p \in Procs : Unreported(p) => p = spawned /\ ~In({"launch", "undo", "fail"})

\* Somebody answers for a process that is alive.
Tended(p) ==
    \/ inst.state = "RUNNING" /\ inst.strategy # 0 /\ strat[inst.strategy].cmd = p
    \/ In({"cas"}) /\ inst.state = "STARTING" /\ inst.strategy # 0 /\ strat[inst.strategy].cmd = p
    \/ In({"halt", "mark"}) /\ strat[op.str].cmd = p
    \/ In({"signal", "fell"}) /\ op.cmd = p

TendedInv ==
    ~overlap /\ ~misforced =>
        /\ In({"launch"}) => inst.state = "STARTING" /\ inst.strategy = op.str
        /\ \A p \in Procs : Kept(p) => Tended(p)

\* A loop that may still restart under a broken circuit had passed it before.
Passed(p) == loop[p] \in {"sleep", "start"}
             \/ (op.by = "loop" /\ op.pc \in {"start", "launch"} /\ op.cmd = p)
BrokenInv == broken => \A p \in Procs : Passed(p) => p \in asleep

IInv == /\ ManagerType /\ ProcType /\ CountInv /\ OpInv /\ HostInv /\ RetiredInv
        /\ FelledInv /\ ReportInv /\ TendedInv /\ BrokenInv
-----------------------------------------------------------------------------
LEMMA Bounds ==
    /\ MaxRequests \in Nat /\ MaxProcs \in Nat /\ MaxEdits \in Nat /\ MaxBreaks \in Nat
    /\ Procs = 1..MaxProcs /\ Strats = 1..(MaxRequests + MaxEdits + 1)
BY BoundAssumption DEF Procs, Strats

\* The strategies built are strategies.
LEMMA Built == IInv => \A s \in 1..built : s \in Strats
BY Bounds DEF IInv, CountInv, ManagerType, FlagType

\* A process that is alive belongs to a loop that has still to report.
LEMMA AliveUnreported ==
    IInv => \A p \in Procs : Kept(p) => Unreported(p)
BY DEF IInv, HostInv, Unreported

LEMMA TakeStep == ASSUME IInv, NEW kind \in Kinds, Take(kind) PROVE IInv'
<1>1. /\ op.by = "free" /\ op'.by = "operator" /\ op'.pc \in {"start", "stop", "kill"}
      /\ requests' \in 0..MaxRequests /\ requests' = requests + 1 /\ requests \in Nat
      /\ UNCHANGED <<book, inst, strat, built, procs, loop, memory>>
  BY Bounds DEF Take, Entry, Kinds, IInv, ManagerType, FlagType
<1>2. op' \in OpType
  BY DEF Take, Entry, Free, OpType, Kinds, PCs, States
<1> USE DEF IInv, In, book, procs, memory
<1>3. ManagerType' /\ ProcType'
  BY <1>1, <1>2 DEF ManagerType, FlagType, ProcType
<1>4. CountInv'
  BY <1>1, Bounds DEF CountInv, ManagerType, FlagType
<1>5. OpInv' /\ HostInv'
  BY <1>1 DEF OpInv, HostInv, Kept, Marked
<1>6. RetiredInv' /\ FelledInv' /\ ReportInv'
  BY <1>1 DEF RetiredInv, FelledInv, ReportInv, Marked, Unreported
<1>7. TendedInv'
  BY <1>1 DEF TendedInv, Kept, Tended
<1>8. BrokenInv'
  BY <1>1 DEF BrokenInv, Passed
<1> QED BY <1>3, <1>4, <1>5, <1>6, <1>7, <1>8

LEMMA AutoTakeStep == ASSUME IInv, NEW p \in Procs, AutoTake(p) PROVE IInv'
<1> USE Bounds DEF IInv, AutoTake, Free, book, procs, counters, memory
<1>1. ManagerType'
  <2>1. op' \in OpType
    BY DEF OpType, Kinds, PCs, States
  <2>2. inst' \in InstType
    BY DEF ManagerType
  <2>3. FlagType'
    BY DEF ManagerType, FlagType, In, At, Goto
  <2> QED BY <2>1, <2>2, <2>3 DEF ManagerType
<1>2. ProcType'
  BY DEF ProcType, LoopPCs
<1>3. CountInv'
  BY DEF CountInv, In
<1>4. OpInv'
  BY DEF OpInv, In
<1>5. HostInv'
  BY DEF HostInv, Kept
<1>6. RetiredInv'
  BY DEF RetiredInv, Marked, In
<1>7. FelledInv'
  BY DEF FelledInv, Marked, In
<1>8. ReportInv'
  BY DEF ReportInv, Unreported, In
<1>9. TendedInv'
  BY DEF TendedInv, Tended, Kept, In
<1>10. BrokenInv'
  BY DEF BrokenInv, Passed
<1> QED BY <1>1, <1>2, <1>3, <1>4, <1>5, <1>6, <1>7, <1>8, <1>9, <1>10

LEMMA RefusedStep == ASSUME IInv, StartRefused PROVE IInv'
<1> USE Bounds DEF IInv, StartRefused, Free, book, procs, counters, memory
<1>1. ManagerType'
  BY DEF ManagerType, FlagType, OpType, Kinds, PCs, States
<1>2. ProcType'
  BY DEF ProcType
<1>3. CountInv'
  BY DEF CountInv, In, At
<1>4. OpInv'
  BY DEF OpInv, In
<1>5. HostInv'
  BY DEF HostInv, Kept
<1>6. RetiredInv'
  BY DEF RetiredInv, Marked, In, At
<1>7. FelledInv'
  BY DEF FelledInv, Marked
<1>8. ReportInv'
  BY DEF ReportInv, Unreported, In
<1>9. TendedInv'
  BY DEF TendedInv, Tended, Kept, In, At
<1>10. BrokenInv'
  BY DEF BrokenInv, Passed
<1> QED BY <1>1, <1>2, <1>3, <1>4, <1>5, <1>6, <1>7, <1>8, <1>9, <1>10

LEMMA BuildStep == ASSUME IInv, Build PROVE IInv'
<1> DEFINE fresh == inst.strategy = 0 \/ inst.stale
           s == IF fresh THEN built + 1 ELSE inst.strategy
<1>1. /\ built \in Nat /\ inst.strategy \in 0..built
      /\ (fresh => built + 1 <= requests + edits + 1) /\ built <= requests + edits + 1
      /\ requests \in 0..MaxRequests /\ edits \in 0..MaxEdits
      /\ inst.stale \in BOOLEAN /\ inst.auto \in BOOLEAN /\ inst \in InstType /\ op \in OpType
  <2>1. inst.stale \in BOOLEAN /\ inst.auto \in BOOLEAN /\ inst \in InstType /\ op \in OpType
    BY DEF IInv, ManagerType, InstType
  <2>2. requests \in 0..MaxRequests /\ edits \in 0..MaxEdits
    BY DEF IInv, ManagerType, FlagType
  <2>3. built \in Nat /\ inst.strategy \in 0..built
    BY DEF IInv, CountInv, HostInv
  <2>4. (fresh => built + 1 <= requests + edits + 1) /\ built <= requests + edits + 1
    BY <2>2, <2>3, Bounds DEF IInv, CountInv
  <2> QED BY <2>1, <2>2, <2>3, <2>4
<1>2. /\ s \in Strats /\ s # 0 /\ s \in 1..built' /\ built' \in Nat /\ built <= built'
      /\ fresh => s = built + 1 /\ built' = built + 1
      /\ ~fresh => s = inst.strategy /\ built' = built
  BY <1>1, Bounds DEF Build, IInv, ManagerType, InstType
<1>3. /\ op.by # "free" /\ op.pc = "start" /\ inst.state \in {"STOPPED", "CRASHED"}
      /\ op' = [op EXCEPT !.pc = "launch", !.old = inst.state, !.str = s]
      /\ inst' = [inst EXCEPT !.state = "STARTING", !.strategy = s, !.stale = FALSE]
      /\ strat' = IF fresh THEN [strat EXCEPT ![s].auto = inst.auto] ELSE strat
      /\ stopped' = FALSE /\ overlap' = (overlap \/ \E p \in Procs : Unreported(p))
      /\ UNCHANGED <<book, procs, loop, requests, window>>
  BY DEF Build, At
<1> HIDE DEF s, fresh
<1>4. /\ op' \in OpType /\ op'.by = op.by /\ op'.kind = op.kind /\ op'.pc = "launch"
      /\ op'.old = inst.state /\ op'.str = s /\ op'.cmd = op.cmd
  BY <1>1, <1>2, <1>3 DEF OpType, PCs, States
<1>5. /\ inst' \in InstType /\ inst'.state = "STARTING" /\ inst'.strategy = s /\ ~inst'.stale
  BY <1>1, <1>2, <1>3 DEF InstType, States
<1>6. /\ strat' \in [Strats -> StratType]
      /\ \A t \in Strats : strat'[t].st = strat[t].st /\ strat'[t].cmd = strat[t].cmd
  BY <1>1, <1>2, <1>3 DEF IInv, ProcType, StratType
<1>7. overlap' \in BOOLEAN /\ (~overlap' => ~overlap /\ \A p \in Procs : ~Unreported(p))
  BY <1>3 DEF IInv, ManagerType, FlagType
<1>8. \A t \in 1..built' : t = s \/ t \in 1..built
  BY <1>1, <1>2
<1>9. \A t \in 1..built' : t \in Strats
  BY <1>1, <1>2, Bounds
<1> USE DEF IInv, In, book, procs
<1>10. ManagerType' /\ ProcType'
  BY <1>3, <1>4, <1>5, <1>6, <1>7 DEF ManagerType, FlagType, ProcType
<1>11. CountInv'
  <2>1. built' <= requests + edits + 1 /\ UNCHANGED <<requests, edits>>
    BY <1>1, <1>2, <1>3
  <2> QED BY <1>1, <1>2, <1>3, <1>4, <1>5, <2>1 DEF CountInv
<1>12. OpInv'
  BY <1>2, <1>3, <1>4, <1>5 DEF OpInv
<1>13. HostInv'
  <2>1. inst'.strategy \in 0..built' /\ ~inst'.stale
    BY <1>2, <1>5
  <2>2. \A p \in 1..spawned : host[p] \in 1..built'
    BY <1>1, <1>2 DEF HostInv
  <2> QED BY <1>3, <1>6, <2>1, <2>2 DEF HostInv, Kept
<1>14. RetiredInv'
  <2> SUFFICES ASSUME NEW t \in 1..built', t # s PROVE t \in edited \/ Marked(t)
    BY <1>3, <1>5, <1>6, <1>9 DEF RetiredInv, Marked
  <2>1. t \in 1..built /\ (t = inst.strategy => inst.stale)
    BY <1>1, <1>2, <1>8 DEF fresh
  <2> QED BY <1>3, <2>1 DEF RetiredInv, HostInv
<1>15. FelledInv'
  <2> SUFFICES ASSUME NEW p \in felled
               PROVE  /\ p \in 1..spawned /\ host[p] \in 1..built' /\ host[p] # s
                      /\ strat'[host[p]].st \in {"STOPPING", "STOPPED"}
    BY <1>3, <1>4, <1>5 DEF FelledInv, Marked
  <2>1. p \in Procs
    BY DEF ProcType
  <2>2. /\ p \in 1..spawned /\ host[p] \in 1..built /\ host[p] # inst.strategy
        /\ Marked(host[p])
    BY <2>1 DEF FelledInv
  <2>3. host[p] \in 1..built' /\ host[p] # s
    BY <1>1, <1>2, <2>2
  <2> QED BY <1>6, <1>9, <2>2, <2>3 DEF Marked
<1>16. ReportInv'
  BY <1>3, <1>7 DEF ReportInv, Unreported
<1>17. TendedInv'
  <2>1. ~overlap' => \A p \in Procs : ~Kept(p)
    BY <1>7, AliveUnreported
  <2> QED BY <1>3, <1>4, <1>5, <2>1 DEF TendedInv, Kept
<1>18. BrokenInv'
  BY <1>3, <1>4 DEF BrokenInv, Passed
<1> QED BY <1>10, <1>11, <1>12, <1>13, <1>14, <1>15, <1>16, <1>17, <1>18

LEMMA LaunchStep == ASSUME IInv, Launch PROVE IInv'
<1> DEFINE s == op.str
           p == spawned + 1
<1>1. /\ op.by # "free" /\ op.pc = "launch" /\ s \in 1..built /\ s \in Strats /\ s # 0
      /\ s = inst.strategy \/ s \in edited
      /\ ~stopped /\ inst.state # "RUNNING" /\ op.old \in {"STOPPED", "CRASHED"}
  BY Bounds DEF Launch, At, IInv, OpInv, In, CountInv, ManagerType, FlagType
<1>2. /\ op \in OpType /\ strat \in [Strats -> StratType]
      /\ proc \in [Procs -> {"none", "alive", "told", "dead"}]
      /\ host \in [Procs -> Strats \cup {0}] /\ loop \in [Procs -> LoopPCs]
      /\ spawned \in 0..MaxProcs /\ adrift \subseteq Procs
  BY DEF IInv, ManagerType, ProcType
<1>3. UNCHANGED <<book, inst, built, requests, memory, felled>>
  BY DEF Launch, NotLaunched, Launched
<1>4. /\ Removed \in [Procs -> {"none", "alive", "told", "dead"}]
      /\ \A q \in Procs : /\ Removed[q] = "none" <=> proc[q] = "none"
                          /\ Removed[q] = "alive" => proc[q] = "alive"
  BY <1>2 DEF Removed
<1>5. ~overlap => \A q \in Procs : ~Unreported(q) /\ ~Kept(q)
  BY <1>1, AliveUnreported DEF IInv, ReportInv, In
<1>6. \A t \in 1..built : t \in Strats
  BY Built
<1> DEFINE Failed == Goto("fail") \/ (op.by = "operator" /\ Goto("undo"))
<1>7. CASE Failed /\ strat' \in {strat, [strat EXCEPT ![s].st = "CRASHED"]}
           /\ proc' \in {proc, Removed} /\ UNCHANGED <<host, spawned, adrift, loop>>
  <2>1. /\ op' \in OpType /\ op'.by = op.by /\ op'.kind = op.kind /\ op'.pc \in {"fail", "undo"}
        /\ op'.str = s /\ op'.cmd = op.cmd /\ op'.old = op.old
        /\ op'.pc = "undo" => op.by = "operator"
    BY <1>2, <1>7 DEF Goto, OpType, PCs
  <2>2. /\ strat' \in [Strats -> StratType]
        /\ \A t \in Strats : strat'[t].cmd = strat[t].cmd /\ (t # s => strat'[t].st = strat[t].st)
    BY <1>2, <1>7 DEF StratType, States
  <2>3. /\ proc' \in [Procs -> {"none", "alive", "told", "dead"}]
        /\ \A q \in Procs : proc'[q] = "none" <=> proc[q] = "none"
        /\ \A q \in Procs : Kept(q)' => Kept(q)
    BY <1>2, <1>4, <1>7 DEF Kept
  <2>4. \A q \in 1..spawned : q \in Procs
    BY <1>2, Bounds
  <2> USE DEF IInv, In, book, memory
  <2>5. ManagerType' /\ ProcType' /\ CountInv'
    BY <1>1, <1>3, <1>7, <2>1, <2>2, <2>3 DEF ManagerType, FlagType, ProcType, CountInv
  <2>6. OpInv' /\ BrokenInv'
    BY <1>1, <1>3, <1>7, <2>1 DEF OpInv, BrokenInv, Passed
  <2>7. HostInv'
    BY <1>3, <1>7, <2>2, <2>3, <2>4 DEF HostInv
  <2>8. RetiredInv'
    BY <1>1, <1>3, <1>6, <2>1, <2>2 DEF RetiredInv, Marked
  <2>9. FelledInv'
    BY <1>1, <1>3, <1>6, <1>7, <2>1, <2>2 DEF FelledInv, Marked
  <2>10. ReportInv' /\ TendedInv'
    BY <1>3, <1>5, <1>7, <2>1, <2>3 DEF ReportInv, TendedInv, Unreported
  <2> QED BY <2>5, <2>6, <2>7, <2>8, <2>9, <2>10
<1>8. CASE /\ p \in Procs
           /\ \E st \in {"RUNNING", "CRASHED"} :
                  strat' = [strat EXCEPT ![s].st = st, ![s].cmd = p]
           /\ proc' = [Removed EXCEPT ![p] = "alive"] /\ host' = [host EXCEPT ![p] = s]
           /\ spawned' = p /\ adrift \subseteq adrift' /\ adrift' \subseteq Procs
           /\ \/ Goto("cas") /\ loop' = [loop EXCEPT ![p] = "begin"]
              \/ Failed /\ loop' = loop /\ p \in adrift'
  <2>1. /\ p \in Procs /\ spawned' = p /\ p \in 0..MaxProcs /\ p \in 1..p
        /\ \A q \in 1..spawned : q \in Procs /\ q \in 1..p /\ q # p
        /\ \A q \in 1..p : q \in 1..spawned \/ q = p
        /\ \A q \in Procs : q > p => q > spawned /\ q # p
        /\ loop[p] = "none"
    <3>1. p \in Procs /\ spawned' = p /\ spawned \in Nat /\ spawned < p /\ p \in 0..MaxProcs
      BY <1>2, <1>8, Bounds
    <3>2. \A q \in 1..spawned : q \in Procs /\ q \in 1..p /\ q # p
      BY <3>1, Bounds
    <3>3. \A q \in Procs : q > p => q > spawned /\ q # p
      BY <3>1, Bounds
    <3>4. loop[p] = "none"
      BY <3>1 DEF IInv, HostInv
    <3> QED BY <3>1, <3>2, <3>3, <3>4
  <2> HIDE DEF p
  <2>2. /\ op' \in OpType /\ op'.by = op.by /\ op'.kind = op.kind
        /\ op'.str = s /\ op'.cmd = op.cmd /\ op'.old = op.old
        /\ op'.pc \in {"cas", "fail", "undo"} /\ (op'.pc = "undo" => op.by = "operator")
    BY <1>2, <1>8 DEF Goto, OpType, PCs
  <2>3. /\ strat' \in [Strats -> StratType] /\ strat'[s].cmd = p
        /\ \A t \in Strats \ {s} : strat'[t] = strat[t]
    BY <1>1, <1>2, <1>8 DEF StratType, States
  <2>4. /\ proc' \in [Procs -> {"none", "alive", "told", "dead"}] /\ proc'[p] = "alive"
        /\ \A q \in Procs \ {p} : proc'[q] = "none" <=> proc[q] = "none"
        /\ \A q \in Procs \ {p} : Kept(q)' => Kept(q)
    BY <1>2, <1>4, <1>8 DEF Kept
  <2>5. /\ host' \in [Procs -> Strats \cup {0}] /\ host'[p] = s
        /\ loop' \in [Procs -> LoopPCs]
        /\ \A q \in Procs \ {p} : host'[q] = host[q] /\ loop'[q] = loop[q]
        /\ \/ op'.pc = "cas" /\ loop'[p] = "begin"
           \/ op'.pc # "cas" /\ loop'[p] = "none" /\ p \in adrift'
    BY <1>1, <1>2, <1>8, <2>1 DEF LoopPCs, Kept, Goto, OpType
  <2> USE DEF IInv, In, book, memory
  <2>6. ManagerType' /\ ProcType' /\ CountInv'
    BY <1>1, <1>3, <1>8, <2>1, <2>2, <2>3, <2>4, <2>5
       DEF ManagerType, FlagType, ProcType, CountInv
  <2>7. OpInv' /\ BrokenInv'
    BY <1>1, <1>3, <2>1, <2>2, <2>5 DEF OpInv, BrokenInv, Passed
  <2>8. HostInv'
    <3>1. \A t \in Strats : strat'[t].cmd # 0 =>
              strat'[t].cmd \in 1..spawned' /\ host'[strat'[t].cmd] = t
      BY <2>1, <2>3, <2>5 DEF HostInv
    <3>2. \A q \in 1..spawned' : host'[q] \in 1..built' /\ proc'[q] # "none"
      BY <1>1, <1>3, <2>1, <2>4, <2>5 DEF HostInv
    <3>3. \A q \in Procs : q > spawned' => proc'[q] = "none" /\ loop'[q] = "none"
      BY <2>1, <2>4, <2>5 DEF HostInv
    <3>4. \A q \in Procs : Kept(q)' => loop'[q] \in {"begin", "wait"}
      <4> SUFFICES ASSUME NEW q \in Procs, Kept(q)' PROVE loop'[q] \in {"begin", "wait"}
        OBVIOUS
      <4>1. CASE q = p
        BY <2>5, <4>1 DEF Kept
      <4>2. CASE q # p
        BY <2>4, <2>5, <4>2 DEF HostInv
      <4> QED BY <4>1, <4>2
    <3> QED BY <1>3, <3>1, <3>2, <3>3, <3>4 DEF HostInv
  <2>9. RetiredInv'
    BY <1>1, <1>3, <1>6, <2>2, <2>3 DEF RetiredInv, Marked
  <2>10. FelledInv'
    BY <1>1, <1>3, <1>6, <2>1, <2>2, <2>3, <2>5 DEF FelledInv, Marked
  <2>11. ReportInv'
    BY <1>3, <1>5, <2>1, <2>2, <2>5 DEF ReportInv, Unreported
  <2>12. TendedInv'
    <3> SUFFICES ASSUME ~overlap, ~misforced
                 PROVE  \A q \in Procs : Kept(q)' => Tended(q)'
      BY <1>3, <2>2 DEF TendedInv
    <3>1. \A q \in Procs : Kept(q)' => q = p
      BY <1>5, <2>4
    <3>2. op'.pc # "cas" => \A q \in Procs : ~Kept(q)'
      BY <2>5, <3>1 DEF Kept
    <3>3. inst.state = "STARTING" /\ inst.strategy = s
      BY <1>1 DEF TendedInv
    <3> QED BY <1>1, <1>3, <2>2, <2>3, <3>1, <3>2, <3>3 DEF Tended
  <2> QED BY <2>6, <2>7, <2>8, <2>9, <2>10, <2>11, <2>12
<1>9. ASSUME NotLaunched PROVE IInv'
  <2>1. CASE /\ p \in Procs /\ Failed /\ strat' = [strat EXCEPT ![s].st = "CRASHED", ![s].cmd = p]
             /\ proc' = [Removed EXCEPT ![p] = "alive"] /\ host' = [host EXCEPT ![p] = s]
             /\ spawned' = p /\ Leave(p) /\ loop' = loop
    <3>1. adrift' = adrift \cup {p}
      BY <1>2, <1>4, <2>1 DEF Leave
    <3> QED BY <1>2, <1>8, <2>1, <3>1
  <2> QED BY <1>7, <1>9, <2>1 DEF NotLaunched
<1>10. ASSUME Launched PROVE IInv'
  BY <1>2, <1>8, <1>10 DEF Launched
<1> QED BY <1>9, <1>10 DEF Launch

LEMMA UndoStep == ASSUME IInv, Undo PROVE IInv'
<1> USE Bounds DEF IInv, Undo, Free, book, procs, counters, memory
<1>1. ManagerType'
  BY DEF ManagerType, FlagType, OpType, InstType, Kinds, PCs, States
<1>2. ProcType'
  BY DEF ProcType
<1>3. CountInv'
  BY DEF CountInv, In, At
<1>4. OpInv'
  BY DEF OpInv, In
<1>5. HostInv'
  BY DEF HostInv, Kept
<1>6. RetiredInv'
  BY DEF RetiredInv, Marked, In, At
<1>7. FelledInv'
  BY DEF FelledInv, Marked
<1>8. ReportInv'
  BY DEF ReportInv, Unreported, In
<1>9. TendedInv'
  BY DEF OpInv, TendedInv, Kept, Tended, In, At
<1>10. BrokenInv'
  BY DEF BrokenInv, Passed
<1> QED BY <1>1, <1>2, <1>3, <1>4, <1>5, <1>6, <1>7, <1>8, <1>9, <1>10

LEMMA CasStep == ASSUME IInv, Cas PROVE IInv'
<1> USE Bounds DEF IInv, Cas, Free, book, procs, counters, memory
<1>1. ManagerType'
  BY DEF ManagerType, FlagType, OpType, InstType, Kinds, PCs, States
<1>2. ProcType'
  BY DEF ProcType
<1>3. CountInv'
  BY DEF CountInv, In, At
<1>4. OpInv'
  BY DEF OpInv, In
<1>5. HostInv'
  BY DEF HostInv, Kept
<1>6. RetiredInv'
  BY DEF RetiredInv, Marked, In, At
<1>7. FelledInv'
  BY DEF FelledInv, Marked
<1>8. ReportInv'
  BY DEF ReportInv, Unreported, In
<1>9. TendedInv'
  BY DEF TendedInv, Tended, Kept, In, At
<1>10. BrokenInv'
  BY DEF BrokenInv, Passed
<1> QED BY <1>1, <1>2, <1>3, <1>4, <1>5, <1>6, <1>7, <1>8, <1>9, <1>10

LEMMA StopBeginStep == ASSUME IInv, StopBegin PROVE IInv'
<1>1. /\ op.by = "operator" /\ op.pc = "stop" /\ op \in OpType /\ inst \in InstType
      /\ inst.strategy \in 0..built /\ inst.strategy \in Strats \cup {0}
      /\ UNCHANGED <<book, strat, built, procs, loop, requests, memory>>
  BY DEF StopBegin, At, IInv, OpInv, HostInv, ManagerType, OpType, InstType
<1>2. CASE inst.strategy = 0 /\ op' = Free /\ UNCHANGED inst
  <2>1. op'.by = "free" /\ op' \in OpType
    BY <1>2 DEF Free, OpType, Kinds, PCs, States
  <2> USE DEF IInv, In, book, procs, memory
  <2>2. ManagerType' /\ ProcType' /\ CountInv'
    BY <1>1, <1>2, <2>1 DEF ManagerType, FlagType, ProcType, CountInv
  <2>3. OpInv' /\ HostInv' /\ BrokenInv'
    BY <1>1, <1>2, <2>1 DEF OpInv, HostInv, Kept, BrokenInv, Passed
  <2>4. RetiredInv' /\ FelledInv' /\ ReportInv'
    BY <1>1, <1>2, <2>1 DEF RetiredInv, FelledInv, ReportInv, Marked, Unreported
  <2>5. TendedInv'
    BY <1>1, <1>2, <2>1 DEF TendedInv, Kept, Tended
  <2> QED BY <2>2, <2>3, <2>4, <2>5
<1>3. CASE /\ inst.strategy # 0 /\ op' = [op EXCEPT !.pc = "halt", !.str = inst.strategy]
           /\ inst' = [inst EXCEPT !.state = "STOPPING"]
  <2>1. /\ op' \in OpType /\ op'.by = "operator" /\ op'.pc = "halt" /\ op'.str = inst.strategy
        /\ op'.kind = op.kind /\ op'.cmd = op.cmd /\ inst.strategy \in 1..built
    <3>1. inst.strategy \in 1..built
      BY <1>1, <1>3 DEF IInv, CountInv
    <3> QED BY <1>1, <1>3, <3>1 DEF OpType, PCs
  <2>2. /\ inst' \in InstType /\ inst'.state = "STOPPING" /\ inst'.strategy = inst.strategy
        /\ inst'.stale = inst.stale
    BY <1>1, <1>3 DEF InstType, States
  <2> USE DEF IInv, In, book, procs, memory
  <2>3. ManagerType' /\ ProcType' /\ CountInv'
    BY <1>1, <2>1, <2>2 DEF ManagerType, FlagType, ProcType, CountInv
  <2>4. OpInv' /\ HostInv' /\ BrokenInv'
    BY <1>1, <2>1, <2>2 DEF OpInv, HostInv, Kept, BrokenInv, Passed
  <2>5. RetiredInv' /\ FelledInv' /\ ReportInv'
    BY <1>1, <2>1, <2>2 DEF RetiredInv, FelledInv, ReportInv, Marked, Unreported
  <2>6. TendedInv'
    BY <1>1, <2>1, <2>2 DEF TendedInv, Kept, Tended
  <2> QED BY <2>3, <2>4, <2>5, <2>6
<1> QED BY <1>2, <1>3 DEF StopBegin

LEMMA HaltStep == ASSUME IInv, Halt PROVE IInv'
<1> DEFINE s == op.str
<1>1. /\ op.by # "free" /\ op.pc = "halt" /\ s \in 1..built /\ op \in OpType /\ s \in Strats
      /\ strat[s].cmd \in Procs \cup {0} /\ strat \in [Strats -> StratType]
      /\ UNCHANGED <<book, inst, built, procs, loop, requests, memory>>
  BY Bounds DEF Halt, At, IInv, OpInv, In, CountInv, ManagerType, FlagType, ProcType, StratType
<1>2. /\ op' = [op EXCEPT !.pc = IF strat[s].cmd = 0 THEN "stopped" ELSE "signal",
                           !.cmd = strat[s].cmd]
      /\ strat' = [strat EXCEPT ![s].st = "STOPPING"]
  BY DEF Halt
<1> HIDE DEF s
<1>3. /\ op' \in OpType /\ op'.by = op.by /\ op'.kind = op.kind /\ op'.str = op.str
      /\ op'.pc = (IF strat[s].cmd = 0 THEN "stopped" ELSE "signal") /\ op'.cmd = strat[s].cmd
  BY <1>1, <1>2 DEF OpType, PCs
<1>4. /\ strat' \in [Strats -> StratType] /\ strat'[s].st = "STOPPING"
      /\ \A t \in Strats : strat'[t].cmd = strat[t].cmd /\ (t # s => strat'[t].st = strat[t].st)
  BY <1>1, <1>2 DEF StratType, States
<1>5. \A t \in 1..built : t \in Strats
  BY Bounds DEF IInv, CountInv, ManagerType, FlagType
<1>6. op'.pc = "signal" => op'.cmd \in 1..spawned /\ host[op'.cmd] = s
  BY <1>1, <1>3 DEF IInv, HostInv
<1> USE DEF IInv, In, book, procs, memory
<1>7. ManagerType' /\ ProcType' /\ CountInv'
  BY <1>1, <1>3, <1>4 DEF ManagerType, FlagType, ProcType, CountInv
<1>8. OpInv' /\ HostInv' /\ BrokenInv'
  BY <1>1, <1>3, <1>4, <1>6 DEF OpInv, HostInv, Kept, BrokenInv, Passed, Marked, s
<1>9. RetiredInv'
  BY <1>1, <1>3, <1>4, <1>5 DEF RetiredInv, Marked
<1>10. FelledInv'
  BY <1>1, <1>3, <1>4, <1>5, <1>6 DEF FelledInv, Marked
<1>11. ReportInv'
  BY <1>1, <1>3 DEF ReportInv, Unreported
<1>12. TendedInv'
  <2> SUFFICES ASSUME ~overlap, ~misforced, NEW p \in Procs, Kept(p) PROVE Tended(p)'
    BY <1>1, <1>3 DEF TendedInv, Kept
  <2>1. Tended(p) /\ p # 0
    BY Bounds DEF TendedInv
  <2>2. inst.strategy \in Strats \cup {0}
    BY DEF ManagerType, InstType
  <2> QED BY <1>1, <1>3, <1>4, <2>1, <2>2 DEF Tended, s
<1> QED BY <1>7, <1>8, <1>9, <1>10, <1>11, <1>12

LEMMA SignalStep == ASSUME IInv, Signal PROVE IInv'
<1>1. /\ op.by # "free" /\ op.pc = "signal" /\ op \in OpType /\ op.cmd \in 1..spawned
      /\ op.cmd \in Procs /\ op.by # "loop" /\ inst.state # "RUNNING"
      /\ UNCHANGED <<book, inst, strat, built, host, spawned, felled, loop, requests, memory>>
  BY Bounds DEF Signal, At, IInv, OpInv, In, ManagerType, ProcType
<1>2. /\ proc' \in [Procs -> {"none", "alive", "told", "dead"}]
      /\ \A q \in Procs : /\ proc'[q] = "none" <=> proc[q] = "none"
                          /\ Kept(q)' => Kept(q) /\ q # op.cmd
      /\ UNCHANGED adrift
  BY <1>1 DEF Signal, Asked, Kept, IInv, ProcType, procs
<1>3. \/ op' = Free
      \/ op' = [op EXCEPT !.pc = "drain"]
      \/ op' = [op EXCEPT !.pc = "stopped"]
  BY DEF Signal, Goto
<1>4. /\ op' \in OpType
      /\ \/ op'.by = "free"
         \/ /\ op'.by = op.by /\ op'.kind = op.kind /\ op'.str = op.str /\ op'.cmd = op.cmd
            /\ op'.pc \in {"drain", "stopped"}
  BY <1>1, <1>3 DEF Free, OpType, Kinds, PCs, States
<1> USE DEF IInv, In, book, memory
<1>5. ManagerType' /\ ProcType' /\ CountInv'
  BY <1>1, <1>2, <1>4 DEF ManagerType, FlagType, ProcType, CountInv
<1>6. OpInv'
  BY <1>1, <1>4 DEF OpInv, Marked
<1>7. HostInv'
  <2>1. \A q \in 1..spawned : q \in Procs
    BY Bounds DEF ProcType
  <2> QED BY <1>1, <1>2, <2>1 DEF HostInv
<1>8. RetiredInv' /\ FelledInv' /\ ReportInv' /\ BrokenInv'
  BY <1>1, <1>4 DEF RetiredInv, FelledInv, ReportInv, BrokenInv, Marked, Unreported, Passed
<1>9. TendedInv'
  <2> SUFFICES ASSUME ~overlap, ~misforced, NEW q \in Procs, Kept(q)' PROVE FALSE
    BY <1>1, <1>4 DEF TendedInv
  <2>1. q # op.cmd /\ Tended(q)
    BY <1>2 DEF TendedInv
  <2> QED BY <1>1, <2>1 DEF Tended
<1> QED BY <1>5, <1>6, <1>7, <1>8, <1>9

LEMMA DrainStep == ASSUME IInv, Drain PROVE IInv'
<1> USE Bounds DEF IInv, Drain, book, procs, counters, memory
<1>1. ManagerType'
  <2>1. op' \in OpType
    BY DEF ManagerType, OpType, PCs, States, Goto
  <2>2. inst' \in InstType
    BY DEF ManagerType
  <2>3. FlagType'
    BY DEF ManagerType, FlagType, In, At, Goto
  <2> QED BY <2>1, <2>2, <2>3 DEF ManagerType
<1>2. ProcType'
  BY DEF ProcType
<1>3. CountInv'
  BY DEF CountInv, In, At, Goto
<1>4. OpInv'
  BY DEF OpInv, Marked, In, At, Goto
<1>5. HostInv'
  BY DEF HostInv, Kept
<1>6. RetiredInv'
  BY DEF RetiredInv, Marked, In, At
<1>7. FelledInv'
  BY DEF FelledInv, Marked, In, Goto
<1>8. ReportInv'
  BY DEF ReportInv, Unreported, In, Goto
<1>9. TendedInv'
  BY DEF TendedInv, Tended, Kept, In, At, Goto
<1>10. BrokenInv'
  BY DEF BrokenInv, Passed, Goto
<1> QED BY <1>1, <1>2, <1>3, <1>4, <1>5, <1>6, <1>7, <1>8, <1>9, <1>10

LEMMA StopFailsStep == ASSUME IInv, StopFails PROVE IInv'
<1> USE Bounds DEF IInv, StopFails, Free, book, procs, counters, memory
<1>1. op.cmd \in Procs /\ adrift \subseteq adrift' /\ adrift' \subseteq Procs
  <2>1. op.cmd \in Procs
    BY DEF OpInv, In, At, ProcType
  <2> QED BY <2>1 DEF Leave, ProcType
<1>2. \A p \in Procs : Kept(p)' => Kept(p) /\ p # op.cmd
  BY <1>1 DEF Kept, Leave
<1>3. ManagerType'
  BY DEF ManagerType, FlagType, OpType, Kinds, PCs, States
<1>4. ProcType'
  BY <1>1 DEF ProcType
<1>5. CountInv' /\ OpInv' /\ HostInv'
  BY <1>2 DEF CountInv, OpInv, HostInv, In, At
<1>6. RetiredInv' /\ FelledInv'
  BY DEF RetiredInv, FelledInv, Marked, In, At
<1>7. ReportInv' /\ BrokenInv'
  BY DEF ReportInv, BrokenInv, Unreported, Passed, In
<1>8. TendedInv'
  BY <1>2 DEF TendedInv, Tended, Kept, In, At, OpInv
<1> QED BY <1>3, <1>4, <1>5, <1>6, <1>7, <1>8

LEMMA StoppedStep == ASSUME IInv, Stopped PROVE IInv'
<1> DEFINE drop == inst.strategy = op.str /\ inst.stale
<1>1. /\ op.by # "free" /\ op.pc = "stopped" /\ op \in OpType /\ inst \in InstType
      /\ inst.strategy \in {0, op.str} /\ Marked(op.str) /\ op.str \in 1..built
      /\ inst.stale \in BOOLEAN /\ inst.strategy \in 0..built /\ op.by # "loop"
      /\ UNCHANGED <<book, strat, built, procs, loop, requests, overlap>>
  BY DEF Stopped, At, IInv, OpInv, In, HostInv, ManagerType, InstType
<1>2. /\ inst' = [inst EXCEPT !.state = "STOPPED", !.stale = inst.stale /\ ~drop,
                              !.strategy = IF drop THEN 0 ELSE inst.strategy]
      /\ window' = FALSE
      /\ \/ op' = Free /\ stopped' = TRUE
         \/ op' = [op EXCEPT !.pc = "start"] /\ stopped' = stopped
  BY DEF Stopped, Goto
<1>3. /\ inst'.state = "STOPPED" /\ inst'.strategy \in {0, inst.strategy}
      /\ inst'.strategy \in Strats \cup {0} /\ inst'.stale \in BOOLEAN /\ inst'.auto \in BOOLEAN
      /\ inst'.strategy # inst.strategy => inst.stale /\ inst.strategy = op.str
      /\ inst'.stale => inst.stale /\ inst'.strategy = inst.strategy
  BY <1>1, <1>2 DEF InstType
<1>4. inst' \in InstType
  BY <1>1, <1>2, <1>3 DEF InstType, States
<1>5. op' \in OpType /\ (op'.by = "free" \/ (op'.by = op.by /\ op'.pc = "start"))
  BY <1>1, <1>2 DEF Free, OpType, Kinds, PCs, States
<1>6. stopped' \in BOOLEAN
  BY <1>2 DEF IInv, ManagerType, FlagType
<1> HIDE DEF drop
<1> USE DEF IInv, In, book, procs
<1>7. ManagerType' /\ ProcType'
  BY <1>1, <1>2, <1>4, <1>5, <1>6 DEF ManagerType, FlagType, ProcType
<1>8. CountInv'
  <2>1. (inst'.strategy = 0 \/ inst'.stale) => (inst.strategy = 0 \/ inst.stale)
    BY <1>3
  <2>2. built \in Nat /\ requests \in Nat /\ edits \in Nat /\ UNCHANGED <<built, requests, edits>>
    BY <1>1, Bounds DEF CountInv, ManagerType, FlagType
  <2> QED BY <1>5, <2>1, <2>2 DEF CountInv
<1>9. OpInv'
  BY <1>1, <1>5 DEF OpInv
<1>10. HostInv'
  <2>1. built \in Nat /\ 0 \in 0..built
    BY DEF CountInv
  <2>2. inst'.stale => inst'.strategy # 0 /\ inst'.strategy \in edited
    BY <1>3 DEF HostInv
  <2>3. inst'.strategy \in 0..built
    BY <1>1, <1>3, <2>1
  <2> QED BY <1>1, <2>2, <2>3 DEF HostInv, Kept
<1>11. RetiredInv'
  <2>1. \A s \in 1..built : s = inst.strategy \/ s \in edited \/ Marked(s)
    BY <1>1 DEF RetiredInv
  <2>2. inst.strategy # 0 => Marked(inst.strategy)
    BY <1>1
  <2>3. \A s \in 1..built : s \in edited \/ Marked(s)
    BY <2>1, <2>2
  <2> QED BY <1>1, <2>3 DEF RetiredInv, Marked
<1>12. FelledInv'
  <2> SUFFICES ASSUME NEW p \in felled
               PROVE  /\ p \in 1..spawned /\ host[p] \in 1..built /\ host[p] # inst'.strategy
                      /\ Marked(host[p])
    BY <1>1, <1>5 DEF FelledInv, Marked
  <2>1. /\ p \in 1..spawned /\ host[p] \in 1..built /\ host[p] # inst.strategy /\ Marked(host[p])
    BY DEF FelledInv, ProcType
  <2> QED BY <1>3, <2>1
<1>13. ReportInv'
  BY <1>1, <1>5 DEF ReportInv, Unreported
<1>14. TendedInv'
  <2>1. ~overlap /\ ~misforced => \A p \in Procs : ~Kept(p)
    BY <1>1 DEF TendedInv, Tended, OpInv
  <2> QED BY <1>1, <1>5, <2>1 DEF TendedInv, Kept
<1>15. BrokenInv'
  BY <1>1, <1>5 DEF BrokenInv, Passed
<1> QED BY <1>7, <1>8, <1>9, <1>10, <1>11, <1>12, <1>13, <1>14, <1>15

LEMMA KillBeginStep == ASSUME IInv, KillBegin PROVE IInv'
<1> USE Bounds DEF IInv, KillBegin, book, procs, counters, memory
<1>1. ManagerType'
  BY DEF ManagerType, FlagType, OpType, InstType, PCs
<1>2. ProcType'
  BY DEF ProcType
<1>3. CountInv'
  BY DEF ManagerType, FlagType, CountInv, HostInv, In, At, Goto
<1>4. OpInv'
  BY DEF OpInv, HostInv, In, At
<1>5. HostInv'
  BY DEF HostInv, Kept, CountInv
<1>6. RetiredInv'
  BY DEF RetiredInv, Marked, In, At
<1>7. FelledInv'
  BY DEF FelledInv, Marked, In
<1>8. ReportInv'
  BY DEF ReportInv, Unreported, In
<1>9. TendedInv'
  BY DEF TendedInv, Tended, Kept, In, At
<1>10. BrokenInv'
  BY DEF BrokenInv, Passed
<1> QED BY <1>1, <1>2, <1>3, <1>4, <1>5, <1>6, <1>7, <1>8, <1>9, <1>10

LEMMA KillMarkStep == ASSUME IInv, KillMark PROVE IInv'
<1> DEFINE s == op.str
<1>1. /\ op.by # "free" /\ op.pc = "mark" /\ s \in 1..built /\ op \in OpType /\ s \in Strats
      /\ strat[s].cmd \in Procs \cup {0} /\ strat \in [Strats -> StratType]
      /\ UNCHANGED <<book, inst, built, procs, loop, requests, memory>>
  BY Bounds DEF KillMark, At, IInv, OpInv, In, CountInv, ManagerType, FlagType, ProcType,
                StratType
<1>2. /\ op' = [op EXCEPT !.pc = IF strat[s].cmd = 0 THEN "killed" ELSE "fell",
                           !.cmd = strat[s].cmd]
      /\ strat' = [strat EXCEPT ![s].st = "STOPPING"]
  BY DEF KillMark
<1> HIDE DEF s
<1>3. /\ op' \in OpType /\ op'.by = op.by /\ op'.kind = op.kind /\ op'.str = op.str
      /\ op'.pc = (IF strat[s].cmd = 0 THEN "killed" ELSE "fell") /\ op'.cmd = strat[s].cmd
  BY <1>1, <1>2 DEF OpType, PCs
<1>4. /\ strat' \in [Strats -> StratType] /\ strat'[s].st = "STOPPING"
      /\ \A t \in Strats : strat'[t].cmd = strat[t].cmd /\ (t # s => strat'[t].st = strat[t].st)
  BY <1>1, <1>2 DEF StratType, States
<1>5. \A t \in 1..built : t \in Strats
  BY Bounds DEF IInv, CountInv, ManagerType, FlagType
<1>6. op'.pc = "fell" => op'.cmd \in 1..spawned /\ host[op'.cmd] = s
  BY <1>1, <1>3 DEF IInv, HostInv
<1> USE DEF IInv, In, book, procs, memory
<1>7. ManagerType' /\ ProcType' /\ CountInv'
  BY <1>1, <1>3, <1>4 DEF ManagerType, FlagType, ProcType, CountInv
<1>8. OpInv' /\ HostInv' /\ BrokenInv'
  BY <1>1, <1>3, <1>4, <1>6 DEF OpInv, HostInv, Kept, BrokenInv, Passed, Marked, s
<1>9. RetiredInv'
  BY <1>1, <1>3, <1>4, <1>5 DEF RetiredInv, Marked, s
<1>10. FelledInv'
  BY <1>1, <1>3, <1>4, <1>5, <1>6 DEF FelledInv, Marked, OpInv
<1>11. ReportInv'
  BY <1>1, <1>3 DEF ReportInv, Unreported
<1>12. TendedInv'
  <2> SUFFICES ASSUME ~overlap, ~misforced, NEW p \in Procs, Kept(p) PROVE Tended(p)'
    BY <1>1, <1>3 DEF TendedInv, Kept
  <2>1. Tended(p) /\ p # 0
    BY Bounds DEF TendedInv
  <2>2. inst.strategy \in Strats \cup {0}
    BY DEF ManagerType, InstType
  <2> QED BY <1>1, <1>3, <1>4, <2>1, <2>2 DEF Tended, s
<1> QED BY <1>7, <1>8, <1>9, <1>10, <1>11, <1>12

LEMMA FellStep == ASSUME IInv, Fell PROVE IInv'
<1> USE Bounds DEF IInv, Fell, book, procs, counters, memory
<1>0. /\ op.cmd \in Procs /\ adrift \subseteq adrift' /\ adrift' \subseteq Procs
      /\ proc' \in [Procs -> {"none", "alive", "told", "dead"}]
      /\ \A p \in Procs : /\ Kept(p)' => Kept(p) /\ p # op.cmd
                          /\ proc'[p] = "none" <=> proc[p] = "none"
  <2>1. op.cmd \in Procs /\ proc[op.cmd] # "none"
    BY DEF OpInv, HostInv, In, At, ProcType
  <2> QED BY <2>1 DEF ProcType, Leave, Kept
<1>1. ManagerType'
  <2>1. op' \in OpType
    BY DEF ManagerType, OpType, PCs, States, Goto
  <2>2. inst' \in InstType
    BY DEF ManagerType
  <2>3. FlagType'
    BY DEF ManagerType, FlagType, In, At, Goto
  <2> QED BY <2>1, <2>2, <2>3 DEF ManagerType
<1>2. ProcType'
  BY <1>0 DEF ProcType
<1>3. CountInv'
  BY DEF CountInv, In, At, Goto
<1>4. OpInv'
  BY DEF OpInv, In, At, Goto
<1>5. HostInv'
  <2>1. \A p \in 1..spawned : p \in Procs
    BY DEF ProcType
  <2> QED BY <1>0, <2>1 DEF HostInv
<1>6. RetiredInv'
  BY DEF RetiredInv, Marked, In, At
<1>7. FelledInv'
  BY DEF FelledInv, Marked, In, At, Goto
<1>8. ReportInv'
  BY DEF ReportInv, Unreported, In, Goto
<1>9. TendedInv'
  BY <1>0 DEF ProcType, TendedInv, Kept, Tended, In, At, Goto
<1>10. BrokenInv'
  BY DEF BrokenInv, Passed, Goto
<1> QED BY <1>1, <1>2, <1>3, <1>4, <1>5, <1>6, <1>7, <1>8, <1>9, <1>10

LEMMA KilledStep == ASSUME IInv, Killed PROVE IInv'
<1> USE Bounds DEF IInv, Killed, Free, book, procs, counters, memory
<1>1. ManagerType'
  BY DEF ManagerType, FlagType, OpType, InstType, Kinds, PCs, States
<1>2. ProcType'
  BY DEF ProcType
<1>3. CountInv'
  BY DEF CountInv, In, At
<1>4. OpInv'
  BY DEF OpInv, In
<1>5. HostInv'
  BY DEF HostInv, Kept
<1>6. RetiredInv'
  BY DEF OpInv, RetiredInv, Marked, In, At
<1>7. FelledInv'
  BY DEF FelledInv, Marked
<1>8. ReportInv'
  BY DEF ReportInv, Unreported, In
<1>9. TendedInv'
  BY DEF OpInv, TendedInv, Kept, Tended, In, At
<1>10. BrokenInv'
  BY DEF BrokenInv, Passed
<1> QED BY <1>1, <1>2, <1>3, <1>4, <1>5, <1>6, <1>7, <1>8, <1>9, <1>10

LEMMA LoopBeginStep == ASSUME IInv, NEW p \in Procs, LoopBegin(p) PROVE IInv'
<1> USE Bounds DEF IInv, LoopBegin, LoopGoes, book, procs, counters, memory
<1>1. ManagerType'
  BY DEF ManagerType, FlagType
<1>2. ProcType'
  BY DEF ProcType, LoopPCs
<1>3. CountInv'
  BY DEF CountInv, In
<1>4. OpInv'
  BY DEF OpInv, Marked, In
<1>5. HostInv'
  BY DEF HostInv, Kept
<1>6. RetiredInv'
  BY DEF RetiredInv, Marked, In
<1>7. FelledInv'
  BY DEF FelledInv, Marked, In
<1>8. ReportInv'
  BY DEF ReportInv, Unreported, In
<1>9. TendedInv'
  BY DEF TendedInv, Tended, Kept, In
<1>10. BrokenInv'
  BY DEF BrokenInv, Passed
<1> QED BY <1>1, <1>2, <1>3, <1>4, <1>5, <1>6, <1>7, <1>8, <1>9, <1>10

LEMMA LoopReapStep == ASSUME IInv, NEW p \in Procs, LoopReap(p) PROVE IInv'
<1> USE Bounds DEF IInv, LoopReap, LoopGoes, book, procs, counters, memory
<1>1. ManagerType'
  BY DEF ManagerType, FlagType
<1>2. ProcType'
  BY DEF ProcType, LoopPCs
<1>3. CountInv'
  BY DEF CountInv, In
<1>4. OpInv'
  BY DEF OpInv, Marked, In
<1>5. HostInv'
  BY DEF HostInv, Kept
<1>6. RetiredInv'
  BY DEF RetiredInv, Marked, In
<1>7. FelledInv'
  BY DEF FelledInv, Marked, In
<1>8. ReportInv'
  BY DEF ReportInv, Unreported, In
<1>9. TendedInv'
  BY DEF TendedInv, Tended, Kept, In
<1>10. BrokenInv'
  BY DEF BrokenInv, Passed
<1> QED BY <1>1, <1>2, <1>3, <1>4, <1>5, <1>6, <1>7, <1>8, <1>9, <1>10

LEMMA WaitFailsStep == ASSUME IInv, NEW p \in Procs, WaitFails(p) PROVE IInv'
<1> USE Bounds DEF IInv, WaitFails, LoopGoes, book, counters, memory
<1>1. /\ adrift' \subseteq Procs /\ ~Kept(p)' /\ \A q \in Procs : Kept(q)' => Kept(q) /\ q # p
  BY DEF Leave, Kept, ProcType
<1>2. /\ loop \in [Procs -> LoopPCs] /\ loop' = [loop EXCEPT ![p] = "reaped"]
      /\ loop' \in [Procs -> LoopPCs]
  BY DEF ProcType, LoopPCs
<1>3. ManagerType' /\ ProcType'
  BY <1>1, <1>2 DEF ManagerType, FlagType, ProcType
<1>4. CountInv' /\ OpInv'
  BY DEF CountInv, OpInv, Marked, In
<1>5. HostInv'
  BY <1>1, <1>2 DEF HostInv
<1>6. RetiredInv' /\ FelledInv'
  BY DEF RetiredInv, FelledInv, Marked, In
<1>7. ReportInv' /\ BrokenInv'
  BY <1>2 DEF ReportInv, BrokenInv, Unreported, Passed, In
<1>8. TendedInv'
  BY <1>1 DEF TendedInv, Tended, Kept, In
<1> QED BY <1>3, <1>4, <1>5, <1>6, <1>7, <1>8

LEMMA LoopDecideStep == ASSUME IInv, NEW p \in Procs, LoopDecide(p) PROVE IInv'
<1> DEFINE s == host[p]
           asked == Marked(s)
           left == IF mode = "direct" THEN 0 ELSE strat[s].cmd
<1>1. /\ loop[p] = "reaped" /\ loop' = [loop EXCEPT ![p] = IF asked THEN "done" ELSE "mark"]
      /\ strat' = [strat EXCEPT ![s].st = IF asked THEN "STOPPED" ELSE "CRASHED", ![s].cmd = left]
      /\ UNCHANGED <<op, built, procs, counters, mode, broken, scan, asleep, edited, misforced,
                     stopped, overlap, window, inst, panicked>>
  BY DEF LoopDecide, LoopGoes, Marked, procs
<1>2. /\ p \in 1..spawned /\ s \in 1..built /\ s \in Strats /\ ~Kept(p)
      /\ strat \in [Strats -> StratType] /\ loop \in [Procs -> LoopPCs]
  <2>1. /\ strat \in [Strats -> StratType] /\ loop \in [Procs -> LoopPCs] /\ spawned \in 0..MaxProcs
        /\ ~Kept(p) /\ ~(p > spawned)
    BY <1>1 DEF IInv, ProcType, HostInv
  <2>2. p \in 1..spawned
    BY <2>1, Bounds
  <2> QED BY <2>1, <2>2, Built DEF IInv, HostInv
<1>3. left \in {0, strat[s].cmd} /\ strat[s].cmd \in Procs \cup {0}
  BY <1>2 DEF StratType
<1> HIDE DEF s, left, asked
<1>4. /\ strat' \in [Strats -> StratType] /\ \A t \in Strats \ {s} : strat'[t] = strat[t]
      /\ strat'[s].cmd \in {0, strat[s].cmd}
      /\ strat'[s].st = IF asked THEN "STOPPED" ELSE "CRASHED"
  BY <1>1, <1>2, <1>3 DEF StratType, States
<1>5. \A t \in Strats : /\ Marked(t) => strat'[t].st \in {"STOPPING", "STOPPED"}
                        /\ strat'[t].cmd \in {0, strat[t].cmd}
  BY <1>4 DEF asked, Marked
<1>6. /\ loop' \in [Procs -> LoopPCs] /\ loop'[p] = IF asked THEN "done" ELSE "mark"
      /\ \A q \in Procs \ {p} : loop'[q] = loop[q]
  BY <1>1, <1>2 DEF LoopPCs
<1>7. Unreported(p) /\ (\A q \in Procs : Unreported(q)' => Unreported(q))
  BY <1>1, <1>6 DEF Unreported
<1> USE DEF IInv, In, procs, counters
<1>8. ManagerType' /\ ProcType' /\ CountInv'
  BY <1>1, <1>4, <1>6 DEF ManagerType, FlagType, ProcType, CountInv
<1>9. OpInv'
  <2>1. \A t \in 1..built : t \in Strats
    BY Built
  <2>2. In({"signal", "drain", "stopped"}) => op.str \in Strats /\ Marked(op.str)
    BY <2>1 DEF OpInv
  <2> QED BY <1>1, <1>5, <2>2 DEF OpInv, Marked
<1>10. HostInv'
  <2>1. \A t \in Strats : strat'[t].cmd # 0 =>
            strat'[t].cmd \in 1..spawned /\ host[strat'[t].cmd] = t
    BY <1>5 DEF HostInv
  <2>2. \A q \in 1..spawned : q \in Procs
    BY Bounds DEF ProcType
  <2>3. \A q \in Procs : q > spawned => loop'[q] = "none"
    BY <1>1, <1>6 DEF HostInv
  <2>4. \A q \in Procs : Kept(q) => loop'[q] \in {"begin", "wait"}
    BY <1>2, <1>6 DEF HostInv
  <2> QED BY <1>1, <2>1, <2>2, <2>3, <2>4 DEF HostInv, Kept
<1>11. RetiredInv' /\ FelledInv'
  BY <1>1, <1>5, Built DEF RetiredInv, FelledInv, Marked
<1>12. ReportInv'
  BY <1>1, <1>7 DEF ReportInv
<1>13. TendedInv'
  <2>1. ~overlap => p = spawned /\ ~In({"launch"})
    BY <1>7 DEF ReportInv
  <2>2. ~overlap => \A q \in Procs : ~Kept(q)
    BY <1>2, <2>1, AliveUnreported DEF ReportInv
  <2> QED BY <1>1, <2>1, <2>2 DEF TendedInv, Kept
<1>14. BrokenInv'
  BY <1>1, <1>6 DEF BrokenInv, Passed
<1> QED BY <1>8, <1>9, <1>10, <1>11, <1>12, <1>13, <1>14

LEMMA LoopMarkStep == ASSUME IInv, NEW p \in Procs, LoopMark(p) PROVE IInv'
<1>1. /\ loop[p] = "mark" /\ loop' = [loop EXCEPT ![p] = "check"]
      /\ inst' = [inst EXCEPT !.state = "CRASHED"] /\ window' = TRUE
      /\ UNCHANGED <<op, built, procs, counters, mode, broken, scan, asleep, edited, misforced,
                     stopped, overlap, strat, panicked>>
  BY DEF LoopMark, LoopGoes, procs
<1>2. /\ inst' \in InstType /\ inst'.state = "CRASHED" /\ inst'.strategy = inst.strategy
      /\ inst'.stale = inst.stale
  BY <1>1 DEF IInv, ManagerType, InstType, States
<1>3. /\ loop' \in [Procs -> LoopPCs] /\ loop'[p] = "check"
      /\ \A q \in Procs \ {p} : loop'[q] = loop[q]
  BY <1>1 DEF IInv, ProcType, LoopPCs
<1>4. Unreported(p) /\ (\A q \in Procs : Unreported(q)' => Unreported(q))
  BY <1>1, <1>3 DEF Unreported
<1> USE DEF IInv, In, procs, counters
<1>5. ManagerType' /\ ProcType' /\ CountInv'
  BY <1>1, <1>2, <1>3 DEF ManagerType, FlagType, ProcType, CountInv
<1>6. OpInv' /\ HostInv'
  BY <1>1, <1>2, <1>3 DEF OpInv, HostInv, Kept, Marked
<1>7. RetiredInv' /\ FelledInv' /\ ReportInv'
  BY <1>1, <1>2, <1>4 DEF RetiredInv, FelledInv, ReportInv, Marked
<1>8. TendedInv'
  <2>1. ~overlap => p = spawned /\ ~In({"launch"}) /\ ~Kept(p)
    BY <1>1, <1>4 DEF ReportInv, HostInv
  <2>2. ~overlap => \A q \in Procs : ~Kept(q)
    BY <2>1, AliveUnreported DEF ReportInv
  <2> QED BY <1>1, <2>1, <2>2 DEF TendedInv, Kept
<1>9. BrokenInv'
  BY <1>1, <1>3 DEF BrokenInv, Passed
<1> QED BY <1>5, <1>6, <1>7, <1>8, <1>9

LEMMA LoopCheckStep == ASSUME IInv, NEW p \in Procs, LoopCheck(p) PROVE IInv'
<1> USE Bounds DEF IInv, LoopCheck, LoopGoes, book, procs, counters, memory
<1>1. ManagerType'
  BY DEF ManagerType, FlagType
<1>2. ProcType'
  BY DEF ProcType, LoopPCs
<1>3. CountInv'
  BY DEF CountInv, In
<1>4. OpInv'
  BY DEF OpInv, Marked, In
<1>5. HostInv'
  <2>1. /\ loop[p] = "check" /\ loop'[p] \in {"sleep", "done"}
        /\ \A q \in Procs \ {p} : loop'[q] = loop[q]
        /\ UNCHANGED <<inst, built, strat, spawned, host, proc, edited>>
    BY DEF ProcType
  <2> QED BY <2>1 DEF HostInv, Kept, ProcType
<1>6. RetiredInv'
  BY DEF RetiredInv, Marked, In
<1>7. FelledInv'
  BY DEF FelledInv, Marked, In
<1>8. ReportInv'
  BY DEF ReportInv, Unreported, In
<1>9. TendedInv'
  BY DEF TendedInv, Tended, Kept, In
<1>10. BrokenInv'
  BY DEF BrokenInv, Passed
<1> QED BY <1>1, <1>2, <1>3, <1>4, <1>5, <1>6, <1>7, <1>8, <1>9, <1>10

LEMMA LoopWakeStep == ASSUME IInv, NEW p \in Procs, LoopWake(p) PROVE IInv'
<1> USE Bounds DEF IInv, LoopWake, LoopGoes, book, procs, counters, memory
<1>1. ManagerType'
  BY DEF ManagerType, FlagType
<1>2. ProcType'
  BY DEF ProcType, LoopPCs
<1>3. CountInv'
  BY DEF CountInv, In
<1>4. OpInv'
  BY DEF OpInv, Marked, In
<1>5. HostInv'
  BY DEF HostInv, Kept
<1>6. RetiredInv'
  BY DEF RetiredInv, Marked, In
<1>7. FelledInv'
  BY DEF FelledInv, Marked, In
<1>8. ReportInv'
  BY DEF ReportInv, Unreported, In
<1>9. TendedInv'
  BY DEF TendedInv, Tended, Kept, In
<1>10. BrokenInv'
  BY DEF BrokenInv, Passed
<1> QED BY <1>1, <1>2, <1>3, <1>4, <1>5, <1>6, <1>7, <1>8, <1>9, <1>10

LEMMA ProcEndsStep == ASSUME IInv, NEW p \in Procs, ProcEnds(p) PROVE IInv'
<1> USE Bounds DEF IInv, ProcEnds, book, procs, counters, memory
<1>1. ManagerType'
  BY DEF ManagerType, FlagType
<1>2. ProcType'
  BY DEF ProcType
<1>3. CountInv'
  BY DEF CountInv, In
<1>4. OpInv'
  BY DEF OpInv, Marked, In
<1>5. HostInv'
  BY DEF HostInv, Kept
<1>6. RetiredInv'
  BY DEF RetiredInv, Marked, In
<1>7. FelledInv'
  BY DEF FelledInv, Marked, In
<1>8. ReportInv'
  BY DEF ReportInv, Unreported, In
<1>9. TendedInv'
  BY DEF TendedInv, Tended, Kept, In
<1>10. BrokenInv'
  BY DEF BrokenInv, Passed
<1> QED BY <1>1, <1>2, <1>3, <1>4, <1>5, <1>6, <1>7, <1>8, <1>9, <1>10

LEMMA EvidenceStep == ASSUME IInv, Evidence PROVE IInv'
<1> USE Bounds DEF IInv, Evidence, book, procs, counters, memory
<1>1. ManagerType'
  BY DEF ManagerType, FlagType
<1>2. ProcType'
  BY DEF ProcType
<1>3. CountInv'
  BY DEF CountInv, In
<1>4. OpInv'
  BY DEF OpInv, Marked, In
<1>5. HostInv'
  BY DEF HostInv, Kept
<1>6. RetiredInv'
  BY DEF RetiredInv, Marked, In
<1>7. FelledInv'
  BY DEF FelledInv, Marked, In
<1>8. ReportInv'
  BY DEF ReportInv, Unreported, In
<1>9. TendedInv'
  BY DEF TendedInv, Tended, Kept, In
<1>10. BrokenInv'
  BY DEF BrokenInv
<1> QED BY <1>1, <1>2, <1>3, <1>4, <1>5, <1>6, <1>7, <1>8, <1>9, <1>10

LEMMA BreakStep == ASSUME IInv, BreakCircuit PROVE IInv'
<1>1. /\ scan # "idle" /\ scan' = "idle" /\ broken' = TRUE
      /\ inst' = [inst EXCEPT !.auto = FALSE,
                              !.state = IF scan = "force" THEN "CRASHED" ELSE inst.state]
      /\ misforced' = \/ misforced
                      \/ scan = "force" /\ (Starting \/ \E p \in Procs : proc[p] = "alive")
      /\ UNCHANGED <<op, strat, built, procs, loop, counters, mode, panicked, memory, edited>>
  BY DEF BreakCircuit
<1>2. /\ asleep' \subseteq Procs /\ \A p \in Procs : Passed(p) => p \in asleep'
  BY DEF BreakCircuit, Passed, At
<1>3. /\ inst' \in InstType /\ inst'.strategy = inst.strategy /\ inst'.stale = inst.stale
      /\ inst'.state = IF scan = "force" THEN "CRASHED" ELSE inst.state
  BY <1>1 DEF IInv, ManagerType, InstType, States
<1>4. misforced' \in BOOLEAN /\ (~misforced' => ~misforced)
  BY <1>1 DEF IInv, ManagerType, FlagType
<1> USE DEF IInv, In, procs, counters, memory
<1>5. ManagerType' /\ ProcType' /\ CountInv'
  BY <1>1, <1>2, <1>3, <1>4 DEF ManagerType, FlagType, ProcType, CountInv
<1>6. OpInv' /\ HostInv'
  BY <1>1, <1>3 DEF OpInv, HostInv, Kept, Marked
<1>7. RetiredInv' /\ FelledInv' /\ ReportInv' /\ BrokenInv'
  BY <1>1, <1>2, <1>3 DEF RetiredInv, FelledInv, ReportInv, BrokenInv, Marked, Unreported,
                          Passed
<1>8. TendedInv'
  <2>1. CASE scan = "force"
    <3>1. ~misforced' => ~In({"launch"}) /\ \A p \in Procs : ~Kept(p)
      BY <1>1, <2>1 DEF Starting, Kept
    <3> QED BY <1>1, <3>1 DEF TendedInv, Kept
  <2>2. CASE scan # "force"
    BY <1>1, <1>3, <1>4, <2>2 DEF TendedInv, Kept, Tended
  <2> QED BY <2>1, <2>2
<1> QED BY <1>5, <1>6, <1>7, <1>8

LEMMA ReleaseStep == ASSUME IInv, Release PROVE IInv'
<1> USE Bounds DEF IInv, Release, book, procs, counters, memory
<1>1. ManagerType'
  <2>1. op' \in OpType
    BY DEF ManagerType
  <2>2. inst' \in InstType
    BY DEF ManagerType, InstType
  <2>3. FlagType'
    BY DEF ManagerType, FlagType, In, At, Goto
  <2> QED BY <2>1, <2>2, <2>3 DEF ManagerType
<1>2. ProcType'
  BY DEF ProcType
<1>3. CountInv'
  BY DEF CountInv, In
<1>4. OpInv'
  BY DEF OpInv, Marked, In
<1>5. HostInv'
  BY DEF HostInv, Kept
<1>6. RetiredInv'
  BY DEF RetiredInv, Marked, In
<1>7. FelledInv'
  BY DEF FelledInv, Marked, In
<1>8. ReportInv'
  BY DEF ReportInv, Unreported, In
<1>9. TendedInv'
  BY DEF TendedInv, Tended, Kept, In
<1>10. BrokenInv'
  BY DEF BrokenInv
<1> QED BY <1>1, <1>2, <1>3, <1>4, <1>5, <1>6, <1>7, <1>8, <1>9, <1>10

LEMMA EditStep == ASSUME IInv, Edit PROVE IInv'
<1> DEFINE drop == inst.strategy # 0 /\ inst.state \notin Active
<1>1. /\ edits < MaxEdits /\ edits' = edits + 1
      /\ inst' = [inst EXCEPT !.auto = ~broken, !.stale = inst.strategy # 0 /\ ~drop,
                              !.strategy = IF drop THEN 0 ELSE inst.strategy]
      /\ edited' = edited \cup ({inst.strategy} \ {0})
      /\ UNCHANGED <<op, strat, built, procs, loop, requests, breaks, mode, broken, scan, panicked,
                     memory, asleep, misforced>>
  BY DEF Edit
<1>2. inst \in InstType /\ broken \in BOOLEAN /\ edits \in 0..MaxEdits /\ edited \subseteq Strats
  BY DEF IInv, ManagerType, FlagType
<1>3. /\ inst'.state = inst.state /\ inst'.strategy \in {0, inst.strategy}
      /\ inst'.stale \in BOOLEAN /\ inst'.auto \in BOOLEAN /\ inst'.strategy \in Strats \cup {0}
      /\ inst'.strategy # inst.strategy => inst.state \notin Active
      /\ inst'.stale => inst'.strategy # 0 /\ inst'.strategy = inst.strategy
  BY <1>1, <1>2 DEF InstType
<1>4. inst' \in InstType
  BY <1>1, <1>2, <1>3 DEF InstType
<1>5. /\ edited \subseteq edited' /\ edited' \subseteq Strats
      /\ inst.strategy # 0 => inst.strategy \in edited'
  BY <1>1, <1>2 DEF InstType
<1>6. edits \in Nat /\ edits' = edits + 1 /\ edits' \in 0..MaxEdits
  BY <1>1, <1>2, Bounds
<1> HIDE DEF drop
<1> USE DEF IInv, In, procs, memory
<1>7. ManagerType' /\ ProcType'
  BY <1>1, <1>4, <1>5, <1>6 DEF ManagerType, FlagType, ProcType
<1>8. CountInv'
  <2>1. built \in Nat /\ requests \in Nat
    BY Bounds DEF CountInv, ManagerType, FlagType
  <2> QED BY <1>1, <1>6, <2>1 DEF CountInv
<1>9. OpInv'
  BY <1>1, <1>3, <1>5 DEF OpInv, Marked
<1>10. HostInv'
  <2>1. built \in Nat /\ inst'.strategy \in 0..built
    BY <1>3 DEF HostInv, CountInv
  <2> QED BY <1>1, <1>3, <1>5, <2>1 DEF HostInv, Kept
<1>11. RetiredInv'
  <2>1. \A s \in 1..built : s = inst.strategy /\ s # inst'.strategy => s \in edited'
    BY <1>5 DEF CountInv
  <2> QED BY <1>1, <1>5, <2>1 DEF RetiredInv, Marked
<1>12. FelledInv'
  <2>1. \A p \in Procs : host[p] \in 1..built => host[p] # 0
    BY DEF CountInv
  <2> QED BY <1>1, <1>3, <2>1 DEF FelledInv, Marked
<1>13. ReportInv' /\ BrokenInv'
  BY <1>1 DEF ReportInv, BrokenInv, Unreported, Passed
<1>14. TendedInv'
  <2>1. inst.state \in {"STARTING", "RUNNING"} => inst'.strategy = inst.strategy
    BY <1>3 DEF Active
  <2> QED BY <1>1, <1>3, <2>1 DEF TendedInv, Kept, Tended
<1> QED BY <1>7, <1>8, <1>9, <1>10, <1>11, <1>12, <1>13, <1>14

-----------------------------------------------------------------------------
LEMMA InitSound == Init => IInv
<1> SUFFICES ASSUME Init PROVE IInv
  OBVIOUS
<1> USE Bounds DEF Init, Free
<1>1. op \in OpType /\ inst \in InstType /\ FlagType
  <2>1. op \in OpType
    BY DEF OpType, Kinds, PCs, States
  <2>2. inst \in InstType
    BY DEF InstType, States
  <2>3. FlagType
    <3>1. /\ mode \in Modes /\ {broken, window, panicked, stopped, overlap, misforced} = {FALSE}
          /\ asleep = {} /\ edited = {} /\ scan = "idle"
      OBVIOUS
    <3>2. requests \in 0..MaxRequests /\ edits \in 0..MaxEdits /\ breaks \in 0..MaxBreaks
      OBVIOUS
    <3> QED BY <3>1, <3>2 DEF FlagType
  <2> QED BY <2>1, <2>2, <2>3
<1>2. ProcType
  BY DEF ProcType, StratType, States, LoopPCs
<1>3. CountInv /\ OpInv /\ HostInv
  BY DEF CountInv, OpInv, HostInv, Kept, In
<1>4. RetiredInv /\ FelledInv /\ ReportInv /\ TendedInv /\ BrokenInv
  BY DEF RetiredInv, FelledInv, ReportInv, TendedInv, Kept, BrokenInv, In, Unreported
<1> QED BY <1>1, <1>2, <1>3, <1>4 DEF IInv, ManagerType

LEMMA StutterSound == ASSUME IInv, UNCHANGED vars PROVE IInv'
<1> USE DEF vars, IInv, In, Marked
<1>1. ManagerType' /\ ProcType'
  BY DEF ManagerType, FlagType, ProcType
<1>2. CountInv' /\ OpInv' /\ HostInv'
  BY DEF CountInv, OpInv, HostInv, Kept
<1>3. RetiredInv' /\ FelledInv'
  BY DEF RetiredInv, FelledInv
<1>4. ReportInv' /\ TendedInv' /\ BrokenInv'
  BY DEF ReportInv, Unreported, TendedInv, Kept, Tended, BrokenInv, Passed
<1> QED BY <1>1, <1>2, <1>3, <1>4

LEMMA OpStepsSound == ASSUME IInv, OpSteps PROVE IInv'
<1>1. CASE StartSteps
  BY <1>1, RefusedStep, BuildStep, LaunchStep, UndoStep, CasStep DEF StartSteps
<1>2. CASE StopSteps
  BY <1>2, StopBeginStep, HaltStep, SignalStep, DrainStep, StoppedStep DEF StopSteps
<1>3. CASE KillSteps
  BY <1>3, KillBeginStep, KillMarkStep, FellStep, KilledStep DEF KillSteps
<1> QED BY <1>1, <1>2, <1>3 DEF OpSteps

LEMMA LoopStepsSound == ASSUME IInv, NEW p \in Procs, LoopSteps(p) PROVE IInv'
BY LoopBeginStep, LoopReapStep, LoopDecideStep, LoopMarkStep, LoopCheckStep, LoopWakeStep
   DEF LoopSteps

LEMMA NextSound == ASSUME IInv, [Next]_vars PROVE IInv'
<1>1. CASE \E kind \in Kinds : Take(kind)
  BY <1>1, TakeStep
<1>2. CASE \E p \in Procs : AutoTake(p) \/ LoopSteps(p) \/ ProcEnds(p)
  BY <1>2, AutoTakeStep, LoopStepsSound, ProcEndsStep
<1>3. CASE OpSteps
  BY <1>3, OpStepsSound
<1>4. CASE Evidence \/ BreakCircuit \/ Release \/ Edit
  BY <1>4, EvidenceStep, BreakStep, ReleaseStep, EditStep
<1>5. CASE StopFails \/ \E p \in Procs : WaitFails(p)
  BY <1>5, StopFailsStep, WaitFailsStep
<1>6. CASE UNCHANGED vars
  BY <1>6, StutterSound
<1> QED BY <1>1, <1>2, <1>3, <1>4, <1>5, <1>6 DEF Next

-----------------------------------------------------------------------------
\* IInv is an invariant of the operations, the loops, the scan and the edits.
THEOREM WaitInductive == Spec => []IInv
<1>1. Init => IInv
  BY InitSound
<1>2. IInv /\ [Next]_vars => IInv'
  BY NextSound
<1> QED BY <1>1, <1>2, PTL DEF Spec

\* Every variable keeps its type; in particular the manager never builds more strategies
\* than operations and edits can account for.
THEOREM WaitTypeCorrect == Spec => []TypeOK
<1>1. IInv => TypeOK
  <2> SUFFICES ASSUME IInv PROVE TypeOK
    OBVIOUS
  <2>1. built \in 0..(MaxRequests + MaxEdits + 1)
    <3>1. built \in Nat /\ built <= requests + edits + 1
      BY Bounds DEF IInv, CountInv, ManagerType, FlagType
    <3>2. requests <= MaxRequests /\ edits <= MaxEdits /\ requests \in Nat /\ edits \in Nat
      BY Bounds DEF IInv, ManagerType, FlagType
    <3> QED BY <3>1, <3>2, Bounds
  <2> QED BY <2>1 DEF IInv, TypeOK, ManagerType, FlagType, OpType, InstType, ProcType, StratType
<1> QED BY <1>1, WaitInductive, PTL

\* While nobody operates on it, an instance whose process runs is recorded RUNNING, unless
\* a call to Docker about that container failed, a start overtook the report of an earlier
\* end or the circuit broke on old evidence (startLocked, dockerStrategy, breakCircuit).
THEOREM HealthyIsRecordedHolds == Spec => []HealthyIsRecorded
<1>1. IInv => HealthyIsRecorded
  <2> SUFFICES ASSUME IInv, op.by = "free", NEW p \in Procs, Kept(p), ~overlap, ~misforced
               PROVE  inst.state = "RUNNING"
    BY DEF HealthyIsRecorded, Kept
  <2>1. Tended(p)
    BY DEF IInv, TendedInv
  <2> QED BY <2>1 DEF Tended, In
<1> QED BY <1>1, WaitInductive, PTL

\* The loop of a process that an operator killed never reports a crash (Kill of direct.go
\* and docker.go, waitLoop): Kill marks the strategy before it signals, and nobody starts
\* that strategy again.
THEOREM KillIsNoCrashHolds == Spec => KillIsNoCrash
<1>1. ASSUME IInv, [Next]_vars
      PROVE  [\A p \in felled : ~(loop[p] = "reaped" /\ loop'[p] = "mark")]_vars
  <2> SUFFICES ASSUME Next, NEW p \in felled, loop[p] = "reaped", loop'[p] = "mark"
               PROVE  FALSE
    BY <1>1
  <2>1. p \in Procs /\ Marked(host[p]) /\ loop \in [Procs -> LoopPCs]
    BY <1>1 DEF IInv, FelledInv, ProcType
  <2>2. LoopDecide(p)
    BY <2>1 DEF Next, OpSteps, StartSteps, StopSteps, KillSteps, LoopSteps, StartRefused, Build,
           Launch, NotLaunched, Launched, Undo, Cas, StopBegin, Halt, Signal, StopFails, Drain,
           Stopped, KillBegin, KillMark, Fell, Killed, LoopBegin, LoopReap, WaitFails, LoopDecide, LoopMark, LoopCheck, LoopWake,
           LoopGoes, AutoTake, Take, ProcEnds, Evidence, BreakCircuit, Release, Edit, At,
           procs, vars, book, memory, counters
  <2> QED BY <2>1, <2>2 DEF LoopDecide, LoopGoes, Marked
<1> QED BY <1>1, WaitInductive, PTL DEF Spec, KillIsNoCrash

\* A loop that wakes from its back-off after an operator's stop or kill has completed does
\* not restart, unless an edit had taken its strategy out of the record (waitLoop).
THEOREM WakeRespectsStopHolds == Spec => WakeRespectsStop
<1>1. ASSUME IInv, [Next]_vars
      PROVE  [\A p \in Procs : loop[p] = "sleep" /\ loop'[p] = "start" /\ stopped
                                 => host[p] \in edited]_vars
  <2> SUFFICES ASSUME Next, NEW p \in Procs, loop[p] = "sleep", loop'[p] = "start", stopped
               PROVE  host[p] \in edited
    BY <1>1
  <2>1. loop \in [Procs -> LoopPCs] /\ p \in 1..spawned /\ host[p] \in 1..built
    <3>1. p \in Nat /\ spawned \in Nat /\ ~(p > spawned) /\ p >= 1
      BY <1>1, Bounds DEF IInv, HostInv, ProcType
    <3> QED BY <1>1, <3>1 DEF IInv, HostInv, ProcType
  <2>2. host[p] \in edited \/ Marked(host[p])
    BY <1>1, <2>1 DEF IInv, RetiredInv
  <2>3. LoopWake(p)
    BY <2>1 DEF Next, OpSteps, StartSteps, StopSteps, KillSteps, LoopSteps, StartRefused, Build,
           Launch, NotLaunched, Launched, Undo, Cas, StopBegin, Halt, Signal, StopFails, Drain,
           Stopped, KillBegin, KillMark, Fell, Killed, LoopBegin, LoopReap, WaitFails, LoopDecide, LoopMark, LoopCheck, LoopWake,
           LoopGoes, AutoTake, Take, ProcEnds, Evidence, BreakCircuit, Release, Edit, At,
           procs, vars, book, memory, counters
  <2> QED BY <2>1, <2>2, <2>3 DEF LoopWake, LoopGoes, Marked
<1> QED BY <1>1, WaitInductive, PTL DEF Spec, WakeRespectsStop

\* While the circuit is broken no process is launched by a loop, except by those that had
\* passed its check when it broke (waitLoop, FR-459).
THEOREM BrokenRestartsNothingHolds == Spec => BrokenRestartsNothing
<1>1. ASSUME IInv, [Next]_vars
      PROVE  [broken /\ op.by = "loop" /\ spawned' # spawned => op.cmd \in asleep]_vars
  <2> SUFFICES ASSUME Next, broken, op.by = "loop", spawned' # spawned PROVE op.cmd \in asleep
    BY <1>1
  <2>1. op.pc = "launch"
    BY DEF Next, OpSteps, StartSteps, StopSteps, KillSteps, LoopSteps, StartRefused, Build,
           Launch, NotLaunched, Launched, Undo, Cas, StopBegin, Halt, Signal, StopFails, Drain,
           Stopped, KillBegin, KillMark, Fell, Killed, LoopBegin, LoopReap, WaitFails, LoopDecide, LoopMark, LoopCheck, LoopWake,
           LoopGoes, AutoTake, Take, ProcEnds, Evidence, BreakCircuit, Release, Edit, At,
           procs, vars, book, memory, counters
  <2>2. op.cmd \in Procs /\ Passed(op.cmd)
    BY <1>1, <2>1 DEF IInv, OpInv, Passed
  <2> QED BY <1>1, <2>2 DEF IInv, BrokenInv
<1> QED BY <1>1, WaitInductive, PTL DEF Spec, BrokenRestartsNothing

-----------------------------------------------------------------------------
\* The state of the record and the holder of the gate are what WorkerInstance sees.
Seen == Contract!Next \/ (inst'.state = inst.state /\ op'.by = op.by)

\* What the mapping needs of the invariant: who may hold the gate, and that a start that is
\* cancelled puts back the end of an earlier run.
LEMMA Holding ==
    ASSUME IInv
    PROVE  /\ op \in OpType /\ inst \in InstType
           /\ op.by # "free" => op.by \in {"operator", "loop"}
           /\ In({"undo"}) => op.old \in {"STOPPED", "CRASHED"}
BY DEF IInv, ManagerType, OpType, OpInv

\* A step of the operation that holds the gate.
LEMMA HolderStep == ASSUME IInv, OpSteps PROVE Seen
<1> DEFINE h == op.by
           Acts == \/ Contract!Leave(h) \/ Contract!Starting(h) \/ Contract!Running(h)
                   \/ Contract!Stopping(h) \/ Contract!AtRest(h)
           Same == inst'.state = inst.state /\ op'.by = op.by
<1>0. /\ op \in OpType /\ inst \in InstType
      /\ op.by # "free" => op.by \in {"operator", "loop"}
      /\ In({"undo"}) => op.old \in {"STOPPED", "CRASHED"}
  BY Holding
<1>1. op.by # "free"
  BY DEF OpSteps, StartSteps, StopSteps, KillSteps, StartRefused, Build, Launch, Undo, Cas,
         StopBegin, Halt, Signal, Drain, Stopped, KillBegin, KillMark, Fell, Killed, At
<1> SUFFICES Acts \/ Same
  BY <1>0, <1>1 DEF Seen, Contract!Next
<1> USE <1>0, <1>1
<1>2. ASSUME StartSteps PROVE Acts \/ Same
  <2>1. ASSUME StartRefused PROVE Acts
    BY <2>1 DEF StartRefused, Free, Contract!Leave, Contract!Held
  <2>2. ASSUME Build PROVE Acts
    BY <2>2 DEF Build, OpType, InstType, Contract!Starting, Contract!Holds
  <2>3. ASSUME Launch PROVE Same
    BY <2>3 DEF Launch, NotLaunched, Launched, Goto, OpType
  <2>4. ASSUME Undo PROVE Acts
    BY <2>4 DEF Undo, At, In, Free, InstType, Contract!AtRest, Contract!Held
  <2>5. ASSUME Cas PROVE Acts
    BY <2>5 DEF Cas, Free, InstType, Contract!Running, Contract!Leave, Contract!Held
  <2> QED BY <1>2, <2>1, <2>2, <2>3, <2>4, <2>5 DEF StartSteps
<1>3. ASSUME StopSteps PROVE Acts \/ Same
  <2>1. ASSUME StopBegin PROVE Acts
    <3>1. CASE inst.strategy = 0
      BY <2>1, <3>1 DEF StopBegin, Free, Contract!Leave, Contract!Held
    <3>2. CASE inst.strategy # 0
      <4>1. inst'.state = "STOPPING"
        BY <2>1, <3>2 DEF StopBegin, InstType
      <4>2. op'.by = op.by
        BY <2>1, <3>2 DEF StopBegin, OpType
      <4> QED BY <4>1, <4>2 DEF Contract!Stopping, Contract!Holds
    <3> QED BY <3>1, <3>2
  <2>2. ASSUME Halt \/ Drain PROVE Same
    BY <2>2 DEF Halt, Drain, Goto, OpType
  <2>3. ASSUME Signal PROVE Acts \/ Same
    BY <2>3 DEF Signal, Goto, Free, OpType, Contract!Leave, Contract!Held
  <2>4. ASSUME Stopped PROVE Acts
    BY <2>4 DEF Stopped, Goto, Free, OpType, InstType, Contract!AtRest, Contract!Held
  <2> QED BY <1>3, <2>1, <2>2, <2>3, <2>4 DEF StopSteps
<1>4. ASSUME KillSteps PROVE Acts \/ Same
  <2>1. ASSUME KillBegin \/ KillMark \/ Fell PROVE Same
    BY <2>1 DEF KillBegin, KillMark, Fell, Goto, OpType, InstType
  <2>2. ASSUME Killed PROVE Acts
    BY <2>2 DEF Killed, Free, InstType, Contract!AtRest, Contract!Held
  <2> QED BY <1>4, <2>1, <2>2 DEF KillSteps
<1> QED BY <1>2, <1>3, <1>4 DEF OpSteps

\* A step that takes the gate, or that happens beside it.
LEMMA BesideStep ==
    ASSUME IInv,
           \/ \E kind \in Kinds : Take(kind)
           \/ \E p \in Procs : AutoTake(p) \/ LoopSteps(p) \/ ProcEnds(p)
           \/ \E p \in Procs : WaitFails(p)
           \/ StopFails \/ Evidence \/ BreakCircuit \/ Release \/ Edit
    PROVE  Seen
<1>0. /\ op \in OpType /\ inst \in InstType
      /\ op.by # "free" => op.by \in {"operator", "loop"}
  BY Holding
<1>1. ASSUME NEW kind \in Kinds, Take(kind) PROVE Seen
  <2>1. Contract!Take("operator")
    BY <1>1 DEF Take, Free, Contract!Take, Contract!Holds
  <2> QED BY <2>1 DEF Seen, Contract!Next
<1>2. ASSUME NEW p \in Procs, AutoTake(p) PROVE Seen
  <2>1. Contract!Take("loop")
    BY <1>2 DEF AutoTake, Free, Contract!Take, Contract!Holds
  <2> QED BY <2>1 DEF Seen, Contract!Next
<1>3. ASSUME NEW p \in Procs, LoopSteps(p) PROVE Seen
  <2>1. ASSUME LoopMark(p) PROVE Contract!Exited
    BY <1>0, <2>1 DEF LoopMark, LoopGoes, InstType, Contract!Exited
  <2>2. ASSUME LoopBegin(p) \/ LoopReap(p) \/ LoopDecide(p) \/ LoopCheck(p) \/ LoopWake(p)
        PROVE  inst' = inst /\ op' = op
    BY <2>2 DEF LoopBegin, LoopReap, LoopDecide, LoopCheck, LoopWake, LoopGoes
  <2> QED BY <1>3, <2>1, <2>2 DEF LoopSteps, Seen, Contract!Next
<1>4. ASSUME NEW p \in Procs, ProcEnds(p) PROVE Seen
  BY <1>4 DEF ProcEnds, Seen
<1>5. ASSUME BreakCircuit PROVE Seen
  <2>1. op' = op /\ (inst'.state = "CRASHED" \/ inst'.state = inst.state)
    BY <1>0, <1>5 DEF BreakCircuit, InstType
  <2> QED BY <2>1 DEF Seen, Contract!Next, Contract!Exited
<1>6. ASSUME Evidence \/ Release \/ Edit PROVE Seen
  BY <1>0, <1>6 DEF Evidence, Release, Edit, InstType, Seen
<1>7. ASSUME \E p \in Procs : WaitFails(p) PROVE Seen
  BY <1>7 DEF WaitFails, LoopGoes, Seen
<1>8. ASSUME StopFails PROVE Seen
  <2>1. Contract!Leave(op.by)
    BY <1>8 DEF StopFails, At, Free, Contract!Leave, Contract!Held
  <2> QED BY <1>0, <1>8, <2>1 DEF StopFails, At, Seen, Contract!Next
<1> QED BY <1>1, <1>2, <1>3, <1>4, <1>5, <1>6, <1>7, <1>8

\* The modes without a wrapper implement WorkerInstance (startLocked, stopLocked,
\* killLocked and markStrategyState over direct.go and docker.go): a start asked for by a
\* loop goes the way of an operator's, and whatever a loop or the scan writes beside the
\* gate is an end that the contract allows there.
THEOREM WaitContractHolds == Spec => WorkerContract
<1>1. Init => Contract!Init
  BY DEF Init, Free, Contract!Init
<1>2. IInv /\ [Next]_vars => [Contract!Next]_<<inst.state, op.by>>
  <2> SUFFICES ASSUME IInv, [Next]_vars PROVE Seen
    BY DEF Seen
  <2>1. ASSUME UNCHANGED vars PROVE Seen
    BY <2>1 DEF vars, Seen
  <2> QED BY <2>1, HolderStep, BesideStep DEF Next
<1> QED BY <1>1, <1>2, WaitInductive, PTL DEF Spec, WorkerContract, Contract!Spec

-----------------------------------------------------------------------------
(* A record that says RUNNING has somebody who will correct it *)

\* The loop of the latest process has still to report, and will not take the end of its
\* process for a stop.
OnDuty == /\ spawned > 0 /\ Unreported(spawned)
          /\ strat[host[spawned]].st \in {"RUNNING", "CRASHED"}

\* Where RUNNING is written the loop is on duty, also when reports of earlier processes
\* have overtaken the start; from then on only a stop or a kill marks the strategy.
WatchInv ==
    /\ inst.state = "RUNNING" => OnDuty \/ In({"mark", "fell", "killed"})
    /\ In({"cas"}) /\ inst.state = "STARTING" => OnDuty
    /\ In({"launch"}) => inst.state \in {"STARTING", "CRASHED"}
    /\ In({"halt"}) => inst.state \in {"STOPPING", "CRASHED"}

LEMMA WatchStep == IInv /\ WatchInv /\ [Next]_vars => WatchInv'
<1> SUFFICES ASSUME IInv, WatchInv, [Next]_vars PROVE WatchInv'
  OBVIOUS
<1> USE DEF In, At
<1>0. /\ op \in OpType /\ inst \in InstType /\ strat \in [Strats -> StratType]
      /\ spawned \in 0..MaxProcs /\ host \in [Procs -> Strats \cup {0}]
      /\ loop \in [Procs -> LoopPCs]
  BY DEF IInv, ManagerType, ProcType
<1>1. spawned > 0 => spawned \in Procs /\ host[spawned] \in Strats /\ host[spawned] \in 1..built
  <2>1. spawned > 0 => spawned \in 1..spawned /\ spawned \in Procs
    BY <1>0, Bounds
  <2> QED
    BY <2>1, Built DEF IInv, HostInv
\* Where the loops and the strategies' states are left alone the state decides.
<1>a. ASSUME UNCHANGED <<loop, strat, spawned, host>> PROVE OnDuty' <=> OnDuty
  BY <1>a DEF OnDuty, Unreported
<1>2. ASSUME NEW kind \in Kinds, Take(kind) PROVE WatchInv'
  <2>1. /\ op.by = "free" /\ op'.pc \in {"start", "stop", "kill"}
        /\ UNCHANGED <<inst, loop, strat, spawned, host>>
    BY <1>2 DEF Take, Entry, Kinds, Free, procs
  <2> QED
    BY <1>a, <2>1 DEF WatchInv
<1>3. ASSUME NEW p \in Procs, AutoTake(p) PROVE WatchInv'
  <2>1. /\ op.by = "free" /\ op'.pc = "start" /\ UNCHANGED <<inst, strat, spawned, host>>
        /\ loop[p] = "start" /\ loop' = [loop EXCEPT ![p] = "done"]
    BY <1>3 DEF AutoTake, Free, procs
  <2>2. OnDuty => OnDuty'
    BY <1>0, <1>1, <2>1 DEF OnDuty, Unreported
  <2> QED
    BY <2>1, <2>2 DEF WatchInv
<1>4. ASSUME \/ StartRefused \/ Undo \/ StopBegin \/ StopFails \/ Drain \/ Stopped
             \/ KillBegin \/ Killed
      PROVE  WatchInv'
  <2>1. UNCHANGED <<loop, strat, spawned, host>>
    BY <1>4 DEF StartRefused, Undo, StopBegin, StopFails, Drain, Stopped, KillBegin, Killed, procs
  <2>2. CASE StartRefused \/ StopFails \/ Drain
    BY <1>0, <1>a, <2>1, <2>2 DEF StartRefused, StopFails, Drain, Goto, Free, OpType, WatchInv
  <2>3. CASE Undo
    <3>1. op.pc = "undo" => op.old \in {"STOPPED", "CRASHED"}
      BY <2>3 DEF IInv, OpInv, Undo
    <3> QED
      BY <1>0, <2>3, <3>1 DEF Undo, Free, InstType, WatchInv
  <2>4. CASE StopBegin
    <3>1. CASE inst.strategy = 0
      BY <1>a, <2>1, <2>4, <3>1 DEF StopBegin, Free, WatchInv
    <3>2. CASE inst.strategy # 0
      <4>1. op'.pc = "halt" /\ inst'.state = "STOPPING"
        BY <1>0, <2>4, <3>2 DEF StopBegin, OpType, InstType
      <4> QED
        BY <4>1 DEF WatchInv
    <3> QED
      BY <3>1, <3>2
  <2>5. CASE Stopped \/ Killed
    <3>1. inst'.state = "STOPPED"
      BY <1>0, <2>5 DEF Stopped, Killed, InstType
    <3>2. op'.by = "free" \/ op'.pc = "start"
      BY <1>0, <2>5 DEF Stopped, Killed, Goto, Free, OpType
    <3> QED
      BY <3>1, <3>2 DEF WatchInv
  <2>6. CASE KillBegin
    BY <1>0, <1>a, <2>1, <2>6 DEF KillBegin, OpType, InstType, WatchInv
  <2> QED
    BY <1>4, <2>2, <2>3, <2>4, <2>5, <2>6
<1>5. ASSUME Build PROVE WatchInv'
  BY <1>0, <1>5 DEF Build, OpType, InstType, WatchInv
<1>6. ASSUME Launch PROVE WatchInv'
  <2>1. /\ op.pc = "launch" /\ op'.pc \in {"undo", "fail", "cas"} /\ UNCHANGED inst
        /\ inst.state \in {"STARTING", "CRASHED"}
    BY <1>0, <1>6 DEF Launch, NotLaunched, Launched, Goto, OpType, WatchInv
  <2>2. op'.pc = "cas" => OnDuty'
    <3> SUFFICES ASSUME op'.pc = "cas" PROVE OnDuty'
      OBVIOUS
    <3> DEFINE p == spawned + 1
               s == op.str
    <3>1. /\ p \in Procs /\ strat' = [strat EXCEPT ![s].st = "RUNNING", ![s].cmd = p]
          /\ host' = [host EXCEPT ![p] = s] /\ loop' = [loop EXCEPT ![p] = "begin"]
          /\ spawned' = p
      BY <1>0, <1>6 DEF Launch, NotLaunched, Launched, Goto, OpType
    <3>2. s \in Strats
      BY <1>6, Built DEF IInv, OpInv, Launch
    <3> QED
      BY <1>0, <3>1, <3>2, Bounds DEF OnDuty, Unreported, StratType
  <2> QED
    BY <2>1, <2>2 DEF WatchInv
<1>7. ASSUME Cas PROVE WatchInv'
  BY <1>0, <1>a, <1>7 DEF Cas, Free, InstType, WatchInv, procs
\* A stop marks the strategy when RUNNING is gone, a kill while it is answering for it.
<1>8. ASSUME Halt \/ KillMark PROVE WatchInv'
  <2>1. CASE Halt
    BY <1>0, <2>1 DEF Halt, OpType, WatchInv
  <2>2. CASE KillMark
    BY <1>0, <2>2 DEF KillMark, OpType, WatchInv
  <2> QED
    BY <1>8, <2>1, <2>2
<1>9. ASSUME Signal \/ Fell PROVE WatchInv'
  <2>1. UNCHANGED <<inst, loop, strat, spawned, host>>
    BY <1>9 DEF Signal, Fell
  <2>2. CASE Signal
    BY <1>0, <1>a, <2>1, <2>2 DEF Signal, Goto, Free, OpType, WatchInv
  <2>3. CASE Fell
    BY <1>0, <1>a, <2>1, <2>3 DEF Fell, Goto, OpType, WatchInv
  <2> QED
    BY <1>9, <2>2, <2>3
<1>10. ASSUME NEW p \in Procs, LoopBegin(p) \/ LoopReap(p) \/ WaitFails(p) \/ LoopCheck(p)
                              \/ LoopWake(p)
       PROVE  WatchInv'
  <2>1. UNCHANGED <<op, inst, strat, spawned, host>>
    BY <1>10 DEF LoopBegin, LoopReap, WaitFails, LoopCheck, LoopWake, LoopGoes, procs
  <2>2. OnDuty => OnDuty'
    <3>1. CASE p = spawned
      BY <1>0, <1>10, <2>1, <3>1 DEF LoopBegin, LoopReap, WaitFails, LoopCheck, LoopWake,
                                     LoopGoes, OnDuty, Unreported
    <3>2. CASE p # spawned
      <4>1. loop'[spawned] = loop[spawned] \/ spawned = 0
        BY <1>0, <1>1, <1>10, <3>2 DEF LoopBegin, LoopReap, WaitFails, LoopCheck, LoopWake,
                                                LoopGoes
      <4> QED
        BY <2>1, <4>1 DEF OnDuty, Unreported
    <3> QED
      BY <3>1, <3>2
  <2> QED
    BY <2>1, <2>2 DEF WatchInv
\* An earlier loop may take the verdict first, but its verdict is a crash as well.
<1>11. ASSUME NEW p \in Procs, LoopDecide(p) PROVE WatchInv'
  <2> DEFINE s == host[p]
             asked == strat[s].st \in {"STOPPING", "STOPPED"}
  <2>1. /\ UNCHANGED <<op, inst, spawned, host>> /\ loop[p] = "reaped"
        /\ loop' = [loop EXCEPT ![p] = IF asked THEN "done" ELSE "mark"]
        /\ \E left : strat' = [strat EXCEPT ![s].st = IF asked THEN "STOPPED" ELSE "CRASHED", ![s].cmd = left]
    BY <1>11 DEF LoopDecide, LoopGoes, procs
  <2>2. ~asked => \A r \in Strats : strat'[r].st \in {"CRASHED", strat[r].st}
    BY <1>0, <2>1 DEF StratType
  <2>3. asked => \A r \in Strats : r # s => strat'[r].st = strat[r].st
    BY <1>0, <2>1 DEF StratType
  <2>4. OnDuty => OnDuty'
    <3> SUFFICES ASSUME OnDuty PROVE OnDuty'
      OBVIOUS
    <3>1. /\ spawned \in Procs /\ host[spawned] \in Strats
          /\ strat[host[spawned]].st \in {"RUNNING", "CRASHED"}
      BY <1>1 DEF OnDuty
    <3>2. strat'[host[spawned]].st \in {"RUNNING", "CRASHED"}
      BY <2>2, <2>3, <3>1
    <3>3. Unreported(spawned)'
      <4>1. asked => p # spawned
        BY <3>1
      <4> QED
        BY <1>0, <2>1, <3>1, <4>1 DEF OnDuty, Unreported
    <3> QED
      BY <2>1, <3>2, <3>3 DEF OnDuty
  <2> QED
    BY <2>1, <2>4 DEF WatchInv
<1>12. ASSUME (\E p \in Procs : LoopMark(p)) \/ BreakCircuit PROVE WatchInv'
  <2>1. UNCHANGED op
    BY <1>12 DEF LoopMark, LoopGoes, BreakCircuit
  <2>2. CASE \E p \in Procs : LoopMark(p)
    <3>1. inst'.state = "CRASHED"
      BY <1>0, <2>2 DEF LoopMark, InstType
    <3> QED
      BY <2>1, <3>1 DEF WatchInv
  <2>3. CASE BreakCircuit
    <3>1. inst'.state \in {"CRASHED", inst.state} /\ UNCHANGED <<loop, strat, spawned, host>>
      BY <1>0, <2>3 DEF BreakCircuit, InstType, procs
    <3> QED
      BY <1>a, <2>1, <3>1 DEF WatchInv
  <2> QED
    BY <1>12, <2>2, <2>3
<1>13. ASSUME (\E p \in Procs : ProcEnds(p)) \/ Evidence \/ Release \/ Edit PROVE WatchInv'
  <2>1. UNCHANGED <<op, loop, strat, spawned, host>> /\ inst'.state = inst.state
    BY <1>0, <1>13 DEF ProcEnds, Evidence, Release, Edit, InstType, procs
  <2> QED
    BY <1>a, <2>1 DEF WatchInv
<1>14. ASSUME UNCHANGED vars PROVE WatchInv'
  BY <1>a, <1>14 DEF vars, procs, WatchInv
<1> QED
  BY <1>2, <1>3, <1>4, <1>5, <1>6, <1>7, <1>8, <1>9, <1>10, <1>11, <1>12, <1>13, <1>14
     DEF Next, OpSteps, StartSteps, StopSteps, KillSteps, LoopSteps

\* In every start mode, and in spite of the races that overlap and misforced record, no crash
\* can go unnoticed for want of somebody to report it.
THEOREM CrashIsWatchedHolds == Spec => []CrashIsWatched
<1>1. Init => WatchInv
  BY DEF Init, WatchInv, In, Free
<1>2. WatchInv => CrashIsWatched
  BY DEF WatchInv, CrashIsWatched, OnDuty, In, At
<1> QED
  BY <1>1, <1>2, WaitInductive, WatchStep, PTL DEF Spec
=============================================================================
