--------------------------- MODULE LifecycleProofs ---------------------------
(***************************************************************************)
(* Safety of the instance lifecycle for every set of callers and editors   *)
(* and every bound.  The inductive invariant IInv says what the holder of  *)
(* the gate may rely on, although edits, reapers and wrappers pay no       *)
(* attention to the gate.  Its last three parts hold as long as no late    *)
(* obituary has changed the record, and say so; what they say of living    *)
(* wrappers leaves out those that missed a stop.                           *)
(***************************************************************************)
EXTENDS LifecycleContract, TLAPS

Javas == {"none", "unrecorded", "recorded"}
USE DEF histories, Javas

Inside(o) == op[o].pc \notin {"idle", "queued"}
GateInv == \A o \in Ops : Inside(o) => gate = o

\* Numbers that have not been given out yet belong to nobody.
FreshInv ==
    /\ \A s \in Ids : s > built => ~strat[s].closed
    /\ \A s \in Ids : strat[s].cmd <= spawned
    /\ \A w \in Ids : w > spawned => life[w] = "none" /\ reaper[w] = "none"
    /\ \A w \in Ids : life[w] \in {"boot", "up", "stopping"} => reaper[w] = "waiting"
    /\ \A w \in Ids : life[w] \in {"none", "boot"} => java[w] = "none" /\ w \notin missed

Detached == {"closeStale", "closeOld", "killing", "closing"}
Holding == Detached \cup {"halt", "dial", "haltKill", "settle"}

\* Whoever is about to close a strategy has taken it out of the record before, and
\* the record's own one is open and, unless marked stale, up to date.
StrategyInv ==
    /\ inst.strategy <= built
    /\ \A o \in Ops : op[o].pc \in Holding => op[o].str \in 1..built
    /\ \A o \in Ops : op[o].pc \in Detached => op[o].str # inst.strategy
    /\ \A o \in Ops : op[o].pc \in {"closeStale", "reset", "killing"} => inst.strategy = 0
    /\ \A e \in Editors : edit[e].pc = "close" =>
           edit[e].str \in 1..built /\ edit[e].str # inst.strategy
    /\ inst.strategy # 0 => /\ ~strat[inst.strategy].closed
                            /\ inst.stale \/ strat[inst.strategy].config = config

\* While a stop is under way the instance is not recorded as running or starting;
\* while a start waits for the prior generation it is recorded as starting, and
\* what a cancelled start puts back is the end of an earlier run.
Ended == {"STOPPED", "CRASHED"}
StateInv ==
    /\ \A o \in Ops : op[o].pc \in {"halt", "dial", "haltKill"} =>
           inst.state \notin {"RUNNING", "STARTING"}
    /\ \A o \in Ops : op[o].pc \in {"wait", "spawn"} =>
           \/ lateObituary
           \/ inst.state = "STARTING" /\ inst.strategy # 0 /\ op[o].str = inst.strategy
    /\ \A o \in Ops : op[o].pc \in {"closeStale", "reset"} => inst.state \in Ended
    /\ \A o \in Ops : op[o].pc \in {"wait", "spawn", "undo"} => op[o].old \in Ended

\* Somebody answers for the wrapper w: the record, through its strategy, or the
\* operation that is about to kill it.
Tended(w) ==
    \/ /\ inst.strategy # 0 /\ strat[inst.strategy].cmd = w
       /\ \/ inst.state = "RUNNING"
          \/ inst.state = "STARTING" /\ \E o \in Ops : op[o].pc = "cas"
          \/ /\ inst.state = "STOPPING"
             /\ \E o \in Ops : /\ op[o].pc \in {"halt", "dial", "haltKill"}
                               /\ op[o].str = inst.strategy
    \/ \E o \in Ops : op[o].pc = "killing" /\ strat[op[o].str].cmd = w

AliveInv ==
    lateObituary \/ \A w \in Ids : Alive(w) => w = spawned /\ (w \in missed \/ Tended(w))

\* Positions that an operation reaches only when no wrapper is alive, but for one that
\* missed a stop.
Cleared == {"closeStale", "reset", "wait", "spawn", "undo", "fail", "settle",
            "closeOld", "stopped", "closing", "killed"}
ClearedInv ==
    lateObituary \/ \A o \in Ops : op[o].pc \in Cleared => \A w \in Ids : Alive(w) => w \in missed

\* Wrappers that a start finds: by the socket, or by the PID file, which names the one
\* whose Java is recorded.
Occupies(w) == life[w] \in {"boot", "up", "stopping"} \/ java[w] = "recorded"

JavaInv ==
    \/ lateObituary
    \/ /\ \A v, w \in Ids : Occupies(v) /\ Occupies(w) => v = w
       /\ \A w \in Ids : java[w] = "recorded" => pidFile = w
       /\ \A o \in Ops : op[o].pc = "spawn" => \A v \in Ids : ~Occupies(v)

\* The version of the configuration is the number of edits.
EditCount == config = edits

IInv == /\ TypeOK /\ EditCount /\ GateInv /\ FreshInv /\ StrategyInv /\ StateInv
        /\ AliveInv /\ ClearedInv /\ JavaInv

-----------------------------------------------------------------------------
(* Type correctness *)

OpRec == [pc : PCs, kind : Kinds, old : States, str : NoId]
StratRec == [st : States, cmd : NoId, closed : BOOLEAN, config : 0..MaxEdits]

\* An operation that moves on, or leaves, keeps its type.
LEMMA OpType ==
    ASSUME TypeOK, NEW o \in Ops,
           Leave(o) \/ \E pc \in PCs : Goto(o, pc)
    PROVE  op' \in [Ops -> OpRec] /\ gate' \in Ops \cup {"free"}
<1>0. op \in [Ops -> OpRec] /\ gate \in Ops \cup {"free"}
  BY DEF TypeOK, OpRec
<1>1. CASE Leave(o)
  <2>1. IdleOp \in OpRec
    BY BoundAssumption DEF BoundAssumption, IdleOp, OpRec, PCs, Kinds, States, NoId
  <2> QED
    BY <1>0, <1>1, <2>1 DEF Leave
<1>2. ASSUME NEW pc \in PCs, Goto(o, pc) PROVE op' \in [Ops -> OpRec] /\ gate' = gate
  <2>1. [op[o] EXCEPT !.pc = pc] \in OpRec
    BY <1>0 DEF OpRec
  <2>2. op' = [op EXCEPT ![o] = [op[o] EXCEPT !.pc = pc]]
    BY <1>0, <1>2 DEF Goto
  <2> QED
    BY <1>0, <1>2, <2>1, <2>2 DEF Goto
<1> QED
  BY <1>0, <1>1, <1>2

\* Every action keeps the variables in their types.
LEMMA TypeStep == TypeOK /\ EditCount /\ [Next]_vars => TypeOK'
<1> SUFFICES ASSUME TypeOK, EditCount, [Next]_vars PROVE TypeOK'
  OBVIOUS
<1> DEFINE InstRec == [state : States, strategy : NoId, stale : BOOLEAN, resetting : BOOLEAN]
           EditRec == [pc : {"idle", "close", "finish"}, str : NoId]
           Lives == {"none", "boot", "up", "stopping", "gone"}
           Reapers == {"none", "waiting", "reaped", "STOPPED", "CRASHED", "done"}
<1> USE BoundAssumption DEF BoundAssumption
<1> USE DEF record, strategies, wrappers, spawning, counters
<1>0. /\ gate \in Ops \cup {"free"} /\ inst \in InstRec /\ config \in 0..MaxEdits
      /\ op \in [Ops -> OpRec] /\ edit \in [Editors -> EditRec]
      /\ strat \in [Ids -> StratRec]
      /\ life \in [Ids -> Lives] /\ java \in [Ids -> Javas]
      /\ host \in [Ids -> NoId] /\ reaper \in [Ids -> Reapers]
      /\ built \in NoId /\ spawned \in NoId /\ pidFile \in NoId /\ requests \in NoId
      /\ edits \in 0..MaxEdits /\ lateObituary \in BOOLEAN /\ missed \subseteq Ids
  BY DEF TypeOK, OpRec, StratRec
<1> DEFINE Typed ==
      /\ gate' \in Ops \cup {"free"} /\ inst' \in InstRec /\ config' \in 0..MaxEdits
      /\ op' \in [Ops -> OpRec] /\ edit' \in [Editors -> EditRec]
      /\ strat' \in [Ids -> StratRec]
      /\ life' \in [Ids -> Lives] /\ java' \in [Ids -> Javas]
      /\ host' \in [Ids -> NoId] /\ reaper' \in [Ids -> Reapers]
      /\ built' \in NoId /\ spawned' \in NoId /\ pidFile' \in NoId /\ requests' \in NoId
      /\ edits' \in 0..MaxEdits /\ lateObituary' \in BOOLEAN /\ missed' \subseteq Ids
<1> SUFFICES Typed
  BY DEF TypeOK, OpRec, StratRec
<1> DEFINE Grants == gate' \in Ops \cup {"free"} /\ op' \in [Ops -> OpRec]
<1> HIDE DEF InstRec, EditRec, Lives, Reapers
<1>a. \A o \in Ops : Leave(o) \/ (\E pc \in PCs : Goto(o, pc)) => Grants
  BY OpType
<1>b. ASSUME NEW st \in States, NEW n \in NoId, NEW x \in BOOLEAN, NEW y \in BOOLEAN
      PROVE  [inst EXCEPT !.state = st, !.strategy = n, !.stale = x, !.resetting = y] \in InstRec
  BY <1>0 DEF InstRec
<1>c. ASSUME NEW s \in NoId, NEW st \in States, NEW c \in NoId, NEW x \in BOOLEAN,
             NEW v \in 0..MaxEdits
      PROVE  [strat EXCEPT ![s] = [st |-> st, cmd |-> c, closed |-> x, config |-> v]]
                \in [Ids -> StratRec]
  BY <1>0 DEF StratRec
<1>d. IdleOp \in OpRec
  BY DEF IdleOp, OpRec, PCs, Kinds, States, NoId
<1>e. ASSUME NEW o \in Ops, NEW pc \in PCs, NEW kind \in Kinds, NEW old \in States, NEW n \in NoId
      PROVE  [op EXCEPT ![o] = [pc |-> pc, kind |-> kind, old |-> old, str |-> n]]
                \in [Ops -> OpRec]
  BY <1>0 DEF OpRec
<1>f. \A o \in Ops : op[o] \in OpRec /\ op[o].str \in NoId /\ op[o].kind \in Kinds
                     /\ op[o].old \in States
  BY <1>0 DEF OpRec
<1>g. 0 \in NoId /\ inst.strategy \in NoId
  BY <1>0 DEF NoId, InstRec
<1>1. ASSUME NEW o \in Ops, NEW kind \in Kinds, Request(o, kind) PROVE Grants
  <2>1. [IdleOp EXCEPT !.pc = "queued", !.kind = kind] \in OpRec
    BY <1>d DEF OpRec, PCs
  <2> QED
    BY <1>0, <1>1, <2>1 DEF Request
<1>2. ASSUME NEW o \in Ops, Lock(o) PROVE Grants
  BY <1>0, <1>f, <1>2 DEF Lock, OpRec, PCs
<1>3. ASSUME NEW o \in Ops, Cancelled(o) PROVE Grants
  BY <1>0, <1>a, <1>d, <1>3 DEF Cancelled
<1>4. ASSUME NEW o \in Ops, Heal(o) \/ Restart(o) PROVE Grants
  BY <1>a, <1>4 DEF Heal, Restart, PCs, Kinds
<1>5. ASSUME NEW o \in Ops, StartRefused(o) PROVE Grants /\ inst' \in InstRec
  BY <1>0, <1>a, <1>5 DEF StartRefused, InstRec
<1>6. ASSUME NEW o \in Ops, DropStale(o) PROVE Grants /\ inst' \in InstRec
  <2>1. inst' \in InstRec
    BY <1>0, <1>g, <1>6 DEF DropStale, InstRec
  <2>2. [op[o] EXCEPT !.pc = "closeStale", !.str = inst.strategy] \in OpRec
    BY <1>f, <1>g DEF OpRec, PCs
  <2>3. /\ op' = [op EXCEPT ![o] = [op[o] EXCEPT !.pc = "closeStale", !.str = inst.strategy]]
        /\ gate' = gate
    BY <1>0, <1>6 DEF DropStale
  <2> QED
    BY <1>0, <2>1, <2>2, <2>3
<1>7. ASSUME NEW o \in Ops, CloseStale(o) \/ CloseOld(o) \/ Closing(o)
      PROVE  Grants /\ strat' \in [Ids -> StratRec]
  <2>1. Grants
    BY <1>a, <1>7 DEF CloseStale, CloseOld, Closing, PCs
  <2>2. Close(op[o].str)
    BY <1>7 DEF CloseStale, CloseOld, Closing
  <2>3. strat' \in [Ids -> StratRec]
    BY <1>0, <2>2 DEF Close, StratRec
  <2> QED
    BY <2>1, <2>3
<1>8. ASSUME NEW o \in Ops, Build(o)
      PROVE  Grants /\ inst' \in InstRec /\ strat' \in [Ids -> StratRec] /\ built' \in NoId
  <2> DEFINE s == IF inst.strategy = 0 THEN built + 1 ELSE inst.strategy
  <2>1. s \in Ids /\ s \in NoId /\ inst.state \in States
    BY <1>0, <1>8 DEF Build, Ids, NoId, InstRec
  <2>2. inst' \in InstRec
    <3>1. inst' = [inst EXCEPT !.state = "STARTING", !.strategy = s, !.resetting = FALSE]
      BY <1>8 DEF Build
    <3> QED
      BY <1>0, <2>1, <3>1 DEF InstRec, States
  <2>3. Grants
    <3>1. /\ op' = [op EXCEPT ![o].pc = "wait", ![o].old = inst.state, ![o].str = s]
          /\ gate' = gate
      BY <1>8 DEF Build
    <3> HIDE DEF s
    <3>2. [op[o] EXCEPT !.pc = "wait", !.old = inst.state, !.str = s] \in OpRec
      BY <1>0, <2>1 DEF OpRec, PCs
    <3>3. op' = [op EXCEPT ![o] = [op[o] EXCEPT !.pc = "wait", !.old = inst.state, !.str = s]]
      BY <1>0, <3>1
    <3> QED
      BY <1>0, <3>1, <3>2, <3>3
  <2>4. strat' \in [Ids -> StratRec]
    <3>1. strat' = IF s > built THEN [strat EXCEPT ![s].config = config] ELSE strat
      BY <1>8 DEF Build
    <3> HIDE DEF s
    <3> QED
      BY <1>0, <3>1 DEF StratRec
  <2>5. built' = IF s > built THEN s ELSE built
    BY <1>8 DEF Build
  <2> QED
    BY <1>0, <2>1, <2>2, <2>3, <2>4, <2>5
<1>9. ASSUME NEW o \in Ops, WaitPrior(o) PROVE Grants /\ strat' \in [Ids -> StratRec]
  <2>1. Grants
    BY <1>a, <1>9 DEF WaitPrior, PCs
  <2>2. strat' \in [Ids -> StratRec]
    BY <1>0, <1>9 DEF WaitPrior, StratRec, States
  <2> QED
    BY <2>1, <2>2
<1>10. ASSUME NEW o \in Ops, Spawn(o)
       PROVE  /\ Grants /\ strat' \in [Ids -> StratRec]
              /\ spawned' \in NoId /\ host' \in [Ids -> NoId]
              /\ life' \in [Ids -> Lives] /\ reaper' \in [Ids -> Reapers]
  <2>1. Grants
    BY <1>a, <1>10 DEF Spawn, PCs
  <2>2. CASE op[o].kind # "heal" /\ Goto(o, "undo") /\ UNCHANGED <<strat, spawning, life, reaper>>
    BY <1>0, <2>1, <2>2
  <2>3. CASE strat' = [strat EXCEPT ![op[o].str].st = "CRASHED"]
             /\ UNCHANGED <<spawning, life, reaper>>
    BY <1>0, <2>1, <2>3 DEF StratRec, States
  <2>4. CASE /\ spawned + 1 \in Ids
             /\ strat' = [strat EXCEPT ![op[o].str].st = "RUNNING", ![op[o].str].cmd = spawned + 1]
             /\ spawned' = spawned + 1 /\ host' = [host EXCEPT ![spawned + 1] = op[o].str]
             /\ life' = [life EXCEPT ![spawned + 1] = "boot"]
             /\ reaper' = [reaper EXCEPT ![spawned + 1] = "waiting"]
    <3>1. spawned + 1 \in NoId /\ op[o].str \in NoId
      BY <1>0, <1>f, <2>4 DEF Ids, NoId
    <3>2. strat' \in [Ids -> StratRec]
      <4>1. "RUNNING" \in States /\ strat \in [Ids -> StratRec]
        BY <1>0 DEF States
      <4> QED
        BY <2>4, <3>1, <4>1 DEF StratRec
    <3> QED
      BY <1>0, <2>1, <2>4, <3>1, <3>2 DEF Lives, Reapers
  <2> QED
    BY <1>10, <2>2, <2>3, <2>4 DEF Spawn
<1>11. ASSUME NEW o \in Ops, Undo(o) \/ Cas(o) PROVE Grants /\ inst' \in InstRec
  <2>1. inst' \in InstRec
    BY <1>0, <1>f, <1>11 DEF Undo, Cas, InstRec, States
  <2> QED
    BY <1>a, <1>11, <2>1 DEF Undo, Cas
<1>12. ASSUME NEW o \in Ops, StopRefused(o) PROVE Grants
  BY <1>a, <1>12 DEF StopRefused
<1>13. ASSUME NEW o \in Ops, StopBegin(o) PROVE Grants /\ inst' \in InstRec
  <2>1. inst' \in InstRec /\ inst.strategy \in NoId
    BY <1>0, <1>13 DEF StopBegin, InstRec, States
  <2>2. gate' = gate /\ op' = [op EXCEPT ![o].pc = "halt", ![o].str = inst.strategy]
    BY <1>13 DEF StopBegin
  <2>3. [op[o] EXCEPT !.pc = "halt", !.str = inst.strategy] \in OpRec
    BY <1>0, <2>1 DEF OpRec, PCs
  <2>4. op' = [op EXCEPT ![o] = [op[o] EXCEPT !.pc = "halt", !.str = inst.strategy]]
    BY <1>0, <2>2
  <2> QED
    BY <1>0, <2>1, <2>2, <2>3, <2>4
<1>14. ASSUME NEW o \in Ops, Halt(o) PROVE Grants /\ strat' \in [Ids -> StratRec]
  <2>1. Grants
    BY <1>a, <1>14 DEF Halt, PCs
  <2> QED
    BY <1>0, <1>14, <2>1 DEF Halt, StratRec, States
<1>15. ASSUME NEW o \in Ops, Dial(o) \/ HaltKill(o)
       PROVE  Grants /\ life' \in [Ids -> Lives] /\ missed' \subseteq Ids
  <2>1. Grants
    BY <1>a, <1>15 DEF Dial, HaltKill, PCs
  <2> QED
    BY <1>0, <1>15, <2>1 DEF Dial, HaltKill, Lives
<1>16. ASSUME NEW o \in Ops, Settle(o) \/ Stopped(o) PROVE Grants /\ inst' \in InstRec
  <2>1. Grants
    BY <1>a, <1>16 DEF Settle, Stopped, PCs, Kinds
  <2>2. CASE Settle(o)
    BY <1>0, <1>g, <2>1, <2>2 DEF Settle, InstRec
  <2>3. CASE Stopped(o)
    BY <1>0, <2>1, <2>3 DEF Stopped, InstRec, States
  <2> QED
    BY <1>16, <2>2, <2>3
<1>17. ASSUME NEW o \in Ops, KillBegin(o) PROVE Grants /\ inst' \in InstRec
  <2>1. inst' \in InstRec
    BY <1>0, <1>g, <1>17 DEF KillBegin, InstRec
  <2>2. [op[o] EXCEPT !.pc = IF inst.strategy = 0 THEN "killed" ELSE "killing",
                      !.str = inst.strategy] \in OpRec
    BY <1>0, <1>g DEF OpRec, PCs
  <2> QED
    BY <1>0, <1>17, <2>1, <2>2 DEF KillBegin
<1>18. ASSUME NEW o \in Ops, Killing(o)
       PROVE  Grants /\ life' \in [Ids -> Lives] /\ java' \in [Ids -> Javas]
  <2>1. Grants
    BY <1>a, <1>18 DEF Killing, PCs
  <2> QED
    BY <1>0, <1>18, <2>1 DEF Killing, Lives
<1>19. ASSUME NEW o \in Ops, Killed(o) PROVE Grants /\ inst' \in InstRec
  <2>1. inst' \in InstRec
    BY <1>0, <1>19 DEF Killed, InstRec, States
  <2> QED
    BY <1>a, <1>19, <2>1 DEF Killed
<1>20. ASSUME NEW e \in Editors, EditWrite(e)
       PROVE  /\ inst' \in InstRec /\ edit' \in [Editors -> EditRec]
              /\ config' \in 0..MaxEdits /\ edits' \in 0..MaxEdits
  <2>1. edits' \in 0..MaxEdits
    BY <1>0, <1>20 DEF EditWrite
  <2>2. inst' \in InstRec
    <3>1. \/ inst' = inst
          \/ inst' = [inst EXCEPT !.stale = TRUE]
          \/ inst' = [inst EXCEPT !.strategy = 0, !.stale = FALSE, !.resetting = TRUE]
      BY <1>20 DEF EditWrite
    <3> QED
      BY <1>0, <1>g, <3>1 DEF InstRec
  <2>3. edit' \in [Editors -> EditRec]
    BY <1>0, <1>g, <1>20 DEF EditWrite, EditRec
  <2>4. config' \in 0..MaxEdits
    BY <1>0, <1>20 DEF EditWrite, EditCount
  <2> QED
    BY <2>1, <2>2, <2>3, <2>4
<1>21. ASSUME NEW e \in Editors, EditClose(e) \/ EditFinish(e)
       PROVE  /\ inst' \in InstRec /\ edit' \in [Editors -> EditRec]
              /\ strat' \in [Ids -> StratRec]
  <2>1. edit' \in [Editors -> EditRec]
    <3>1. IdleEdit \in EditRec
      BY DEF IdleEdit, EditRec, NoId
    <3> QED
      BY <1>0, <1>21, <3>1 DEF EditClose, EditFinish, EditRec
  <2>2. strat' \in [Ids -> StratRec]
    <3>1. Close(edit[e].str) \/ strat' = strat
      BY <1>21 DEF EditClose, EditFinish
    <3>2. CASE Close(edit[e].str)
      BY <1>0, <3>2 DEF Close, StratRec
    <3> QED
      BY <1>0, <3>1, <3>2
  <2> QED
    BY <1>0, <1>21, <2>1, <2>2 DEF EditClose, EditFinish, InstRec
<1>22. ASSUME NEW v \in Ids, WrapperSteps(v) \/ OrphanEnds(v)
       PROVE  /\ life' \in [Ids -> Lives] /\ java' \in [Ids -> Javas] /\ pidFile' \in NoId
  <2>1. v \in NoId
    BY DEF Ids, NoId
  <2> QED
    BY <1>0, <1>g, <1>22, <2>1 DEF WrapperSteps, WrapperUp, LaunchJava, RecordJava,
       WrapperEnds, OrphanEnds, Lives
<1>23. ASSUME NEW v \in Ids, Reap(v) PROVE reaper' \in [Ids -> Reapers]
  BY <1>0, <1>23 DEF Reap, ReaperGoes, Reapers
<1>24. ASSUME NEW v \in Ids, Decide(v)
       PROVE  reaper' \in [Ids -> Reapers] /\ strat' \in [Ids -> StratRec]
  <2>1. reaper' \in [Ids -> Reapers]
    BY <1>0, <1>24 DEF Decide, ReaperGoes, Reapers
  <2>2. PICK st \in {"STOPPED", "CRASHED"} :
          strat' = [strat EXCEPT ![host[v]].st = st] \/ strat' = strat
    BY <1>24 DEF Decide
  <2>3. strat' \in [Ids -> StratRec]
    BY <1>0, <2>2 DEF StratRec, States
  <2> QED
    BY <2>1, <2>3
<1>25. ASSUME NEW v \in Ids, Mark(v)
       PROVE  reaper' \in [Ids -> Reapers] /\ inst' \in InstRec /\ lateObituary' \in BOOLEAN
  <2>1. PICK st \in {"STOPPED", "CRASHED"} :
          /\ ReaperGoes(v, st, "done")
          /\ inst' = inst \/ inst' = [inst EXCEPT !.state = st]
          /\ lateObituary' \in BOOLEAN
    BY <1>25 DEF Mark
  <2> QED
    BY <1>0, <2>1 DEF ReaperGoes, Reapers, InstRec, States
<1>26. UNCHANGED vars => Typed
  BY <1>0 DEF vars
<1> QED
  <2>1. ASSUME NEW o \in Ops, NEW kind \in Kinds, Request(o, kind) PROVE Typed
    <3>1. Grants
      BY <1>1, <2>1
    <3>2. requests' \in NoId
      BY <1>0, <2>1 DEF Request, NoId
    <3> QED
      BY <1>0, <2>1, <3>1, <3>2 DEF Request
  <2>2. ASSUME NEW o \in Ops, Lock(o) PROVE Typed
    BY <1>0, <1>2, <2>2 DEF Lock
  <2>3. ASSUME NEW o \in Ops, Cancelled(o) PROVE Typed
    BY <1>0, <1>3, <2>3 DEF Cancelled
  <2>4. ASSUME NEW o \in Ops, Heal(o) \/ Restart(o) PROVE Typed
    BY <1>0, <1>4, <2>4 DEF Heal, Restart
  <2>5. ASSUME NEW o \in Ops, StartRefused(o) PROVE Typed
    BY <1>0, <1>5, <2>5 DEF StartRefused
  <2>6. ASSUME NEW o \in Ops, DropStale(o) PROVE Typed
    BY <1>0, <1>6, <2>6 DEF DropStale
  <2>7. ASSUME NEW o \in Ops, CloseStale(o) \/ CloseOld(o) \/ Closing(o) PROVE Typed
    BY <1>0, <1>7, <2>7 DEF CloseStale, CloseOld, Closing
  <2>8. ASSUME NEW o \in Ops, Build(o) PROVE Typed
    BY <1>0, <1>8, <2>8 DEF Build
  <2>9. ASSUME NEW o \in Ops, WaitPrior(o) PROVE Typed
    BY <1>0, <1>9, <2>9 DEF WaitPrior
  <2>10. ASSUME NEW o \in Ops, Spawn(o) PROVE Typed
    BY <1>0, <1>10, <2>10 DEF Spawn
  <2>11. ASSUME NEW o \in Ops, Undo(o) \/ Cas(o) PROVE Typed
    BY <1>0, <1>11, <2>11 DEF Undo, Cas
  <2>12. ASSUME NEW o \in Ops, StopRefused(o) PROVE Typed
    BY <1>0, <1>12, <2>12 DEF StopRefused
  <2>13. ASSUME NEW o \in Ops, StopBegin(o) PROVE Typed
    BY <1>0, <1>13, <2>13 DEF StopBegin
  <2>14. ASSUME NEW o \in Ops, Halt(o) PROVE Typed
    BY <1>0, <1>14, <2>14 DEF Halt
  <2>15. ASSUME NEW o \in Ops, Dial(o) \/ HaltKill(o) PROVE Typed
    BY <1>0, <1>15, <2>15 DEF Dial, HaltKill
  <2>16. ASSUME NEW o \in Ops, Settle(o) \/ Stopped(o) PROVE Typed
    BY <1>0, <1>16, <2>16 DEF Settle, Stopped
  <2>17. ASSUME NEW o \in Ops, KillBegin(o) PROVE Typed
    BY <1>0, <1>17, <2>17 DEF KillBegin
  <2>18. ASSUME NEW o \in Ops, Killing(o) PROVE Typed
    BY <1>0, <1>18, <2>18 DEF Killing
  <2>19. ASSUME NEW o \in Ops, Killed(o) PROVE Typed
    BY <1>0, <1>19, <2>19 DEF Killed
  <2>20. ASSUME NEW e \in Editors, EditWrite(e) PROVE Typed
    BY <1>0, <1>20, <2>20 DEF EditWrite
  <2>21. ASSUME NEW e \in Editors, EditClose(e) \/ EditFinish(e) PROVE Typed
    BY <1>0, <1>21, <2>21 DEF EditClose, EditFinish
  <2>22. ASSUME NEW v \in Ids, WrapperSteps(v) \/ OrphanEnds(v) PROVE Typed
    BY <1>0, <1>22, <2>22 DEF WrapperSteps, WrapperUp, LaunchJava, RecordJava, WrapperEnds,
       OrphanEnds
  <2>23. ASSUME NEW v \in Ids, Reap(v) PROVE Typed
    BY <1>0, <1>23, <2>23 DEF Reap, ReaperGoes
  <2>24. ASSUME NEW v \in Ids, Decide(v) PROVE Typed
    BY <1>0, <1>24, <2>24 DEF Decide, ReaperGoes
  <2>25. ASSUME NEW v \in Ids, Mark(v) PROVE Typed
    BY <1>0, <1>25, <2>25 DEF Mark, ReaperGoes
  <2> HIDE DEF Typed
  <2> QED
    BY <1>26, <2>1, <2>2, <2>3, <2>4, <2>5, <2>6, <2>7, <2>8, <2>9, <2>10, <2>11, <2>12, <2>13,
       <2>14, <2>15, <2>16, <2>17, <2>18, <2>19, <2>20, <2>21, <2>22, <2>23, <2>24, <2>25
       DEF Next, OpSteps, StartSteps, StopSteps, KillSteps, EditSteps, ReaperSteps

-----------------------------------------------------------------------------
(* The gate *)

\* Where Goto and Leave lead.
LEMMA Moves ==
    ASSUME TypeOK, NEW o \in Ops
    PROVE  /\ Leave(o) => op'[o].pc = "idle"
           /\ \A pc : Goto(o, pc) => op'[o].pc = pc /\ op'[o].str = op[o].str
                                       /\ op'[o].old = op[o].old
<1>1. op \in [Ops -> OpRec]
  BY DEF TypeOK, OpRec
<1> QED
  BY <1>1 DEF Leave, Goto, IdleOp, OpRec

\* Only the holder of the gate moves inside, so the other operations stay outside.
LEMMA OthersOut ==
    ASSUME TypeOK, GateInv, NEW o \in Ops, OpSteps(o)
    PROVE  /\ gate = o
           /\ \A p \in Ops \ {o} : op'[p] = op[p] /\ op[p].pc \in {"idle", "queued"}
<1>0. op \in [Ops -> OpRec]
  BY DEF TypeOK, OpRec
<1>1. /\ Inside(o)
      /\ \A p \in Ops \ {o} : op'[p] = op[p]
  <2>1. CASE Heal(o) \/ Restart(o)
    BY <1>0, <2>1 DEF Heal, Restart, Inside, Goto, Leave
  <2>2. CASE StartSteps(o)
    BY <1>0, <2>2 DEF StartSteps, StartRefused, DropStale, CloseStale, Build, WaitPrior, Spawn,
       Undo, Cas, Inside, Goto, Leave
  <2>3. CASE StopSteps(o)
    BY <1>0, <2>3 DEF StopSteps, StopRefused, StopBegin, Halt, Dial, HaltKill, Settle, CloseOld,
       Stopped, Inside, Goto, Leave
  <2>4. CASE KillSteps(o)
    BY <1>0, <2>4 DEF KillSteps, KillBegin, Killing, Closing, Killed, Inside, Goto, Leave
  <2> QED
    BY <2>1, <2>2, <2>3, <2>4 DEF OpSteps
<1> QED
  BY <1>1 DEF GateInv, Inside

\* Requests, and operations that enter or give up, touch nothing but the gate.
LEMMA Entering ==
    ASSUME TypeOK, NEW o \in Ops, (\E kind \in Kinds : Request(o, kind)) \/ Lock(o) \/ Cancelled(o)
    PROVE  /\ \A p \in Ops \ {o} : op'[p] = op[p]
           /\ op[o].pc \in Kinds \cup {"idle", "queued"}
           /\ op'[o].pc \in Kinds \cup {"idle", "queued"}
           /\ UNCHANGED <<inst, config, edit, strat, built, life, java, host, reaper, spawned,
                          pidFile, edits, lateObituary, missed>>
<1>0. op \in [Ops -> OpRec] /\ op[o].kind \in Kinds
  BY DEF TypeOK, OpRec
<1>1. CASE \E kind \in Kinds : Request(o, kind)
  BY <1>0, <1>1 DEF Request, IdleOp, record, strategies, wrappers, spawning
<1>2. CASE Lock(o)
  BY <1>0, <1>2 DEF Lock, strategies, wrappers, spawning, counters
<1>3. CASE Cancelled(o)
  BY <1>0, <1>3 DEF Cancelled, Leave, IdleOp, strategies, wrappers, spawning, counters
<1> QED
  BY <1>1, <1>2, <1>3

\* Edits, wrappers and reapers do not touch operations or the gate.
Beside == \/ \E e \in Editors : EditWrite(e) \/ EditSteps(e)
          \/ \E w \in Ids : WrapperSteps(w) \/ OrphanEnds(w) \/ ReaperSteps(w)

LEMMA BesideFrame == Beside => UNCHANGED <<op, gate>>
BY DEF Beside, EditWrite, EditSteps, EditClose, EditFinish, WrapperSteps, WrapperUp,
   LaunchJava, RecordJava, WrapperEnds, OrphanEnds,
   ReaperSteps, Reap, Decide, Mark, ReaperGoes, record, strategies, wrappers, spawning, counters

\* At most one operation is inside.
LEMMA GateStep == TypeOK /\ GateInv /\ [Next]_vars => GateInv'
<1> SUFFICES ASSUME TypeOK, GateInv, [Next]_vars PROVE GateInv'
  OBVIOUS
<1>0. op \in [Ops -> OpRec]
  BY DEF TypeOK, OpRec
<1>1. ASSUME NEW o \in Ops, NEW kind \in Kinds, Request(o, kind) PROVE GateInv'
  BY <1>0, <1>1 DEF Request, GateInv, Inside, IdleOp, record
<1>2. ASSUME NEW o \in Ops, Lock(o) PROVE GateInv'
  <2>1. \A p \in Ops : ~Inside(p)
    BY <1>2, OpsAssumption DEF Lock, GateInv, OpsAssumption
  <2> QED
    BY <1>0, <1>2, <2>1 DEF Lock, GateInv, Inside
<1>3. ASSUME NEW o \in Ops, Cancelled(o) PROVE GateInv'
  <2>1. op[o].pc \in Kinds => Inside(o)
    BY DEF Inside, Kinds
  <2> QED
    BY <1>0, <1>3, <2>1 DEF Cancelled, GateInv, Inside, Leave, IdleOp
<1>4. ASSUME NEW o \in Ops, OpSteps(o) PROVE GateInv'
  <2>1. gate' = gate \/ (gate' = "free" /\ op' = [op EXCEPT ![o] = IdleOp])
    BY <1>4 DEF OpSteps, Heal, Restart, StartSteps, StartRefused, DropStale, CloseStale, Build,
       WaitPrior, Spawn, Undo, Cas, StopSteps, StopRefused, StopBegin, Halt, Dial, HaltKill,
       Settle, CloseOld, Stopped, KillSteps, KillBegin, Killing, Closing, Killed, Goto, Leave
  <2>2. gate = o /\ \A p \in Ops \ {o} : op'[p] = op[p] /\ op[p].pc \in {"idle", "queued"}
    BY <1>4, OthersOut
  <2> QED
    BY <1>0, <2>1, <2>2 DEF GateInv, Inside, IdleOp
<1>5. CASE Beside \/ UNCHANGED vars
  BY <1>5, BesideFrame DEF GateInv, Inside, vars
<1> QED
  BY <1>1, <1>2, <1>3, <1>4, <1>5 DEF Next, Beside

\* Only an edit changes the configuration, and it is counted.
LEMMA EditCountStep == EditCount /\ [Next]_vars => EditCount'
<1> SUFFICES ASSUME EditCount, [Next]_vars PROVE config' = edits'
  BY DEF EditCount
<1> USE DEF EditCount, record, counters
<1>1. CASE \E o \in Ops : Lock(o) \/ Cancelled(o) \/ \E kind \in Kinds : Request(o, kind)
  BY <1>1 DEF Lock, Cancelled, Request
<1>2. ASSUME NEW o \in Ops, Heal(o) \/ Restart(o) \/ KillSteps(o) PROVE config' = edits'
  BY <1>2 DEF Heal, Restart, KillSteps, KillBegin, Killing, Closing, Killed
<1>3. ASSUME NEW o \in Ops, StartSteps(o) PROVE config' = edits'
  BY <1>3 DEF StartSteps, StartRefused, DropStale, CloseStale, Build, WaitPrior, Spawn, Undo, Cas
<1>4. ASSUME NEW o \in Ops, StopSteps(o) PROVE config' = edits'
  BY <1>4 DEF StopSteps, StopRefused, StopBegin, Halt, Dial, HaltKill, Settle, CloseOld, Stopped
<1>5. ASSUME NEW e \in Editors, EditWrite(e) \/ EditSteps(e) PROVE config' = edits'
  BY <1>5 DEF EditWrite, EditSteps, EditClose, EditFinish
<1>6. ASSUME NEW v \in Ids, WrapperSteps(v) \/ OrphanEnds(v) \/ ReaperSteps(v)
      PROVE  config' = edits'
  BY <1>6 DEF WrapperSteps, WrapperUp, LaunchJava, RecordJava, WrapperEnds, OrphanEnds,
     ReaperSteps, Reap, Decide, Mark, ReaperGoes
<1>7. CASE UNCHANGED vars
  BY <1>7 DEF vars
<1> QED
  BY <1>1, <1>2, <1>3, <1>4, <1>5, <1>6, <1>7 DEF Next, OpSteps

-----------------------------------------------------------------------------
(* Strategies *)

\* Numbers are given out in order.
LEMMA FreshStep == TypeOK /\ FreshInv /\ StrategyInv /\ [Next]_vars => FreshInv'
<1> SUFFICES ASSUME TypeOK, FreshInv, StrategyInv, [Next]_vars PROVE FreshInv'
  OBVIOUS
<1> USE DEF FreshInv, record, strategies, wrappers, spawning, counters
<1>0. /\ strat \in [Ids -> StratRec] /\ built \in NoId /\ spawned \in NoId
      /\ life \in [Ids -> {"none", "boot", "up", "stopping", "gone"}]
      /\ java \in [Ids -> Javas]
      /\ reaper \in [Ids -> {"none", "waiting", "reaped", "STOPPED", "CRASHED", "done"}]
  BY DEF TypeOK, StratRec
<1>a. ASSUME NEW s \in 1..built, Close(s), UNCHANGED <<built, spawned, life, reaper, java, missed>>
      PROVE  FreshInv'
  BY <1>0, <1>a, BoundAssumption DEF Close, StratRec, Ids, NoId, BoundAssumption
<1>1. ASSUME NEW o \in Ops, (\E kind \in Kinds : Request(o, kind)) \/ Lock(o) \/ Cancelled(o)
      PROVE  FreshInv'
  BY <1>1, Entering
<1>2. ASSUME NEW o \in Ops, Heal(o) \/ Restart(o) \/ StartRefused(o) \/ DropStale(o) \/ Undo(o)
                            \/ Cas(o) \/ StopRefused(o) \/ StopBegin(o) \/ Settle(o) \/ Stopped(o)
                            \/ KillBegin(o) \/ Killed(o)
      PROVE  FreshInv'
  BY <1>2 DEF Heal, Restart, StartRefused, DropStale, Undo, Cas, StopRefused, StopBegin, Settle,
     Stopped, KillBegin, Killed
<1>3. ASSUME NEW o \in Ops, CloseStale(o) \/ CloseOld(o) \/ Closing(o) PROVE FreshInv'
  BY <1>3, <1>a DEF CloseStale, CloseOld, Closing, StrategyInv, Holding, Detached
<1>b. ASSUME built' \in {built, built + 1}, UNCHANGED <<spawned, life, reaper, java, missed>>,
             \A s \in Ids : strat'[s].closed = strat[s].closed /\ strat'[s].cmd = strat[s].cmd
      PROVE  FreshInv'
  BY <1>0, <1>b DEF Ids, NoId
<1>4. ASSUME NEW o \in Ops, Build(o) PROVE FreshInv'
  <2>1. inst.strategy \in NoId /\ inst.strategy <= built
    BY DEF TypeOK, StrategyInv
  <2>2. built' \in {built, built + 1}
    BY <1>0, <1>4, <2>1 DEF Build, NoId
  <2>3. \A s \in Ids : strat'[s].closed = strat[s].closed /\ strat'[s].cmd = strat[s].cmd
    BY <1>0, <1>4 DEF Build, StratRec
  <2> QED
    BY <1>4, <1>b, <2>2, <2>3 DEF Build
<1>5. ASSUME NEW o \in Ops, WaitPrior(o) \/ Halt(o) PROVE FreshInv'
  <2>1. \A s \in Ids : strat'[s].closed = strat[s].closed /\ strat'[s].cmd = strat[s].cmd
    BY <1>0, <1>5 DEF WaitPrior, Halt, StratRec
  <2> QED
    BY <1>5, <1>b, <2>1 DEF WaitPrior, Halt
<1>6. ASSUME NEW o \in Ops, Spawn(o) PROVE FreshInv'
  <2>1. /\ UNCHANGED <<built, java, missed>>
        /\ \A s \in Ids : strat'[s].closed = strat[s].closed
    BY <1>0, <1>6 DEF Spawn, StratRec
  <2>2. CASE UNCHANGED <<spawned, life, reaper>>
    <3>1. \A s \in Ids : strat'[s].cmd = strat[s].cmd
      BY <1>0, <1>6, <2>2 DEF Spawn, StratRec, NoId
    <3> QED
      BY <1>b, <2>1, <2>2, <3>1
  <2>3. CASE /\ spawned + 1 \in Ids /\ spawned' = spawned + 1
             /\ strat' = [strat EXCEPT ![op[o].str].st = "RUNNING", ![op[o].str].cmd = spawned + 1]
             /\ life' = [life EXCEPT ![spawned + 1] = "boot"]
             /\ reaper' = [reaper EXCEPT ![spawned + 1] = "waiting"]
    <3>1. \A s \in Ids : strat'[s].cmd \in {strat[s].cmd, spawned + 1} /\ strat[s].cmd \in NoId
      BY <1>0, <2>3 DEF StratRec
    <3>2. \A s \in Ids : strat'[s].cmd <= spawned'
      BY <1>0, <2>3, <3>1 DEF NoId
    <3> QED
      BY <1>0, <2>1, <2>3, <3>2 DEF Ids, NoId
  <2> QED
    BY <1>6, <2>2, <2>3 DEF Spawn
<1>c. ASSUME NEW o \in Ops, op[o].pc \in Holding
      PROVE  op[o].str \in Ids /\ strat[op[o].str].cmd \in NoId
             /\ strat[op[o].str].cmd <= spawned
  <2>1. op[o].str \in Ids
    BY <1>0, <1>c, BoundAssumption DEF StrategyInv, Ids, NoId, BoundAssumption
  <2> QED
    BY <1>0, <2>1 DEF StratRec
<1>7. ASSUME NEW o \in Ops, Dial(o) \/ HaltKill(o) \/ Killing(o) PROVE FreshInv'
  <2> DEFINE w == strat[op[o].str].cmd
  <2>1. w \in NoId /\ w <= spawned
    BY <1>7, <1>c DEF Dial, HaltKill, Killing, Holding, Detached
  <2>2. /\ UNCHANGED <<strat, built, spawned, reaper>>
        /\ \/ life' = life /\ java' = java /\ missed' = missed
           \/ /\ life' = [life EXCEPT ![w] = "gone"] /\ missed' = missed
              /\ java' \in {java, [java EXCEPT ![w] = "none"]}
           \/ \E v \in Ids :
                 /\ Listens(v) /\ java' = java
                 /\ \/ life' = [life EXCEPT ![v] = "stopping"] /\ missed' = missed
                    \/ life' = life /\ missed' = missed \cup {v}
    BY <1>7 DEF Dial, HaltKill, Killing
  <2> HIDE DEF w
  <2> DEFINE Kept(x) == /\ x > spawned => life'[x] = "none"
                        /\ life'[x] \in {"boot", "up", "stopping"}
                             => life[x] \in {"boot", "up", "stopping"}
                        /\ life'[x] \in {"none", "boot"} => java'[x] = "none" /\ x \notin missed'
  <2>3. ASSUME NEW x \in Ids PROVE Kept(x)
    <3>1. CASE life' = life /\ java' = java /\ missed' = missed
      BY <3>1
    <3>2. CASE life' = [life EXCEPT ![w] = "gone"] /\ missed' = missed
               /\ java' \in {java, [java EXCEPT ![w] = "none"]}
      <4>1. life'[x] = IF x = w THEN "gone" ELSE life[x]
        BY <1>0, <3>2
      <4>2. java'[x] \in {java[x], "none"}
        BY <1>0, <3>2
      <4>3. x > spawned => x # w
        BY <1>0, <2>1 DEF Ids, NoId
      <4> QED
        BY <3>2, <4>1, <4>2, <4>3
    <3>3. ASSUME NEW v \in Ids, Listens(v), java' = java,
                 \/ life' = [life EXCEPT ![v] = "stopping"] /\ missed' = missed
                 \/ life' = life /\ missed' = missed \cup {v}
          PROVE  Kept(x)
      BY <1>0, <3>3 DEF Listens
    <3> QED
      BY <2>2, <3>1, <3>2, <3>3
  <2> QED
    BY <2>2, <2>3
<1>8. ASSUME NEW e \in Editors, EditWrite(e) \/ EditFinish(e) PROVE FreshInv'
  BY <1>8 DEF EditWrite, EditFinish
<1>9. ASSUME NEW e \in Editors, EditClose(e) PROVE FreshInv'
  BY <1>9, <1>a DEF EditClose, StrategyInv
<1>10. ASSUME NEW v \in Ids, WrapperSteps(v) \/ OrphanEnds(v) PROVE FreshInv'
  <2>1. UNCHANGED <<built, strat, spawned, reaper, missed>>
    BY <1>10 DEF WrapperSteps, WrapperUp, LaunchJava, RecordJava, WrapperEnds, OrphanEnds
  <2>2. \A x \in Ids \ {v} : life'[x] = life[x] /\ java'[x] = java[x]
    BY <1>0, <1>10 DEF WrapperSteps, WrapperUp, LaunchJava, RecordJava, WrapperEnds, OrphanEnds
  <2>3. CASE WrapperUp(v) \/ LaunchJava(v) \/ RecordJava(v)
    <3>1. life[v] \in {"boot", "up", "stopping"} /\ life'[v] \in {"up", "stopping"}
      BY <1>0, <2>3 DEF WrapperUp, LaunchJava, RecordJava, Listens
    <3> QED
      BY <2>1, <2>2, <3>1
  <2>4. CASE WrapperEnds(v) \/ OrphanEnds(v)
    <3>1. life[v] # "none" /\ life'[v] = "gone"
      BY <1>0, <2>4 DEF WrapperEnds, OrphanEnds
    <3> QED
      BY <2>1, <2>2, <3>1
  <2> QED
    BY <1>10, <2>3, <2>4 DEF WrapperSteps
<1>11. ASSUME NEW v \in Ids, Reap(v) \/ Mark(v) PROVE FreshInv'
  BY <1>0, <1>11 DEF Reap, Mark, ReaperGoes
<1>12. ASSUME NEW v \in Ids, Decide(v) PROVE FreshInv'
  <2>1. /\ UNCHANGED <<built, spawned, life, java, missed>>
        /\ \A s \in Ids : strat'[s].closed = strat[s].closed /\ strat'[s].cmd = strat[s].cmd
    BY <1>0, <1>12 DEF Decide, ReaperGoes, StratRec
  <2>2. reaper[v] = "reaped" /\ \A x \in Ids \ {v} : reaper'[x] = reaper[x]
    BY <1>0, <1>12 DEF Decide, ReaperGoes
  <2> QED
    BY <2>1, <2>2
<1>13. CASE UNCHANGED vars
  BY <1>13 DEF vars
<1> QED
  BY <1>1, <1>2, <1>3, <1>4, <1>5, <1>6, <1>7, <1>8, <1>9, <1>10, <1>11, <1>12, <1>13
     DEF Next, OpSteps, StartSteps, StopSteps, KillSteps, EditSteps, ReaperSteps

\* A strategy that is being closed is not the record's, and the record's is up to date.
LEMMA StrategyStep == TypeOK /\ GateInv /\ FreshInv /\ StrategyInv /\ [Next]_vars => StrategyInv'
<1> SUFFICES ASSUME TypeOK, GateInv, FreshInv, StrategyInv, [Next]_vars PROVE StrategyInv'
  OBVIOUS
<1> USE BoundAssumption DEF BoundAssumption
<1> DEFINE InstRec == [state : States, strategy : NoId, stale : BOOLEAN, resetting : BOOLEAN]
           Open(i, st, c) == i.strategy # 0 => /\ ~st[i.strategy].closed
                                               /\ i.stale \/ st[i.strategy].config = c
           OpFacts(o, r, i, b) == /\ r[o].pc \in Holding => r[o].str \in 1..b
                                  /\ r[o].pc \in Detached => r[o].str # i.strategy
                                  /\ r[o].pc \in {"closeStale", "reset", "killing"}
                                        => i.strategy = 0
           EditFacts(e, r, i, b) ==
               r[e].pc = "close" => r[e].str \in 1..b /\ r[e].str # i.strategy
<1>0. /\ op \in [Ops -> OpRec] /\ strat \in [Ids -> StratRec] /\ inst \in InstRec
      /\ edit \in [Editors -> [pc : {"idle", "close", "finish"}, str : NoId]]
      /\ built \in NoId /\ config \in 0..MaxEdits
  BY DEF TypeOK, OpRec, StratRec
<1> HIDE DEF InstRec
<1>a. /\ inst.strategy <= built /\ Open(inst, strat, config)
      /\ \A o \in Ops : OpFacts(o, op, inst, built)
      /\ \A e \in Editors : EditFacts(e, edit, inst, built)
  BY DEF StrategyInv
<1> SUFFICES /\ inst'.strategy <= built' /\ Open(inst', strat', config')
             /\ \A o \in Ops : OpFacts(o, op', inst', built')
             /\ \A e \in Editors : EditFacts(e, edit', inst', built')
  BY DEF StrategyInv
<1> DEFINE Goal == /\ inst'.strategy <= built' /\ Open(inst', strat', config')
                   /\ \A o \in Ops : OpFacts(o, op', inst', built')
                   /\ \A e \in Editors : EditFacts(e, edit', inst', built')
\* An operation that leaves the strategies alone.
<1>b. ASSUME NEW o \in Ops, OpSteps(o), OpFacts(o, op', inst', built'),
             inst'.strategy = inst.strategy, inst'.stale = inst.stale,
             UNCHANGED <<edit, built, config>>,
             \A s \in Ids : strat'[s].closed = strat[s].closed /\ strat'[s].config = strat[s].config
      PROVE  Goal
  <2>1. \A p \in Ops \ {o} : op'[p] = op[p] /\ op[p].pc \in {"idle", "queued"}
    BY <1>b, OthersOut
  <2>2. \A p \in Ops : OpFacts(p, op', inst', built')
    BY <1>b, <2>1 DEF Holding, Detached
  <2>3. inst.strategy # 0 => inst.strategy \in Ids
    BY <1>0, <1>a DEF Ids, NoId, InstRec
  <2> QED
    BY <1>a, <1>b, <2>2, <2>3
<1>c. ASSUME NEW o \in Ops, op'[o].pc \notin Holding \cup {"reset"} PROVE OpFacts(o, op', inst', built')
  BY <1>c DEF Holding, Detached
<1>1. ASSUME NEW o \in Ops, (\E kind \in Kinds : Request(o, kind)) \/ Lock(o) \/ Cancelled(o)
      PROVE  Goal
  BY <1>1, <1>a, Entering DEF Holding, Detached, Kinds
<1>2. ASSUME NEW o \in Ops, Heal(o) \/ Restart(o) \/ StopRefused(o) PROVE Goal
  <2>1. op'[o].pc \notin Holding \cup {"reset"}
    BY <1>2, Moves DEF Heal, Restart, StopRefused, Holding, Detached
  <2> QED
    BY <1>2, <1>b, <1>c, <2>1 DEF Heal, Restart, StopRefused, OpSteps, StopSteps, strategies
<1>3. ASSUME NEW o \in Ops, StartRefused(o) \/ Undo(o) \/ Cas(o) \/ Stopped(o) \/ Killed(o) PROVE Goal
  <2>1. op'[o].pc \notin Holding \cup {"reset"}
    BY <1>3, Moves DEF StartRefused, Undo, Cas, Stopped, Killed, Holding, Detached
  <2>2. inst'.strategy = inst.strategy /\ inst'.stale = inst.stale
    BY <1>0, <1>3 DEF StartRefused, Undo, Cas, Stopped, Killed, InstRec
  <2>3. UNCHANGED <<edit, built, config, strat>>
    BY <1>3 DEF StartRefused, Undo, Cas, Stopped, Killed, strategies
  <2> QED
    BY <1>3, <1>b, <1>c, <2>1, <2>2, <2>3 DEF OpSteps, StartSteps, StopSteps, KillSteps
<1>4. ASSUME NEW o \in Ops, Halt(o) \/ Dial(o) \/ HaltKill(o) PROVE Goal
  <2>1. op[o].pc \in Holding /\ op'[o].pc \notin Detached \cup {"reset"}
        /\ (op'[o].pc \in Holding => op'[o].str = op[o].str)
    BY <1>4, Moves DEF Halt, Dial, HaltKill, Holding, Detached
  <2>2. OpFacts(o, op', inst', built')
    BY <1>4, <1>a, <2>1 DEF Halt, Dial, HaltKill, strategies, Detached
  <2>3. \A s \in Ids : strat'[s].closed = strat[s].closed /\ strat'[s].config = strat[s].config
    BY <1>0, <1>4 DEF Halt, Dial, HaltKill, strategies, StratRec
  <2>4. UNCHANGED <<inst, edit, built, config>>
    BY <1>4 DEF Halt, Dial, HaltKill, strategies
  <2> QED
    BY <1>4, <1>b, <2>2, <2>3, <2>4 DEF OpSteps, StopSteps
<1>5. ASSUME NEW o \in Ops, WaitPrior(o) \/ Spawn(o) PROVE Goal
  <2>1. op'[o].pc \notin Holding \cup {"reset"}
    BY <1>5, Moves DEF WaitPrior, Spawn, Holding, Detached
  <2>2. \A s \in Ids : strat'[s].closed = strat[s].closed /\ strat'[s].config = strat[s].config
    <3>1. CASE WaitPrior(o)
      BY <1>0, <3>1 DEF WaitPrior, StratRec
    <3>2. CASE Spawn(o)
      BY <1>0, <3>2 DEF Spawn, StratRec
    <3> QED
      BY <1>5, <3>1, <3>2
  <2>3. UNCHANGED <<inst, edit, built, config>>
    BY <1>5 DEF WaitPrior, Spawn
  <2> QED
    BY <1>5, <1>b, <1>c, <2>1, <2>2, <2>3 DEF OpSteps, StartSteps
<1>d. ASSUME NEW s \in NoId, s # inst.strategy, Close(s), UNCHANGED <<inst, config>>
      PROVE  Open(inst', strat', config')
  BY <1>0, <1>a, <1>d DEF Close, StratRec, InstRec, Ids, NoId
<1>6. ASSUME NEW o \in Ops, CloseStale(o) \/ CloseOld(o) \/ Closing(o) PROVE Goal
  <2>1. /\ op[o].pc \in Detached /\ Close(op[o].str) /\ UNCHANGED <<inst, edit, built, config>>
        /\ op'[o].pc \notin Holding
        /\ op'[o].pc = "reset" => op[o].pc = "closeStale"
    BY <1>6, Moves DEF CloseStale, CloseOld, Closing, Holding, Detached
  <2>2. Open(inst', strat', config')
    BY <1>0, <1>a, <1>d, <2>1 DEF Holding, NoId, OpRec
  <2>3. \A p \in Ops \ {o} : op'[p] = op[p] /\ op[p].pc \in {"idle", "queued"}
    BY <1>6, OthersOut DEF OpSteps, StartSteps, StopSteps, KillSteps
  <2>4. OpFacts(o, op', inst', built')
    BY <1>a, <2>1 DEF Holding, Detached
  <2> QED
    BY <1>a, <2>1, <2>2, <2>3, <2>4 DEF Holding, Detached
<1>e. ASSUME NEW o \in Ops, OpSteps(o), OpFacts(o, op', inst', built'),
             inst'.strategy = 0, UNCHANGED <<edit, built, config>>
      PROVE  Goal
  <2>1. \A p \in Ops \ {o} : op'[p] = op[p] /\ op[p].pc \in {"idle", "queued"}
    BY <1>e, OthersOut
  <2>2. \A p \in Ops : OpFacts(p, op', inst', built')
    BY <1>e, <2>1 DEF Holding, Detached
  <2> QED
    BY <1>0, <1>a, <1>e, <2>2 DEF NoId
<1>7. ASSUME NEW o \in Ops, DropStale(o) PROVE Goal
  <2>1. op'[o].str = inst.strategy /\ inst.strategy \in 1..built
    BY <1>0, <1>7, <1>a DEF DropStale, IsStale, OpRec, InstRec, NoId
  <2>2. inst'.strategy = 0 /\ UNCHANGED <<edit, built, config>>
    BY <1>0, <1>7 DEF DropStale, strategies, InstRec
  <2> QED
    BY <1>7, <1>e, <2>1, <2>2 DEF OpSteps, StartSteps
<1>8. ASSUME NEW o \in Ops, KillBegin(o) PROVE Goal
  <2>1. /\ op'[o].str = inst.strategy
        /\ op'[o].pc = IF inst.strategy = 0 THEN "killed" ELSE "killing"
    BY <1>0, <1>8 DEF KillBegin, OpRec
  <2>2. inst'.strategy = 0 /\ UNCHANGED <<edit, built, config>>
    BY <1>0, <1>8 DEF KillBegin, strategies, InstRec
  <2>3. OpFacts(o, op', inst', built')
    BY <1>0, <1>a, <2>1, <2>2 DEF InstRec, NoId, Holding, Detached
  <2> QED
    BY <1>8, <1>e, <2>2, <2>3 DEF OpSteps, KillSteps
<1>9. ASSUME NEW o \in Ops, Killing(o) PROVE Goal
  <2>1. op[o].pc = "killing" /\ op'[o].pc = "closing" /\ op'[o].str = op[o].str
    BY <1>9, Moves DEF Killing
  <2>2. UNCHANGED <<inst, edit, built, config, strat>>
    BY <1>9 DEF Killing, strategies
  <2>3. OpFacts(o, op', inst', built')
    BY <1>a, <2>1, <2>2 DEF Holding, Detached
  <2> QED
    BY <1>9, <1>b, <2>2, <2>3 DEF OpSteps, KillSteps
<1>10. ASSUME NEW o \in Ops, StopBegin(o) PROVE Goal
  <2>1. /\ op'[o].str = inst.strategy /\ op'[o].pc = "halt" /\ inst.strategy \in 1..built
    BY <1>0, <1>10, <1>a DEF StopBegin, OpRec, InstRec, NoId
  <2>2. inst'.strategy = inst.strategy /\ inst'.stale = inst.stale
    BY <1>0, <1>10 DEF StopBegin, InstRec
  <2>3. UNCHANGED <<edit, built, config, strat>>
    BY <1>10 DEF StopBegin, strategies
  <2>4. OpFacts(o, op', inst', built')
    BY <2>1, <2>3 DEF Detached
  <2> QED
    BY <1>10, <1>b, <2>2, <2>3, <2>4 DEF OpSteps, StopSteps
<1>11. ASSUME NEW o \in Ops, Settle(o) PROVE Goal
  <2>1. /\ op[o].pc = "settle" /\ op'[o].str = op[o].str
        /\ UNCHANGED <<edit, built, config, strat>>
    BY <1>11, Moves DEF Settle, strategies
  <2>2. op[o].str \in 1..built
    BY <1>a, <2>1 DEF Holding
  <2>3. CASE inst.strategy = op[o].str /\ inst.stale
    <3>1. op'[o].pc = "closeOld" /\ inst'.strategy = 0
      BY <1>0, <1>11, <2>3, Moves DEF Settle, InstRec
    <3>2. OpFacts(o, op', inst', built')
      BY <2>1, <2>2, <3>1
    <3> QED
      BY <1>11, <1>e, <2>1, <3>1, <3>2 DEF OpSteps, StopSteps
  <2>4. CASE ~(inst.strategy = op[o].str /\ inst.stale)
    <3>1. op'[o].pc = "stopped" /\ inst' = inst
      BY <1>11, <2>4, Moves DEF Settle
    <3>2. OpFacts(o, op', inst', built')
      BY <3>1 DEF Holding, Detached
    <3> QED
      BY <1>11, <1>b, <2>1, <3>1, <3>2 DEF OpSteps, StopSteps
  <2> QED
    BY <2>3, <2>4
<1>12. ASSUME NEW o \in Ops, Build(o) PROVE Goal
  <2> DEFINE s == IF inst.strategy = 0 THEN built + 1 ELSE inst.strategy
  <2>1. /\ s \in Ids /\ inst'.strategy = s /\ inst'.stale = inst.stale
        /\ built' = IF s > built THEN s ELSE built
        /\ strat' = IF s > built THEN [strat EXCEPT ![s].config = config] ELSE strat
        /\ UNCHANGED <<edit, config>>
    BY <1>0, <1>12 DEF Build, InstRec
  <2>2. op'[o].pc = "wait"
    BY <1>0, <1>12 DEF Build, OpRec
  <2>3. \A p \in Ops : OpFacts(p, op', inst', built')
    <3>1. \A p \in Ops \ {o} : op'[p] = op[p] /\ op[p].pc \in {"idle", "queued"}
      BY <1>12, OthersOut DEF OpSteps, StartSteps
    <3> QED
      BY <2>2, <3>1 DEF Holding, Detached
  <2>4. s = built + 1 \/ (s = inst.strategy /\ s <= built)
    BY <1>a
  <2> HIDE DEF s
  <2>5. CASE s = built + 1
    <3>1. s > built /\ built' = s
      BY <1>0, <2>1, <2>5 DEF NoId
    <3>2. strat' = [strat EXCEPT ![s].config = config]
      BY <2>1, <3>1
    <3>3. \A e \in Editors : EditFacts(e, edit', inst', built')
      BY <1>0, <1>a, <2>1, <2>5, <3>1 DEF NoId
    <3>4. strat'[s].closed = FALSE /\ strat'[s].config = config
      BY <1>0, <2>1, <3>1, <3>2 DEF FreshInv, StratRec
    <3>5. Open(inst', strat', config')
      BY <2>1, <3>4
    <3>6. inst'.strategy <= built'
      BY <1>0, <2>1, <2>5, <3>1 DEF NoId
    <3> QED
      BY <2>3, <3>3, <3>5, <3>6
  <2>6. CASE s = inst.strategy /\ s <= built
    <3>1. built' = built /\ strat' = strat /\ inst'.strategy = inst.strategy
      BY <1>0, <2>1, <2>6 DEF Ids, NoId
    <3> QED
      BY <1>a, <2>1, <2>3, <3>1
  <2> QED
    BY <2>4, <2>5, <2>6
<1>13. ASSUME NEW e \in Editors, EditWrite(e) PROVE Goal
  <2>1. /\ config' = config + 1
        /\ UNCHANGED <<op, strat, built>>
        /\ IF inst.strategy = 0
           THEN UNCHANGED <<inst, edit>>
           ELSE IF inst.state \in {"RUNNING", "STARTING", "STOPPING"}
           THEN inst' = [inst EXCEPT !.stale = TRUE] /\ UNCHANGED edit
           ELSE /\ edit' = [edit EXCEPT ![e] = [pc |-> "close", str |-> inst.strategy]]
                /\ inst' = [inst EXCEPT !.strategy = 0, !.stale = FALSE, !.resetting = TRUE]
    BY <1>13 DEF EditWrite, strategies
  <2>2. CASE inst.strategy = 0
    BY <1>a, <2>1, <2>2
  <2>3. CASE inst.strategy # 0 /\ inst' = [inst EXCEPT !.stale = TRUE] /\ UNCHANGED edit
    <3>1. inst'.strategy = inst.strategy /\ inst'.stale
      BY <1>0, <2>3 DEF InstRec
    <3> QED
      BY <1>a, <2>1, <2>3, <3>1
  <2>4. CASE /\ inst.strategy # 0
             /\ edit' = [edit EXCEPT ![e] = [pc |-> "close", str |-> inst.strategy]]
             /\ inst' = [inst EXCEPT !.strategy = 0, !.stale = FALSE, !.resetting = TRUE]
    <3>1. inst'.strategy = 0 /\ inst.strategy \in 1..built
      BY <1>0, <1>a, <2>4 DEF InstRec, NoId
    <3>2. edit'[e].str = inst.strategy /\ \A f \in Editors \ {e} : edit'[f] = edit[f]
      BY <1>0, <2>4
    <3>3. \A f \in Editors : EditFacts(f, edit', inst', built')
      BY <1>0, <1>a, <2>1, <2>4, <3>1, <3>2 DEF NoId
    <3>4. \A o \in Ops : OpFacts(o, op', inst', built')
      BY <1>a, <2>1, <3>1 DEF Holding, Detached
    <3> QED
      BY <1>0, <2>1, <3>1, <3>3, <3>4 DEF NoId
  <2> QED
    BY <2>1, <2>2, <2>3, <2>4
<1>14. ASSUME NEW e \in Editors, EditClose(e) PROVE Goal
  <2>1. /\ edit[e].pc = "close" /\ Close(edit[e].str)
        /\ edit' = [edit EXCEPT ![e].pc = "finish"]
        /\ UNCHANGED <<op, inst, config, built>>
    BY <1>14 DEF EditClose, record
  <2>2. edit[e].str \in NoId /\ edit[e].str # inst.strategy
    BY <1>0, <1>a, <2>1
  <2>3. Open(inst', strat', config')
    BY <1>d, <2>1, <2>2
  <2>4. \A f \in Editors : edit'[f].pc = "close" => edit'[f] = edit[f]
    BY <1>0, <2>1
  <2> QED
    BY <1>a, <2>1, <2>3, <2>4
<1>15. ASSUME NEW e \in Editors, EditFinish(e) PROVE Goal
  <2>1. /\ inst'.strategy = inst.strategy /\ inst'.stale = inst.stale
        /\ UNCHANGED <<op, strat, config, built>>
    BY <1>0, <1>15 DEF EditFinish, strategies, InstRec
  <2>2. \A f \in Editors : edit'[f].pc = "close" => edit'[f] = edit[f]
    BY <1>0, <1>15 DEF EditFinish, IdleEdit
  <2> QED
    BY <1>a, <2>1, <2>2
\* Wrappers and reapers.
<1>f. ASSUME inst'.strategy = inst.strategy, inst'.stale = inst.stale,
             UNCHANGED <<op, edit, built, config>>,
             \A s \in Ids : strat'[s].closed = strat[s].closed /\ strat'[s].config = strat[s].config
      PROVE  Goal
  <2>1. inst.strategy # 0 => inst.strategy \in Ids
    BY <1>0, <1>a DEF Ids, NoId, InstRec
  <2> QED
    BY <1>a, <1>f, <2>1
<1>16. ASSUME NEW v \in Ids, WrapperSteps(v) \/ OrphanEnds(v) \/ Reap(v) PROVE Goal
  BY <1>16, <1>f DEF WrapperSteps, WrapperUp, LaunchJava, RecordJava, WrapperEnds, OrphanEnds,
     Reap, ReaperGoes, record, strategies
<1>17. ASSUME NEW v \in Ids, Decide(v) PROVE Goal
  <2>1. UNCHANGED <<inst, op, edit, built, config>>
    BY <1>17 DEF Decide, ReaperGoes
  <2>2. \A s \in Ids : strat'[s].closed = strat[s].closed /\ strat'[s].config = strat[s].config
    BY <1>0, <1>17 DEF Decide, StratRec
  <2> QED
    BY <1>f, <2>1, <2>2
<1>18. ASSUME NEW v \in Ids, Mark(v) PROVE Goal
  <2>1. UNCHANGED <<op, edit, built, config, strat>>
    BY <1>18 DEF Mark, ReaperGoes
  <2>2. inst'.strategy = inst.strategy /\ inst'.stale = inst.stale
    BY <1>0, <1>18 DEF Mark, InstRec
  <2> QED
    BY <1>f, <2>1, <2>2
<1>19. ASSUME UNCHANGED vars PROVE Goal
  BY <1>19, <1>f DEF vars
<1> HIDE DEF Goal
<1> QED
  <2>1. ASSUME NEW o \in Ops, OpSteps(o) PROVE Goal
    BY <2>1, <1>2, <1>3, <1>4, <1>5, <1>6, <1>7, <1>8, <1>9, <1>10, <1>11, <1>12
       DEF OpSteps, StartSteps, StopSteps, KillSteps
  <2>2. ASSUME NEW e \in Editors, EditWrite(e) \/ EditSteps(e) PROVE Goal
    BY <2>2, <1>13, <1>14, <1>15 DEF EditSteps
  <2>3. ASSUME NEW v \in Ids, WrapperSteps(v) \/ OrphanEnds(v) \/ ReaperSteps(v)
        PROVE  Goal
    BY <2>3, <1>16, <1>17, <1>18 DEF ReaperSteps
  <2>4. Goal
    BY <1>1, <1>19, <2>1, <2>2, <2>3 DEF Next
  <2> QED
    BY <2>4 DEF Goal

-----------------------------------------------------------------------------
(* The recorded state *)

\* What the end of a wrapper does to the record.  Unless it is a late obituary, a
\* change of the state is the work of the last wrapper's reaper, with no start between
\* its build and its spawn.
LEMMA MarkFacts ==
    ASSUME TypeOK, FreshInv, NEW v \in Ids, Mark(v)
    PROVE  /\ inst'.strategy = inst.strategy /\ inst'.stale = inst.stale
           /\ inst'.state = inst.state \/ inst'.state \in Ended
           /\ UNCHANGED <<gate, config, op, edit, strat, built, life, java, pidFile, host, spawned>>
           /\ lateObituary => lateObituary'
           /\ lateObituary' \/ inst'.state = inst.state
                \/ /\ v = spawned /\ ~Alive(v)
                   /\ \A o \in Ops : op[o].pc \notin {"wait", "spawn"}
<1>0. /\ inst \in [state : States, strategy : NoId, stale : BOOLEAN, resetting : BOOLEAN]
      /\ spawned \in NoId /\ lateObituary \in BOOLEAN
  BY DEF TypeOK
<1>1. PICK st \in Ended :
        /\ reaper[v] = st
        /\ inst' = inst \/ inst' = [inst EXCEPT !.state = st]
        /\ lateObituary' = (lateObituary \/ (inst'.state # inst.state /\ Outlived(v)))
  BY DEF Mark, ReaperGoes, Ended
<1>2. UNCHANGED <<gate, config, op, edit, strat, built, life, java, pidFile, host, spawned>>
  BY DEF Mark, ReaperGoes, wrappers, spawning
<1>3. /\ inst'.strategy = inst.strategy /\ inst'.stale = inst.stale
      /\ inst'.state = inst.state \/ inst'.state \in Ended
  BY <1>0, <1>1
<1>4. v <= spawned /\ ~Alive(v)
  BY <1>0, <1>1 DEF FreshInv, Alive, Ended, Ids, NoId
<1>5. ~Outlived(v) => v = spawned /\ \A o \in Ops : op[o].pc \notin {"wait", "spawn"}
  BY <1>0, <1>4, BoundAssumption DEF Outlived, Ids, NoId, BoundAssumption
<1> QED
  BY <1>1, <1>2, <1>3, <1>4, <1>5

\* Operations, edits and wrappers leave the record of late obituaries alone.
LEMMA LateKept ==
    ASSUME TypeOK, FreshInv, [Next]_vars, lateObituary
    PROVE  lateObituary'
<1> USE DEF record, strategies, wrappers, spawning, counters
<1>1. ASSUME NEW o \in Ops, Lock(o) \/ Cancelled(o) \/ \E kind \in Kinds : Request(o, kind)
      PROVE  lateObituary'
  BY <1>1 DEF Lock, Cancelled, Request
<1>2. ASSUME NEW o \in Ops, Heal(o) \/ Restart(o) \/ KillSteps(o) PROVE lateObituary'
  BY <1>2 DEF Heal, Restart, KillSteps, KillBegin, Killing, Closing, Killed
<1>3. ASSUME NEW o \in Ops, StartSteps(o) PROVE lateObituary'
  BY <1>3 DEF StartSteps, StartRefused, DropStale, CloseStale, Build, WaitPrior, Spawn, Undo, Cas
<1>4. ASSUME NEW o \in Ops, StopSteps(o) PROVE lateObituary'
  BY <1>4 DEF StopSteps, StopRefused, StopBegin, Halt, Dial, HaltKill, Settle, CloseOld, Stopped
<1>5. ASSUME NEW e \in Editors, EditWrite(e) \/ EditSteps(e) PROVE lateObituary'
  BY <1>5 DEF EditWrite, EditSteps, EditClose, EditFinish
<1>6. ASSUME NEW v \in Ids, WrapperSteps(v) \/ OrphanEnds(v) \/ ReaperSteps(v)
      PROVE  lateObituary'
  BY <1>6, MarkFacts DEF WrapperSteps, WrapperUp, LaunchJava, RecordJava, WrapperEnds,
     OrphanEnds, ReaperSteps, Reap, Decide, ReaperGoes
<1>7. CASE UNCHANGED vars
  BY <1>7 DEF vars
<1> QED
  BY <1>1, <1>2, <1>3, <1>4, <1>5, <1>6, <1>7 DEF Next, OpSteps

\* A wrapper that missed a stop frame has missed it for good.
LEMMA MissedKept ==
    ASSUME [Next]_vars
    PROVE  missed \subseteq missed'
<1> USE DEF record, strategies, wrappers, spawning, counters
<1>1. ASSUME NEW o \in Ops, Lock(o) \/ Cancelled(o) \/ \E kind \in Kinds : Request(o, kind)
      PROVE  missed \subseteq missed'
  BY <1>1 DEF Lock, Cancelled, Request
<1>2. ASSUME NEW o \in Ops, Heal(o) \/ Restart(o) \/ KillSteps(o) PROVE missed \subseteq missed'
  BY <1>2 DEF Heal, Restart, KillSteps, KillBegin, Killing, Closing, Killed
<1>3. ASSUME NEW o \in Ops, StartSteps(o) PROVE missed \subseteq missed'
  BY <1>3 DEF StartSteps, StartRefused, DropStale, CloseStale, Build, WaitPrior, Spawn, Undo, Cas
<1>4. ASSUME NEW o \in Ops, StopSteps(o) PROVE missed \subseteq missed'
  BY <1>4 DEF StopSteps, StopRefused, StopBegin, Halt, Dial, HaltKill, Settle, CloseOld, Stopped
<1>5. ASSUME NEW e \in Editors, EditWrite(e) \/ EditSteps(e) PROVE missed \subseteq missed'
  BY <1>5 DEF EditWrite, EditSteps, EditClose, EditFinish
<1>6. ASSUME NEW v \in Ids, WrapperSteps(v) \/ OrphanEnds(v) \/ ReaperSteps(v)
      PROVE  missed \subseteq missed'
  BY <1>6 DEF WrapperSteps, WrapperUp, LaunchJava, RecordJava, WrapperEnds, OrphanEnds,
     ReaperSteps, Reap, Decide, Mark, ReaperGoes
<1>7. CASE UNCHANGED vars
  BY <1>7 DEF vars
<1> QED
  BY <1>1, <1>2, <1>3, <1>4, <1>5, <1>6, <1>7 DEF Next, OpSteps

\* An operation finds the recorded state where it left it, or where an obituary put it.
LEMMA StateStep ==
    TypeOK /\ GateInv /\ FreshInv /\ StrategyInv /\ StateInv /\ [Next]_vars => StateInv'
<1> SUFFICES ASSUME TypeOK, GateInv, FreshInv, StrategyInv, StateInv, [Next]_vars PROVE StateInv'
  OBVIOUS
<1> USE BoundAssumption DEF BoundAssumption
<1> DEFINE InstRec == [state : States, strategy : NoId, stale : BOOLEAN, resetting : BOOLEAN]
           Start(o) == op[o].str = inst.strategy /\ inst.state = "STARTING" /\ inst.strategy # 0
           Facts(o) ==
              /\ op[o].pc \in {"halt", "dial", "haltKill"} => inst.state \notin {"RUNNING", "STARTING"}
              /\ op[o].pc \in {"wait", "spawn"} => lateObituary \/ Start(o)
              /\ op[o].pc \in {"closeStale", "reset"} => inst.state \in Ended
              /\ op[o].pc \in {"wait", "spawn", "undo"} => op[o].old \in Ended
           Watched == {"halt", "dial", "haltKill", "wait", "spawn", "closeStale", "reset", "undo"}
<1>0. /\ op \in [Ops -> OpRec] /\ inst \in InstRec /\ built \in NoId /\ lateObituary \in BOOLEAN
  BY DEF TypeOK, OpRec
<1> HIDE DEF InstRec
<1>a. \A o \in Ops : Facts(o)
  BY DEF StateInv
<1> SUFFICES \A o \in Ops : Facts(o)'
  BY DEF StateInv
<1> DEFINE Goal == \A o \in Ops : Facts(o)'
<1>b. ASSUME NEW o \in Ops, OpSteps(o), Facts(o)' PROVE Goal
  <2>1. \A p \in Ops \ {o} : op'[p] = op[p] /\ op[p].pc \in {"idle", "queued"}
    BY <1>b, OthersOut
  <2> QED
    BY <1>b, <2>1
<1>c. ASSUME NEW o \in Ops, OpSteps(o), op'[o].pc \notin Watched PROVE Goal
  BY <1>b, <1>c
<1>1. ASSUME NEW o \in Ops, (\E kind \in Kinds : Request(o, kind)) \/ Lock(o) \/ Cancelled(o)
      PROVE  Goal
  <2>1. /\ \A p \in Ops \ {o} : op'[p] = op[p]
        /\ op'[o].pc \notin Watched /\ UNCHANGED <<inst, lateObituary>>
    BY <1>1, Entering DEF Kinds
  <2> QED
    BY <1>a, <2>1
<1>2. ASSUME NEW o \in Ops,
             Heal(o) \/ Restart(o) \/ StartRefused(o) \/ Undo(o) \/ Cas(o) \/ StopRefused(o)
             \/ HaltKill(o) \/ Settle(o) \/ CloseOld(o) \/ Stopped(o)
      PROVE  Goal
  <2>1. op'[o].pc \notin Watched
    BY <1>2, Moves DEF Heal, Restart, StartRefused, Undo, Cas, StopRefused, HaltKill, Settle,
       CloseOld, Stopped
  <2> QED
    BY <1>2, <1>c, <2>1 DEF OpSteps, StartSteps, StopSteps
<1>3. ASSUME NEW o \in Ops, KillSteps(o) PROVE Goal
  <2>1. op'[o].pc \notin Watched
    <3>1. CASE KillBegin(o)
      BY <1>0, <3>1 DEF KillBegin, OpRec
    <3>2. CASE Killing(o) \/ Closing(o) \/ Killed(o)
      BY <3>2, Moves DEF Killing, Closing, Killed
    <3> QED
      BY <1>3, <3>1, <3>2 DEF KillSteps
  <2> QED
    BY <1>3, <1>c, <2>1 DEF OpSteps
<1>4. ASSUME NEW o \in Ops, DropStale(o) PROVE Goal
  <2>1. op'[o].pc = "closeStale"
    BY <1>0, <1>4 DEF DropStale, OpRec
  <2>2. inst'.state \in Ended
    BY <1>0, <1>4 DEF DropStale, Startable, Ended, InstRec
  <2> QED
    BY <1>4, <1>b, <2>1, <2>2 DEF OpSteps, StartSteps
<1>5. ASSUME NEW o \in Ops, CloseStale(o) PROVE Goal
  <2>1. op[o].pc = "closeStale" /\ op'[o].pc = "reset" /\ UNCHANGED inst
    BY <1>5, Moves DEF CloseStale
  <2> QED
    BY <1>5, <1>a, <1>b, <2>1 DEF OpSteps, StartSteps
<1>6. ASSUME NEW o \in Ops, Build(o) PROVE Goal
  <2> DEFINE s == IF inst.strategy = 0 THEN built + 1 ELSE inst.strategy
  <2>1. /\ inst' = [inst EXCEPT !.state = "STARTING", !.strategy = s, !.resetting = FALSE]
        /\ op' = [op EXCEPT ![o].pc = "wait", ![o].old = inst.state, ![o].str = s]
        /\ s \in Ids
    BY <1>6 DEF Build
  <2>2. inst.state \in Ended
    BY <1>6, <1>a DEF Build, Startable, Ended
  <2> HIDE DEF s
  <2>3. op'[o].pc = "wait" /\ op'[o].old = inst.state /\ op'[o].str = s
    BY <1>0, <2>1 DEF OpRec
  <2>4. inst'.state = "STARTING" /\ inst'.strategy = s /\ s # 0
    BY <1>0, <2>1 DEF InstRec, Ids
  <2> QED
    BY <1>6, <1>b, <2>2, <2>3, <2>4 DEF OpSteps, StartSteps
<1>7. ASSUME NEW o \in Ops, WaitPrior(o) PROVE Goal
  <2>1. /\ op[o].pc = "wait" /\ op'[o].pc \in {"spawn", "fail", "undo"}
        /\ op'[o].str = op[o].str /\ op'[o].old = op[o].old /\ UNCHANGED <<inst, lateObituary>>
    BY <1>7, Moves DEF WaitPrior
  <2>2. Facts(o)'
    BY <1>a, <2>1
  <2> QED
    BY <1>7, <1>b, <2>2 DEF OpSteps, StartSteps
<1>8. ASSUME NEW o \in Ops, Spawn(o) PROVE Goal
  <2>1. /\ op[o].pc = "spawn" /\ op'[o].pc \in {"undo", "fail", "cas"} /\ op'[o].old = op[o].old
    BY <1>8, Moves DEF Spawn
  <2>2. Facts(o)'
    BY <1>a, <2>1
  <2> QED
    BY <1>8, <1>b, <2>2 DEF OpSteps, StartSteps
<1>9. ASSUME NEW o \in Ops, StopBegin(o) PROVE Goal
  <2>1. op'[o].pc = "halt" /\ inst'.state = "STOPPING"
    BY <1>0, <1>9 DEF StopBegin, OpRec, InstRec
  <2> QED
    BY <1>9, <1>b, <2>1 DEF OpSteps, StopSteps
<1>10. ASSUME NEW o \in Ops, Halt(o) \/ Dial(o) PROVE Goal
  <2>1. /\ op[o].pc \in {"halt", "dial"} /\ op'[o].pc \in {"dial", "haltKill", "settle"}
        /\ UNCHANGED inst
    BY <1>10, Moves DEF Halt, Dial
  <2>2. Facts(o)'
    BY <1>a, <2>1
  <2> QED
    BY <1>10, <1>b, <2>2 DEF OpSteps, StopSteps
<1>11. ASSUME NEW e \in Editors, EditWrite(e) \/ EditSteps(e) PROVE Goal
  <2>1. UNCHANGED <<op, lateObituary>>
    BY <1>11 DEF EditWrite, EditSteps, EditClose, EditFinish, record
  <2>2. inst'.state = inst.state
    BY <1>0, <1>11 DEF EditWrite, EditSteps, EditClose, EditFinish, record, InstRec
  <2>3. inst.state = "STARTING" => inst'.strategy = inst.strategy
    BY <1>0, <1>11 DEF EditWrite, EditSteps, EditClose, EditFinish, record, InstRec
  <2> QED
    BY <1>a, <2>1, <2>2, <2>3
<1>12. ASSUME NEW v \in Ids, WrapperSteps(v) \/ OrphanEnds(v) \/ Reap(v) \/ Decide(v)
       PROVE  Goal
  <2>1. UNCHANGED <<op, inst, lateObituary>>
    BY <1>12 DEF WrapperSteps, WrapperUp, LaunchJava, RecordJava, WrapperEnds, OrphanEnds,
       Reap, Decide, ReaperGoes, record
  <2> QED
    BY <1>a, <2>1
<1>13. ASSUME NEW v \in Ids, Mark(v) PROVE Goal
  <2>1. /\ inst'.strategy = inst.strategy /\ op' = op
        /\ inst'.state = inst.state \/ inst'.state \in Ended
        /\ lateObituary => lateObituary'
        /\ lateObituary' \/ inst'.state = inst.state
             \/ \A o \in Ops : op[o].pc \notin {"wait", "spawn"}
    BY <1>13, MarkFacts
  <2> QED
    BY <1>a, <2>1 DEF Ended
<1>14. ASSUME UNCHANGED vars PROVE Goal
  BY <1>14, <1>a DEF vars
<1> HIDE DEF Goal
<1> QED
  <2>1. ASSUME NEW o \in Ops, OpSteps(o) PROVE Goal
    BY <2>1, <1>2, <1>3, <1>4, <1>5, <1>6, <1>7, <1>8, <1>9, <1>10
       DEF OpSteps, StartSteps, StopSteps
  <2>2. ASSUME NEW v \in Ids, WrapperSteps(v) \/ OrphanEnds(v) \/ ReaperSteps(v)
        PROVE  Goal
    BY <2>2, <1>12, <1>13 DEF ReaperSteps
  <2>3. Goal
    BY <1>1, <1>11, <1>14, <2>1, <2>2 DEF Next
  <2> QED
    BY <2>3 DEF Goal

-----------------------------------------------------------------------------
(* Wrappers that are alive *)

\* Nobody is alive, but for a wrapper that missed a stop.
Nobody == \A w \in Ids : Alive(w) => w \in missed

\* A wrapper that is alive is the last one, and the record or a kill answers for it, if it
\* has not missed a stop; an operation that cleared the way finds no other.
LEMMA AliveStep ==
    /\ TypeOK /\ GateInv /\ FreshInv /\ StrategyInv /\ StateInv /\ AliveInv /\ ClearedInv
    /\ JavaInv /\ [Next]_vars
    => AliveInv' /\ ClearedInv'
<1> SUFFICES ASSUME TypeOK, GateInv, FreshInv, StrategyInv, StateInv, AliveInv, ClearedInv,
                    JavaInv, [Next]_vars, ~lateObituary'
             PROVE  AliveInv' /\ ClearedInv'
  BY DEF AliveInv, ClearedInv
<1> USE BoundAssumption DEF BoundAssumption
<1> DEFINE InstRec == [state : States, strategy : NoId, stale : BOOLEAN, resetting : BOOLEAN]
           Goal == AliveInv' /\ ClearedInv'
           Recorded(w) == inst.strategy # 0 /\ strat[inst.strategy].cmd = w
           AsRunning(w) == Recorded(w) /\ inst.state = "RUNNING"
           AsStarting(w) == /\ Recorded(w) /\ inst.state = "STARTING"
                            /\ \E o \in Ops : op[o].pc = "cas"
           Stopping(o, w) == /\ Recorded(w) /\ inst.state = "STOPPING"
                             /\ op[o].pc \in {"halt", "dial", "haltKill"}
                             /\ op[o].str = inst.strategy
           AsStopping(w) == \E o \in Ops : Stopping(o, w)
           AsKilled(w) == \E o \in Ops : op[o].pc = "killing" /\ strat[op[o].str].cmd = w
           Witnesses == {"cas", "halt", "dial", "haltKill", "killing"}
<1>0. /\ op \in [Ops -> OpRec] /\ strat \in [Ids -> StratRec] /\ inst \in InstRec
      /\ life \in [Ids -> {"none", "boot", "up", "stopping", "gone"}]
      /\ spawned \in NoId /\ lateObituary \in BOOLEAN
  BY DEF TypeOK, OpRec, StratRec
<1> HIDE DEF InstRec
<1>t. \A w : Tended(w) <=> AsRunning(w) \/ AsStarting(w) \/ AsStopping(w) \/ AsKilled(w)
  BY DEF Tended
<1>u. \A w : Tended(w)' <=> AsRunning(w)' \/ AsStarting(w)' \/ AsStopping(w)' \/ AsKilled(w)'
  BY DEF Tended
<1>a. /\ ~lateObituary
      /\ \A w \in Ids : Alive(w) => w = spawned /\ (w \in missed \/ Tended(w))
      /\ \A o \in Ops : op[o].pc \in Cleared => Nobody
      /\ \A v, w \in Ids : Occupies(v) /\ Occupies(w) => v = w
      /\ \A o \in Ops : op[o].pc = "spawn" => \A v \in Ids : ~Occupies(v)
  BY LateKept DEF AliveInv, ClearedInv, JavaInv, Nobody
<1>m. missed \subseteq missed'
  BY MissedKept
<1>b. ASSUME UNCHANGED spawned, \A w \in Ids : Alive(w)' => Alive(w), Nobody' PROVE Goal
  BY <1>a, <1>b DEF Nobody, AliveInv, ClearedInv
\* A step after which the wrappers alive are among those alive before.
<1>c. ASSUME UNCHANGED spawned, \A w \in Ids : Alive(w)' => Alive(w),
             \A o \in Ops : op'[o].pc \in Cleared => op[o].pc \in Cleared,
             \A w \in Ids : Alive(w)' /\ Tended(w) => Tended(w)'
      PROVE  Goal
  BY <1>a, <1>c, <1>m DEF AliveInv, ClearedInv, Nobody
\* The other operations are outside.
<1>d. ASSUME NEW o \in Ops, OpSteps(o)
      PROVE  \A p \in Ops \ {o} : op'[p] = op[p] /\ op[p].pc \notin Witnesses \cup Cleared
  BY <1>d, OthersOut DEF Cleared
\* Whoever cleared the way keeps it clear by creating nothing.
<1>e. ASSUME NEW o \in Ops, op[o].pc \in Cleared, UNCHANGED <<life, spawned>> PROVE Goal
  BY <1>a, <1>b, <1>e, <1>m DEF Nobody, Alive
\* An operation that no wrapper depends on.
<1>f. ASSUME NEW o \in Ops, OpSteps(o), op[o].pc \notin Witnesses, op'[o].pc \notin Cleared,
             UNCHANGED <<life, spawned, strat>>, inst'.state = inst.state,
             inst'.strategy = inst.strategy
      PROVE  Goal
  <2>1. \A p \in Ops : op[p].pc \notin Witnesses /\ op'[p].pc \notin Cleared
    BY <1>d, <1>f
  <2>2. \A w : Tended(w) => AsRunning(w)
    BY <1>t, <2>1
  <2>3. \A w : Tended(w) => Tended(w)'
    BY <1>f, <1>u, <2>2
  <2> QED
    BY <1>c, <1>f, <2>1, <2>3 DEF Alive
<1>1. ASSUME NEW o \in Ops, (\E kind \in Kinds : Request(o, kind)) \/ Lock(o) \/ Cancelled(o)
      PROVE  Goal
  <2>1. /\ \A p \in Ops \ {o} : op'[p] = op[p]
        /\ op[o].pc \notin Witnesses /\ op'[o].pc \notin Cleared
        /\ UNCHANGED <<inst, strat, life, spawned>>
    BY <1>1, Entering DEF Kinds, Cleared
  <2>2. \A p \in Ops : op'[p].pc \in Cleared => op[p].pc \in Cleared
    BY <2>1
  <2>3. ASSUME NEW w, Tended(w) PROVE Tended(w)'
    <3>1. \A p \in Ops : op[p].pc \in Witnesses => op'[p] = op[p]
      BY <2>1
    <3> QED
      BY <1>t, <1>u, <2>1, <2>3, <3>1
  <2> QED
    BY <1>c, <2>1, <2>2, <2>3 DEF Alive
<1>2. ASSUME NEW o \in Ops, Heal(o) \/ Restart(o) \/ StartRefused(o) \/ StopRefused(o) PROVE Goal
  <2>1. op[o].pc \notin Witnesses /\ op'[o].pc \notin Cleared
    BY <1>2, Moves DEF Heal, Restart, StartRefused, StopRefused, Cleared
  <2>2. /\ UNCHANGED <<life, spawned, strat>>
        /\ inst'.state = inst.state /\ inst'.strategy = inst.strategy
    BY <1>0, <1>2 DEF Heal, Restart, StartRefused, StopRefused, strategies, wrappers, spawning,
       InstRec
  <2> QED
    BY <1>2, <1>f, <2>1, <2>2 DEF OpSteps, StartSteps, StopSteps
<1>3. ASSUME NEW o \in Ops, CloseStale(o) \/ WaitPrior(o) \/ Undo(o) \/ Settle(o)
                            \/ CloseOld(o) \/ Stopped(o) \/ Closing(o) \/ Killed(o)
      PROVE  Goal
  <2>1. op[o].pc \in Cleared /\ UNCHANGED <<life, spawned>>
    BY <1>3 DEF CloseStale, WaitPrior, Undo, Settle, CloseOld, Stopped, Closing, Killed, Cleared,
       wrappers, spawning
  <2> QED
    BY <1>e, <2>1
\* A start finds nobody alive: only a running record or an operation inside tends a wrapper.
<1>g. ASSUME NEW o \in Ops, OpSteps(o), op[o].pc = "start", Startable,
             UNCHANGED <<life, spawned>>
      PROVE  Goal
  <2>1. \A p \in Ops : op[p].pc \notin Witnesses
    BY <1>d, <1>g
  <2>2. \A w \in Ids : ~Tended(w)
    BY <1>g, <1>t, <2>1 DEF Startable
  <2> QED
    BY <1>a, <1>b, <1>g, <1>m, <2>2 DEF Nobody, Alive
<1>4. ASSUME NEW o \in Ops, DropStale(o) \/ Build(o) PROVE Goal
  <2>1. /\ UNCHANGED <<life, spawned>>
        /\ (op[o].pc = "start" /\ Startable) \/ op[o].pc \in Cleared
    BY <1>4 DEF DropStale, Build, wrappers, spawning, Cleared
  <2> QED
    BY <1>4, <1>e, <1>g, <2>1 DEF OpSteps, StartSteps
<1>5. ASSUME NEW o \in Ops, Spawn(o) PROVE Goal
  <2>1. op[o].pc = "spawn" /\ op[o].pc \in Cleared
    BY <1>5 DEF Spawn, Cleared
  <2>2. CASE UNCHANGED <<life, spawned>>
    BY <1>e, <2>1, <2>2
  <2>3. ASSUME NEW w \in Ids, w = spawned + 1, Goto(o, "cas"), spawned' = w,
               strat' = [strat EXCEPT ![op[o].str].st = "RUNNING", ![op[o].str].cmd = w],
               life' = [life EXCEPT ![w] = "boot"]
        PROVE  Goal
    <3>1. /\ inst.state = "STARTING" /\ inst.strategy # 0 /\ op[o].str = inst.strategy
          /\ inst' = inst
      BY <1>5, <1>a, <2>1 DEF StateInv, Spawn
    <3>2. inst.strategy \in Ids
      BY <1>0, <3>1 DEF Ids, NoId, InstRec
    <3>3. strat'[inst.strategy].cmd = w
      BY <1>0, <2>3, <3>1, <3>2 DEF StratRec
    <3>4. op'[o].pc = "cas"
      BY <2>3, Moves
    <3>5. AsStarting(w)'
      BY <2>3, <3>1, <3>3, <3>4
    <3>6. \A x \in Ids : Alive(x)' => x = w
      BY <1>0, <1>a, <2>1, <2>3 DEF Occupies, Alive
    <3>7. \A p \in Ops : op'[p].pc \notin Cleared
      BY <1>5, <1>d, <3>4 DEF OpSteps, StartSteps, Cleared
    <3>8. Tended(w)'
      BY <1>u, <3>5
    <3> QED
      BY <2>3, <3>6, <3>7, <3>8 DEF AliveInv, ClearedInv
  <2> QED
    BY <1>5, <2>2, <2>3 DEF Spawn, spawning
<1>6. ASSUME NEW o \in Ops, Cas(o) PROVE Goal
  <2>1. /\ op[o].pc = "cas" /\ op'[o].pc = "idle" /\ UNCHANGED <<life, spawned, strat>>
        /\ inst'.strategy = inst.strategy
        /\ inst.state \in {"STARTING", "RUNNING"} => inst'.state = "RUNNING"
    BY <1>0, <1>6, Moves DEF Cas, strategies, wrappers, spawning, InstRec
  <2>2. \A w : Tended(w) => AsRunning(w) \/ AsStarting(w)
    BY <1>6, <1>d, <1>t, <2>1 DEF OpSteps, StartSteps
  <2>3. \A w : Tended(w) => Tended(w)'
    BY <1>u, <2>1, <2>2
  <2>4. \A p \in Ops : op'[p].pc \notin Cleared
    BY <1>6, <1>d, <2>1 DEF OpSteps, StartSteps, Cleared
  <2> QED
    BY <1>c, <2>1, <2>3, <2>4 DEF Alive
<1>7. ASSUME NEW o \in Ops, StopBegin(o) PROVE Goal
  <2>1. /\ op[o].pc = "stop" /\ op'[o].pc = "halt" /\ op'[o].str = inst.strategy
        /\ UNCHANGED <<life, spawned, strat>>
        /\ inst'.strategy = inst.strategy /\ inst'.state = "STOPPING"
    BY <1>0, <1>7 DEF StopBegin, strategies, wrappers, spawning, InstRec, OpRec
  <2>2. \A w : Tended(w) => AsRunning(w)
    BY <1>7, <1>d, <1>t, <2>1 DEF OpSteps, StopSteps
  <2>3. \A w : Tended(w) => Stopping(o, w)'
    BY <2>1, <2>2
  <2>4. \A p \in Ops : op'[p].pc \notin Cleared
    BY <1>7, <1>d, <2>1 DEF OpSteps, StopSteps, Cleared
  <2> QED
    BY <1>c, <1>u, <2>1, <2>3, <2>4 DEF Alive
\* In a stop, the wrapper alive is the one the stop is about.
<1>h. ASSUME NEW o \in Ops, OpSteps(o), op[o].pc \in {"halt", "dial", "haltKill"}, NEW w, Tended(w)
      PROVE  Stopping(o, w)
  <2>1. \A p \in Ops \ {o} : op[p].pc \notin Witnesses
    BY <1>d, <1>h
  <2>2. inst.state \notin {"RUNNING", "STARTING"}
    BY <1>h DEF StateInv
  <2> QED
    BY <1>h, <1>t, <2>1, <2>2
<1>i. ASSUME NEW o \in Ops, OpSteps(o), op[o].pc \in {"halt", "dial", "haltKill"},
             op'[o].pc \in {"dial", "haltKill"}, op'[o].str = op[o].str,
             UNCHANGED <<life, spawned, inst>>, \A s \in Ids : strat'[s].cmd = strat[s].cmd
      PROVE  Goal
  <2>1. ASSUME NEW w, Tended(w) PROVE Tended(w)'
    <3>1. Stopping(o, w)
      BY <1>h, <1>i, <2>1
    <3>2. inst.strategy \in Ids
      BY <1>0, <3>1 DEF Ids, NoId, InstRec
    <3>3. Stopping(o, w)'
      BY <1>i, <3>1, <3>2
    <3> QED
      BY <1>u, <3>3
  <2>2. \A p \in Ops : op'[p].pc \notin Cleared
    BY <1>i, <1>d DEF Cleared
  <2> QED
    BY <1>c, <1>i, <2>1, <2>2 DEF Alive
<1>8. ASSUME NEW o \in Ops, Halt(o) PROVE Goal
  <2>1. op[o].pc = "halt" /\ op'[o].pc = "dial" /\ op'[o].str = op[o].str
    BY <1>8, Moves DEF Halt
  <2>2. UNCHANGED <<life, spawned, inst>> /\ \A s \in Ids : strat'[s].cmd = strat[s].cmd
    BY <1>0, <1>8 DEF Halt, wrappers, spawning, StratRec
  <2> QED
    BY <1>8, <1>i, <2>1, <2>2 DEF OpSteps, StopSteps
\* Whoever hits the wrapper that the stop or the kill is about leaves nobody else alive.
<1>j. ASSUME NEW w \in NoId, \A x \in Ids : Alive(x) => x \in missed \/ x = w,
             \A x \in Ids : life'[x] \in {life[x], "gone", "stopping"},
             w # 0 => life'[w] \notin {"boot", "up"}, UNCHANGED spawned
      PROVE  Goal
  <2>1. Nobody' /\ \A x \in Ids : Alive(x)' => Alive(x)
    BY <1>0, <1>j, <1>m DEF Nobody, Alive, Ids, NoId
  <2> QED
    BY <1>b, <1>j, <2>1
<1>9. ASSUME NEW o \in Ops, Dial(o) PROVE Goal
  <2>1. op[o].pc = "dial" /\ UNCHANGED <<spawned, inst, strat>>
    BY <1>9 DEF Dial, spawning, strategies
  <2>2. ASSUME NEW w \in Ids, Listens(w),
               \/ life' = [life EXCEPT ![w] = "stopping"]
               \/ UNCHANGED life /\ missed' = missed \cup {w}
        PROVE  Goal
    <3>1. \A x \in Ids : Alive(x) => x = w
      BY <1>a, <2>2 DEF Alive, Listens, Occupies
    <3>2. \A x \in Ids : Alive(x)' => Alive(x) /\ x \in missed'
      BY <1>0, <2>2, <3>1 DEF Alive
    <3> QED
      BY <1>b, <2>1, <3>2 DEF Nobody
  <2>3. CASE Goto(o, "haltKill") /\ UNCHANGED life
    <3>1. op'[o].pc = "haltKill" /\ op'[o].str = op[o].str
      BY <2>3, Moves
    <3> QED
      BY <1>9, <1>i, <2>1, <2>3, <3>1 DEF OpSteps, StopSteps
  <2> QED
    BY <1>9, <2>2, <2>3 DEF Dial
<1>10. ASSUME NEW o \in Ops, HaltKill(o) PROVE Goal
  <2> DEFINE w == strat[op[o].str].cmd
  <2>1. op[o].pc = "haltKill" /\ op[o].str \in Ids
    BY <1>0, <1>10 DEF HaltKill, StrategyInv, Holding, TypeOK, Ids, NoId
  <2>2. w \in NoId
    BY <1>0, <2>1 DEF StratRec
  <2>3. \A x \in Ids : Alive(x) => x \in missed \/ x = w
    BY <1>10, <1>a, <1>h, <2>1 DEF OpSteps, StopSteps
  <2>4. \/ life' = life /\ (w # 0 => reaper[w] # "waiting")
        \/ life' = [life EXCEPT ![w] = "gone"]
    BY <1>10 DEF HaltKill
  <2>7. UNCHANGED spawned
    BY <1>10 DEF HaltKill, spawning
  <2> HIDE DEF w
  <2>5. w # 0 => life'[w] \notin {"boot", "up"}
    BY <1>0, <2>2, <2>4 DEF FreshInv, Ids, NoId
  <2>6. \A x \in Ids : life'[x] \in {life[x], "gone", "stopping"}
    BY <1>0, <2>4
  <2> QED
    BY <1>j, <2>2, <2>3, <2>5, <2>6, <2>7
<1>11. ASSUME NEW o \in Ops, KillBegin(o) PROVE Goal
  <2>1. /\ op[o].pc = "kill" /\ op'[o].str = inst.strategy
        /\ op'[o].pc = IF inst.strategy = 0 THEN "killed" ELSE "killing"
        /\ UNCHANGED <<life, spawned, strat>>
    BY <1>0, <1>11 DEF KillBegin, strategies, wrappers, spawning, OpRec
  <2>2. \A w : Tended(w) => AsRunning(w)
    BY <1>11, <1>d, <1>t, <2>1 DEF OpSteps, KillSteps
  <2>3. CASE inst.strategy = 0
    <3>1. Nobody'
      BY <1>a, <1>m, <2>1, <2>2, <2>3 DEF Nobody, Alive
    <3> QED
      BY <1>b, <2>1, <3>1 DEF Alive
  <2>4. CASE inst.strategy # 0
    <3>1. \A w : Tended(w) => AsKilled(w)'
      BY <2>1, <2>2, <2>4
    <3>2. \A p \in Ops : op'[p].pc \notin Cleared
      BY <1>11, <1>d, <2>1, <2>4 DEF OpSteps, KillSteps, Cleared
    <3> QED
      BY <1>c, <1>u, <2>1, <3>1, <3>2 DEF Alive
  <2> QED
    BY <2>3, <2>4
<1>12. ASSUME NEW o \in Ops, Killing(o) PROVE Goal
  <2> DEFINE w == strat[op[o].str].cmd
  <2>1. op[o].pc = "killing" /\ op[o].str \in Ids
    BY <1>0, <1>12 DEF Killing, StrategyInv, Holding, Detached, TypeOK, Ids, NoId
  <2>2. w \in NoId
    BY <1>0, <2>1 DEF StratRec
  <2>3. \A x : Tended(x) => x = w
    <3>1. inst.strategy = 0
      BY <2>1 DEF StrategyInv
    <3>2. \A p \in Ops \ {o} : op[p].pc # "killing"
      BY <1>12, <1>d DEF OpSteps, KillSteps
    <3> QED
      BY <1>t, <3>1, <3>2
  <2>4. \/ life' = life /\ (w # 0 => life[w] = "gone")
        \/ life' = [life EXCEPT ![w] = "gone"]
    BY <1>12 DEF Killing
  <2>5. \A x \in Ids : Alive(x) => x \in missed \/ x = w
    BY <1>a, <2>3
  <2>8. UNCHANGED spawned
    BY <1>12 DEF Killing, spawning
  <2> HIDE DEF w
  <2>6. w # 0 => life'[w] \notin {"boot", "up"}
    BY <1>0, <2>2, <2>4 DEF Ids, NoId
  <2>7. \A x \in Ids : life'[x] \in {life[x], "gone", "stopping"}
    BY <1>0, <2>4
  <2> QED
    BY <1>j, <2>2, <2>5, <2>6, <2>7, <2>8
<1>13. ASSUME NEW e \in Editors, EditWrite(e) \/ EditSteps(e) PROVE Goal
  <2>1. /\ UNCHANGED <<op, life, spawned>> /\ inst'.state = inst.state
        /\ inst.state \in {"RUNNING", "STARTING", "STOPPING"} => inst'.strategy = inst.strategy
    BY <1>0, <1>13 DEF EditWrite, EditSteps, EditClose, EditFinish, InstRec, record, wrappers,
       spawning
  <2>2. \A s \in Ids : strat'[s].cmd = strat[s].cmd
    BY <1>0, <1>13 DEF EditWrite, EditSteps, EditClose, EditFinish, Close, StratRec, strategies
  <2>3. inst.strategy # 0 => inst.strategy \in Ids
    BY <1>0 DEF Ids, NoId, InstRec
  <2>4. \A o \in Ops : op[o].pc = "killing" => op[o].str \in Ids
    BY <1>0 DEF StrategyInv, Holding, Detached, TypeOK, Ids, NoId
  <2>5. ASSUME NEW w, Tended(w) PROVE Tended(w)'
    BY <1>t, <1>u, <2>1, <2>2, <2>3, <2>4, <2>5
  <2> QED
    BY <1>c, <2>1, <2>5 DEF Alive
<1>14. ASSUME NEW v \in Ids, WrapperSteps(v) \/ OrphanEnds(v) \/ Reap(v) PROVE Goal
  <2>1. /\ UNCHANGED <<op, inst, spawned, strat>>
        /\ \A w \in Ids : Alive(w)' => Alive(w)
    BY <1>0, <1>14 DEF WrapperSteps, WrapperUp, LaunchJava, RecordJava, WrapperEnds,
       OrphanEnds, Reap, ReaperGoes, record, strategies,
       spawning, wrappers, Alive
  <2>2. \A w : Tended(w) => Tended(w)'
    BY <2>1 DEF Tended
  <2> QED
    BY <1>c, <2>1, <2>2
<1>15. ASSUME NEW v \in Ids, Decide(v) PROVE Goal
  <2>1. UNCHANGED <<op, inst, spawned, life>> /\ \A s \in Ids : strat'[s].cmd = strat[s].cmd
    BY <1>0, <1>15 DEF Decide, ReaperGoes, wrappers, spawning, StratRec
  <2>2. inst.strategy # 0 => inst.strategy \in Ids
    BY <1>0 DEF Ids, NoId, InstRec
  <2>3. \A o \in Ops : op[o].pc = "killing" => op[o].str \in Ids
    BY <1>0 DEF StrategyInv, Holding, Detached, TypeOK, Ids, NoId
  <2>4. ASSUME NEW w, Tended(w) PROVE Tended(w)'
    BY <1>t, <1>u, <2>1, <2>2, <2>3, <2>4
  <2> QED
    BY <1>c, <2>1, <2>4 DEF Alive
<1>16. ASSUME NEW v \in Ids, Mark(v) PROVE Goal
  <2>1. UNCHANGED <<op, strat, life, spawned>> /\ inst'.strategy = inst.strategy
    BY <1>16, MarkFacts
  <2>2. inst'.state = inst.state \/ (v = spawned /\ ~Alive(v))
    BY <1>16, MarkFacts, Zenon
  <2>3. CASE inst'.state = inst.state
    <3>1. \A w : Tended(w) => Tended(w)'
      BY <2>1, <2>3 DEF Tended
    <3> QED
      BY <1>c, <2>1, <3>1 DEF Alive
  <2>4. CASE v = spawned /\ ~Alive(v)
    <3>1. \A w \in Ids : ~Alive(w)
      BY <1>a, <2>4
    <3> QED
      BY <1>b, <2>1, <3>1 DEF Nobody, Alive
  <2> QED
    BY <2>2, <2>3, <2>4
<1>17. ASSUME UNCHANGED vars PROVE Goal
  <2>1. UNCHANGED <<op, inst, spawned, strat, life>>
    BY <1>17 DEF vars
  <2>2. \A w : Tended(w) => Tended(w)'
    BY <2>1 DEF Tended
  <2> QED
    BY <1>c, <2>1, <2>2 DEF Alive
<1> HIDE DEF Goal
<1> QED
  <2>1. ASSUME NEW o \in Ops, OpSteps(o) PROVE Goal
    BY <2>1, <1>2, <1>3, <1>4, <1>5, <1>6, <1>7, <1>8, <1>9, <1>10, <1>11, <1>12
       DEF OpSteps, StartSteps, StopSteps, KillSteps
  <2>2. ASSUME NEW v \in Ids, WrapperSteps(v) \/ OrphanEnds(v) \/ ReaperSteps(v)
        PROVE  Goal
    BY <2>2, <1>14, <1>15, <1>16 DEF ReaperSteps
  <2>3. Goal
    BY <1>1, <1>13, <1>17, <2>1, <2>2 DEF Next
  <2> QED
    BY <2>3 DEF Goal

-----------------------------------------------------------------------------
(* Java processes *)

\* The PID file and the socket show the next generation every wrapper that lives, and every
\* Java that has been recorded.
LEMMA JavaStep ==
    /\ TypeOK /\ GateInv /\ FreshInv /\ StrategyInv /\ AliveInv /\ ClearedInv /\ JavaInv
    /\ [Next]_vars
    => JavaInv'
<1> SUFFICES ASSUME TypeOK, GateInv, FreshInv, StrategyInv, AliveInv, ClearedInv, JavaInv,
                    [Next]_vars, ~lateObituary'
             PROVE  JavaInv'
  BY DEF JavaInv
<1> USE BoundAssumption DEF BoundAssumption
<1> DEFINE Goal == JavaInv'
           Vacant == \A v \in Ids : ~Occupies(v)
<1>0. /\ op \in [Ops -> OpRec] /\ strat \in [Ids -> StratRec]
      /\ life \in [Ids -> {"none", "boot", "up", "stopping", "gone"}]
      /\ java \in [Ids -> Javas] /\ pidFile \in NoId /\ spawned \in NoId
      /\ lateObituary \in BOOLEAN
  BY DEF TypeOK, OpRec, StratRec
<1>a. /\ \A v, w \in Ids : Occupies(v) /\ Occupies(w) => v = w
      /\ \A w \in Ids : java[w] = "recorded" => pidFile = w
      /\ \A o \in Ops : op[o].pc = "spawn" => Vacant
      /\ \A o \in Ops : op[o].pc \in Cleared => \A w \in Ids : Alive(w) => w \in missed
  BY LateKept DEF JavaInv, ClearedInv
\* Wrappers and Java processes that end take nothing from the others.
<1>b. ASSUME \A w \in Ids : Occupies(w)' => Occupies(w),
             \A w \in Ids : java'[w] = "recorded" => pidFile' = w,
             \A o \in Ops : op'[o].pc = "spawn" => op[o].pc = "spawn" \/ Vacant
      PROVE  Goal
  <2>1. \A v, w \in Ids : (Occupies(v) /\ Occupies(w))' => v = w
    BY <1>a, <1>b
  <2>2. \A o \in Ops : op'[o].pc = "spawn" => \A v \in Ids : ~Occupies(v)'
    BY <1>a, <1>b
  <2> QED
    BY <1>b, <2>1, <2>2 DEF JavaInv
<1>c. ASSUME UNCHANGED <<life, java, pidFile>>,
             \A o \in Ops : op'[o].pc = "spawn" => op[o].pc = "spawn" \/ Vacant
      PROVE  Goal
  BY <1>a, <1>b, <1>c DEF Occupies
\* A step of an operation that does not lead to the spawn.
<1>d. ASSUME NEW o \in Ops, OpSteps(o), op'[o].pc # "spawn"
      PROVE  \A p \in Ops : op'[p].pc = "spawn" => op[p].pc = "spawn" \/ Vacant
  BY <1>d, OthersOut
<1>1. ASSUME NEW o \in Ops, (\E kind \in Kinds : Request(o, kind)) \/ Lock(o) \/ Cancelled(o)
      PROVE  Goal
  <2>1. /\ \A p \in Ops \ {o} : op'[p] = op[p]
        /\ op'[o].pc # "spawn" /\ UNCHANGED <<life, java, pidFile>>
    BY <1>1, Entering DEF Kinds
  <2> QED
    BY <1>c, <2>1
<1>2. ASSUME NEW o \in Ops,
             Heal(o) \/ Restart(o) \/ StartRefused(o) \/ CloseStale(o) \/ Undo(o) \/ Cas(o)
             \/ StopRefused(o) \/ Halt(o) \/ Settle(o) \/ CloseOld(o) \/ Stopped(o)
             \/ Closing(o) \/ Killed(o)
      PROVE  Goal
  <2>1. op'[o].pc # "spawn"
    BY <1>2, Moves DEF Heal, Restart, StartRefused, CloseStale, Undo, Cas, StopRefused, Halt,
       Settle, CloseOld, Stopped, Closing, Killed
  <2>2. UNCHANGED <<life, java, pidFile>>
    BY <1>2 DEF Heal, Restart, StartRefused, CloseStale, Undo, Cas, StopRefused, Halt, Settle,
       CloseOld, Stopped, Closing, Killed, wrappers
  <2> QED
    BY <1>2, <1>c, <1>d, <2>1, <2>2 DEF OpSteps, StartSteps, StopSteps, KillSteps
<1>3. ASSUME NEW o \in Ops, DropStale(o) \/ Build(o) \/ StopBegin(o) \/ KillBegin(o) PROVE Goal
  <2>1. op'[o].pc # "spawn"
    BY <1>0, <1>3 DEF DropStale, Build, StopBegin, KillBegin, OpRec
  <2>2. UNCHANGED <<life, java, pidFile>>
    BY <1>3 DEF DropStale, Build, StopBegin, KillBegin, wrappers
  <2> QED
    BY <1>3, <1>c, <1>d, <2>1, <2>2 DEF OpSteps, StartSteps, StopSteps, KillSteps
\* What the wait looks at: the socket for a wrapper that is up, the PID file for a Java; a
\* wrapper that boots has missed nothing yet.
<1>4. ASSUME NEW o \in Ops, WaitPrior(o) PROVE Goal
  <2>1. /\ op[o].pc = "wait" /\ UNCHANGED <<life, java, pidFile>>
        /\ \/ PriorExited /\ ~SocketServed /\ Goto(o, "spawn")
           \/ Goto(o, "fail") \/ Goto(o, "undo")
    BY <1>4 DEF WaitPrior, wrappers
  <2>2. ASSUME PriorExited, ~SocketServed, NEW w \in Ids, Occupies(w) PROVE FALSE
    <3>1. life[w] \notin {"up", "stopping"}
      BY <2>2 DEF SocketServed, Listens
    <3>2. life[w] # "boot"
      BY <1>a, <2>1 DEF Cleared, Alive, FreshInv
    <3>3. java[w] # "recorded"
      BY <1>a, <2>2 DEF PriorExited, Ids
    <3> QED
      BY <2>2, <3>1, <3>2, <3>3 DEF Occupies
  <2>3. op'[o].pc # "spawn" \/ Vacant
    BY <2>1, <2>2, Moves
  <2>4. \A p \in Ops \ {o} : op'[p] = op[p]
    BY <1>4, OthersOut DEF OpSteps, StartSteps
  <2> QED
    BY <1>c, <2>1, <2>3, <2>4
<1>5. ASSUME NEW o \in Ops, Spawn(o) PROVE Goal
  <2>1. op[o].pc = "spawn" /\ op'[o].pc # "spawn" /\ UNCHANGED <<java, pidFile>>
    BY <1>5, Moves DEF Spawn
  <2>2. Vacant
    BY <1>a, <2>1
  <2>3. \A w \in Ids : life'[w] = life[w] \/ w = spawned + 1
    BY <1>0, <1>5 DEF Spawn
  <2>4. \A w \in Ids : Occupies(w)' => w = spawned + 1
    BY <2>1, <2>2, <2>3 DEF Occupies
  <2>5. \A w \in Ids : java'[w] # "recorded"
    BY <2>1, <2>2 DEF Occupies
  <2>6. \A p \in Ops : op'[p].pc # "spawn"
    BY <1>5, <2>1, OthersOut DEF OpSteps, StartSteps
  <2> QED
    BY <2>4, <2>5, <2>6 DEF JavaInv
\* The stop or the kill of one wrapper.
<1>6. ASSUME NEW o \in Ops, Dial(o) \/ HaltKill(o) \/ Killing(o) PROVE Goal
  <2>1. op'[o].pc # "spawn"
    BY <1>6, Moves DEF Dial, HaltKill, Killing
  <2>2. pidFile' = pidFile
    BY <1>6 DEF Dial, HaltKill, Killing
  <2>3. PICK w : \/ UNCHANGED <<life, java>>
                 \/ life' = [life EXCEPT ![w] = "gone"] /\ java' \in {java, [java EXCEPT ![w] = "none"]}
                 \/ /\ Listens(w) /\ life' = [life EXCEPT ![w] = "stopping"]
                    /\ UNCHANGED java
    BY <1>6 DEF Dial, HaltKill, Killing
  <2>4. ASSUME NEW x \in Ids
        PROVE  (Occupies(x)' => Occupies(x)) /\ (java'[x] = "recorded" => java[x] = "recorded")
    <3>1. CASE UNCHANGED <<life, java>>
      BY <3>1 DEF Occupies
    <3>2. CASE life' = [life EXCEPT ![w] = "gone"] /\ java' \in {java, [java EXCEPT ![w] = "none"]}
      BY <1>0, <3>2 DEF Occupies
    <3>3. CASE Listens(w) /\ life' = [life EXCEPT ![w] = "stopping"] /\ UNCHANGED java
      BY <1>0, <3>3 DEF Listens, Occupies
    <3> QED
      BY <2>3, <3>1, <3>2, <3>3
  <2>5. \A p \in Ops : op'[p].pc = "spawn" => op[p].pc = "spawn" \/ Vacant
    BY <1>6, <1>d, <2>1 DEF OpSteps, StopSteps, KillSteps
  <2> QED
    BY <1>a, <1>b, <2>2, <2>4, <2>5
<1>7. ASSUME NEW e \in Editors, EditWrite(e) \/ EditSteps(e) PROVE Goal
  <2>1. UNCHANGED <<op, life, java, pidFile>>
    BY <1>7 DEF EditWrite, EditSteps, EditClose, EditFinish, record, wrappers
  <2> QED
    BY <1>c, <2>1
\* A wrapper that lives is the only one a start would find, so that it may name itself in
\* the PID file, or take its name out, without hiding a Java of another.
<1>8. ASSUME NEW v \in Ids, WrapperSteps(v) PROVE Goal
  <2>1. Occupies(v) /\ op' = op
    BY <1>8 DEF WrapperSteps, WrapperUp, LaunchJava, RecordJava, WrapperEnds, Listens, Occupies,
       record
  <2>2. \A w \in Ids \ {v} : ~Occupies(w)
    BY <1>a, <2>1
  <2>3. \A w \in Ids \ {v} : life'[w] = life[w] /\ java'[w] = java[w]
    BY <1>0, <1>8 DEF WrapperSteps, WrapperUp, LaunchJava, RecordJava, WrapperEnds
  <2>4. java'[v] = "recorded" => pidFile' = v
    <3>1. CASE WrapperUp(v)
      BY <1>0, <1>a, <3>1 DEF WrapperUp
    <3>2. CASE LaunchJava(v) \/ WrapperEnds(v)
      BY <1>0, <3>2 DEF LaunchJava, WrapperEnds
    <3>3. CASE RecordJava(v)
      BY <3>3 DEF RecordJava
    <3> QED
      BY <1>8, <3>1, <3>2, <3>3 DEF WrapperSteps
  <2>5. \A w \in Ids : Occupies(w)' => Occupies(w)
    BY <2>1, <2>3 DEF Occupies
  <2>6. \A w \in Ids : java'[w] = "recorded" => pidFile' = w
    BY <2>2, <2>3, <2>4 DEF Occupies
  <2> QED
    BY <1>b, <2>1, <2>5, <2>6
<1>9. ASSUME NEW v \in Ids, OrphanEnds(v) PROVE Goal
  <2>1. java' = [java EXCEPT ![v] = "none"] /\ UNCHANGED <<op, life, pidFile>>
    BY <1>9 DEF OrphanEnds
  <2>2. \A w \in Ids : java'[w] \in {java[w], "none"}
    BY <1>0, <2>1
  <2> QED
    BY <1>a, <1>b, <2>1, <2>2 DEF Occupies
<1>10. ASSUME NEW v \in Ids, ReaperSteps(v) PROVE Goal
  <2>1. UNCHANGED <<op, life, java, pidFile>>
    BY <1>10 DEF ReaperSteps, Reap, Decide, Mark, ReaperGoes, wrappers
  <2> QED
    BY <1>c, <2>1
<1>11. ASSUME UNCHANGED vars PROVE Goal
  BY <1>11, <1>c DEF vars
<1> HIDE DEF Goal
<1> QED
  <2>1. ASSUME NEW o \in Ops, OpSteps(o) PROVE Goal
    BY <2>1, <1>2, <1>3, <1>4, <1>5, <1>6 DEF OpSteps, StartSteps, StopSteps, KillSteps
  <2>2. Goal
    BY <1>1, <1>7, <1>8, <1>9, <1>10, <1>11, <2>1 DEF Next
  <2> QED
    BY <2>2 DEF Goal

-----------------------------------------------------------------------------
(* The theorems *)

LEMMA InitInv == Init => IInv
<1> SUFFICES ASSUME Init PROVE IInv
  OBVIOUS
<1> USE BoundAssumption DEF BoundAssumption, Init
<1>0. \A o \in Ops : op[o].pc = "idle"
  BY DEF IdleOp
<1>1. TypeOK
  <2>1. IdleOp \in OpRec
    BY DEF IdleOp, OpRec, PCs, Kinds, States, NoId
  <2>2. [st |-> "STOPPED", cmd |-> 0, closed |-> FALSE, config |-> 0] \in StratRec
    BY DEF StratRec, States, NoId
  <2>3. IdleEdit \in [pc : {"idle", "close", "finish"}, str : NoId]
    BY DEF IdleEdit, NoId
  <2>4. inst \in [state : States, strategy : NoId, stale : BOOLEAN, resetting : BOOLEAN]
    BY DEF States, NoId
  <2>5. op \in [Ops -> OpRec] /\ strat \in [Ids -> StratRec]
    BY <2>1, <2>2
  <2>6. /\ life \in [Ids -> {"none", "boot", "up", "stopping", "gone"}]
        /\ java \in [Ids -> Javas] /\ host \in [Ids -> NoId]
        /\ reaper \in [Ids -> {"none", "waiting", "reaped", "STOPPED", "CRASHED", "done"}]
    BY DEF NoId
  <2>7. {built, spawned, pidFile, requests} \subseteq NoId
    BY DEF NoId
  <2>8. config \in 0..MaxEdits /\ edits \in 0..MaxEdits
    OBVIOUS
  <2>9. lateObituary \in BOOLEAN /\ gate \in Ops \cup {"free"}
    BY Zenon
  <2> QED
    BY <2>3, <2>4, <2>5, <2>6, <2>7, <2>8, <2>9 DEF TypeOK, OpRec, StratRec
<1>2. EditCount /\ GateInv
  BY <1>0 DEF EditCount, GateInv, Inside
<1>3. FreshInv
  BY DEF FreshInv, Ids
<1>4. StrategyInv
  BY <1>0 DEF StrategyInv, Holding, Detached, IdleEdit
<1>5. StateInv
  BY <1>0 DEF StateInv
<1>6. AliveInv /\ ClearedInv /\ JavaInv
  BY <1>0 DEF AliveInv, ClearedInv, JavaInv, Alive, Occupies
<1> QED
  BY <1>1, <1>2, <1>3, <1>4, <1>5, <1>6 DEF IInv

LEMMA StepInv == IInv /\ [Next]_vars => IInv'
<1> SUFFICES ASSUME IInv, [Next]_vars PROVE IInv'
  OBVIOUS
<1>1. TypeOK' /\ EditCount' /\ GateInv'
  BY TypeStep, EditCountStep, GateStep DEF IInv
<1>2. FreshInv' /\ StrategyInv' /\ StateInv'
  BY FreshStep, StrategyStep, StateStep DEF IInv
<1>3. AliveInv' /\ ClearedInv' /\ JavaInv'
  BY AliveStep, JavaStep DEF IInv
<1> QED
  BY <1>1, <1>2, <1>3 DEF IInv

\* What the holder of the gate relies on holds in every reachable state, whatever
\* edits, reapers and wrappers do beside the gate.
THEOREM LifecycleInductive == Spec => []IInv
<1> QED
  BY InitInv, StepInv, PTL DEF Spec

\* The variables of the lifecycle keep their types.
THEOREM LifecycleTypeCorrect == Spec => []TypeOK
<1>1. IInv => TypeOK
  BY DEF IInv
<1> QED
  BY <1>1, LifecycleInductive, PTL

\* WaitForPriorExit and the socket probe keep the Java processes of two generations
\* apart, unless a wrapper was killed before it had recorded its Java, or a late obituary
\* let a start in.
THEOREM OneJavaHolds == Spec => []OneJava
<1>1. IInv => OneJava
  <2>1. ASSUME TypeOK, FreshInv, NEW w \in Ids, java[w] # "none"
        PROVE  Occupies(w) \/ Unseen(w)
    <3>1. life[w] \in {"none", "boot", "up", "stopping", "gone"} /\ java[w] \in Javas
      BY <2>1 DEF TypeOK
    <3> QED
      BY <2>1, <3>1 DEF FreshInv, Occupies, Unseen
  <2> QED
    BY <2>1 DEF IInv, JavaInv, OneJava
<1> QED
  BY <1>1, LifecycleInductive, PTL

\* With nobody at the gate, an instance whose wrapper lives is recorded as RUNNING,
\* unless that wrapper missed a stop or a late obituary spoilt the record.
THEOREM HealthyIsRecordedHolds == Spec => []HealthyIsRecorded
<1>1. IInv => HealthyIsRecorded
  <2> SUFFICES ASSUME IInv, gate = "free", ~lateObituary, NEW w \in Ids, Alive(w), w \notin missed
               PROVE  inst.state = "RUNNING"
    BY DEF HealthyIsRecorded
  <2>1. \A o \in Ops : op[o].pc \in {"idle", "queued"}
    BY OpsAssumption DEF IInv, GateInv, Inside, OpsAssumption
  <2>2. Tended(w)
    BY DEF IInv, AliveInv
  <2> QED
    BY <2>1, <2>2 DEF Tended
<1> QED
  BY <1>1, LifecycleInductive, PTL

\* Whatever moment an edit of the launch configuration chooses, the strategy an
\* instance is started from was built after the last edit and is open.
THEOREM StartsFromCurrentConfigHolds == Spec => StartsFromCurrentConfig
<1> DEFINE Step == inst.state # "STARTING" /\ inst'.state = "STARTING"
                     => strat'[inst'.strategy].config = config /\ ~strat'[inst'.strategy].closed
<1>1. IInv /\ [Next]_vars => [Step]_vars
  <2> SUFFICES ASSUME IInv, Next, inst.state # "STARTING", inst'.state = "STARTING"
               PROVE  strat'[inst'.strategy].config = config /\ ~strat'[inst'.strategy].closed
    OBVIOUS
  <2>0. /\ op \in [Ops -> OpRec] /\ strat \in [Ids -> StratRec]
        /\ inst \in [state : States, strategy : NoId, stale : BOOLEAN, resetting : BOOLEAN]
        /\ built \in NoId /\ config \in 0..MaxEdits
    BY DEF IInv, TypeOK, OpRec, StratRec
  <2>1. \E o \in Ops : Build(o)
    <3>1. ASSUME NEW o \in Ops, (\E kind \in Kinds : Request(o, kind)) \/ Lock(o) \/ Cancelled(o)
          PROVE  FALSE
      BY <3>1, Entering DEF IInv
    <3>2. ASSUME NEW o \in Ops, Heal(o) \/ Restart(o) \/ KillSteps(o) PROVE FALSE
      BY <2>0, <3>2 DEF Heal, Restart, KillSteps, KillBegin, Killing, Closing, Killed
    <3>3. ASSUME NEW o \in Ops, StopSteps(o) PROVE FALSE
      BY <2>0, <3>3 DEF StopSteps, StopRefused, StopBegin, Halt, Dial, HaltKill, Settle, CloseOld,
         Stopped
    <3>4. ASSUME NEW o \in Ops, Undo(o) PROVE FALSE
      BY <2>0, <3>4 DEF Undo, IInv, StateInv, Ended
    <3>5. ASSUME NEW o \in Ops, StartSteps(o) PROVE Build(o)
      BY <2>0, <3>4, <3>5 DEF StartSteps, StartRefused, DropStale, CloseStale, WaitPrior,
         Spawn, Cas
    <3>6. ASSUME NEW e \in Editors, EditWrite(e) \/ EditSteps(e) PROVE FALSE
      BY <2>0, <3>6 DEF EditWrite, EditSteps, EditClose, EditFinish, record
    <3>7. ASSUME NEW v \in Ids, WrapperSteps(v) \/ OrphanEnds(v) \/ ReaperSteps(v)
          PROVE  FALSE
      BY <3>7, MarkFacts DEF IInv, Ended, WrapperSteps, WrapperUp, LaunchJava, RecordJava,
         WrapperEnds, OrphanEnds, ReaperSteps, Reap,
         Decide, ReaperGoes, record
    <3> QED
      BY <3>1, <3>2, <3>3, <3>5, <3>6, <3>7 DEF Next, OpSteps
  <2>2. PICK o \in Ops : Build(o)
    BY <2>1
  <2> DEFINE s == IF inst.strategy = 0 THEN built + 1 ELSE inst.strategy
  <2>3. /\ s \in Ids /\ inst'.strategy = s
        /\ strat' = IF s > built THEN [strat EXCEPT ![s].config = config] ELSE strat
    BY <2>0, <2>2 DEF Build
  <2>4. inst.strategy = 0 \/ ~IsStale
    BY <2>2 DEF Build, IInv, StrategyInv
  <2>5. CASE s > built
    BY <2>0, <2>3, <2>5 DEF IInv, FreshInv, StratRec
  <2>6. CASE ~(s > built)
    <3>1. inst.strategy # 0 /\ s = inst.strategy /\ ~inst.stale
      BY <2>0, <2>4, <2>6 DEF NoId, IsStale
    <3> QED
      BY <2>3, <2>6, <3>1 DEF IInv, StrategyInv
  <2> QED
    BY <2>5, <2>6
<1> QED
  BY <1>1, LifecycleInductive, PTL DEF Spec, StartsFromCurrentConfig

-----------------------------------------------------------------------------
(***************************************************************************)
(* InstanceLifecycle implements WorkerInstance.  What the mapping needs of *)
(* IInv is that an operation inside the gate holds it (GateInv), and that  *)
(* a start finds and puts back the end of an earlier run (StateInv).       *)
(***************************************************************************)

\* The state of the record is what WorkerInstance sees of it.
Same == inst'.state = inst.state /\ gate' = gate

\* A step of the operation o inside its gate.
LEMMA HolderStep ==
    ASSUME TypeOK, GateInv, StateInv, NEW o \in Ops, OpSteps(o) \/ Cancelled(o) \/ Lock(o)
    PROVE  Contract!Next \/ Same
<1> USE DEF record, Same
<1> DEFINE Acts == \/ Contract!Take(o) \/ Contract!Leave(o) \/ Contract!Starting(o)
                   \/ Contract!Running(o) \/ Contract!Stopping(o) \/ Contract!AtRest(o)
<1>0. /\ inst \in [state : States, strategy : NoId, stale : BOOLEAN, resetting : BOOLEAN]
      /\ op[o].pc \notin {"idle", "queued"} => gate = o
      /\ op[o].pc \in {"closeStale", "reset"} => inst.state \in {"STOPPED", "CRASHED"}
      /\ op[o].pc = "undo" => op[o].old \in {"STOPPED", "CRASHED"}
  BY DEF TypeOK, GateInv, Inside, StateInv, Ended
<1> SUFFICES Acts \/ Same
  BY DEF Contract!Next
<1>1. ASSUME Lock(o) PROVE Acts
  BY <1>1 DEF Lock, Contract!Take, Contract!Holds
<1>2. ASSUME Cancelled(o) PROVE Acts \/ Same
  BY <1>0, <1>2 DEF Cancelled, Leave, Kinds, Contract!Leave, Contract!Held
<1>3. ASSUME Heal(o) \/ Restart(o) PROVE Acts \/ Same
  BY <1>0, <1>3 DEF Heal, Restart, Goto, Leave, Contract!Leave, Contract!Held
<1>4. ASSUME StartSteps(o) PROVE Acts \/ Same
  <2>1. ASSUME StartRefused(o) PROVE Acts
    BY <1>0, <2>1 DEF StartRefused, Leave, Contract!Leave, Contract!Held
  <2>2. ASSUME DropStale(o) \/ CloseStale(o) \/ WaitPrior(o) PROVE Same
    BY <1>0, <2>2 DEF DropStale, CloseStale, WaitPrior, Goto
  <2>3. ASSUME Spawn(o) PROVE Same
    BY <2>3 DEF Spawn, Goto
  <2>4. ASSUME Build(o) PROVE Acts
    BY <1>0, <2>4 DEF Build, Startable, Contract!Starting, Contract!Holds
  <2>5. ASSUME Undo(o) PROVE Acts
    BY <1>0, <2>5 DEF Undo, Leave, Contract!AtRest, Contract!Held
  <2>6. ASSUME Cas(o) PROVE Acts
    BY <1>0, <2>6 DEF Cas, Leave, Contract!Leave, Contract!Running, Contract!Held
  <2> QED
    BY <1>4, <2>1, <2>2, <2>3, <2>4, <2>5, <2>6 DEF StartSteps
<1>5. ASSUME StopSteps(o) PROVE Acts \/ Same
  <2>1. ASSUME StopRefused(o) PROVE Acts
    BY <1>0, <2>1 DEF StopRefused, Leave, Contract!Leave, Contract!Held
  <2>2. ASSUME StopBegin(o) PROVE Acts
    BY <1>0, <2>2 DEF StopBegin, Contract!Stopping, Contract!Holds
  <2>3. ASSUME Halt(o) \/ Dial(o) \/ Settle(o) \/ CloseOld(o) PROVE Same
    BY <1>0, <2>3 DEF Halt, Dial, Settle, CloseOld, Goto
  <2>4. ASSUME HaltKill(o) PROVE Acts \/ Same
    BY <1>0, <2>4 DEF HaltKill, Goto, Leave, Contract!Leave, Contract!Held
  <2>5. ASSUME Stopped(o) PROVE Acts
    BY <1>0, <2>5 DEF Stopped, Goto, Leave, Contract!AtRest, Contract!Held
  <2> QED
    BY <1>5, <2>1, <2>2, <2>3, <2>4, <2>5 DEF StopSteps
<1>6. ASSUME KillSteps(o) PROVE Acts \/ Same
  <2>1. ASSUME KillBegin(o) \/ Killing(o) \/ Closing(o) PROVE Same
    BY <1>0, <2>1 DEF KillBegin, Killing, Closing, Goto
  <2>2. ASSUME Killed(o) PROVE Acts
    BY <1>0, <2>2 DEF Killed, Leave, Contract!AtRest, Contract!Held
  <2> QED
    BY <1>6, <2>1, <2>2 DEF KillSteps
<1> QED
  BY <1>1, <1>2, <1>3, <1>4, <1>5, <1>6 DEF OpSteps

\* Beside the gate only the end of a process writes the state.
LEMMA BesideStep ==
    ASSUME TypeOK,
           \/ \E o \in Ops, kind \in Kinds : Request(o, kind)
           \/ \E e \in Editors : EditWrite(e) \/ EditSteps(e)
           \/ \E w \in Ids : WrapperSteps(w) \/ OrphanEnds(w) \/ ReaperSteps(w)
    PROVE  Contract!Next \/ Same
<1> USE DEF record, Same
<1>0. inst \in [state : States, strategy : NoId, stale : BOOLEAN, resetting : BOOLEAN]
  BY DEF TypeOK
<1>1. ASSUME NEW o \in Ops, NEW kind \in Kinds, Request(o, kind) PROVE Same
  BY <1>1 DEF Request
<1>2. ASSUME NEW e \in Editors, EditWrite(e) \/ EditSteps(e) PROVE Same
  BY <1>0, <1>2 DEF EditWrite, EditSteps, EditClose, EditFinish
<1>3. ASSUME NEW w \in Ids, WrapperSteps(w) \/ OrphanEnds(w) PROVE Same
  BY <1>3 DEF WrapperSteps, WrapperUp, LaunchJava, RecordJava, WrapperEnds, OrphanEnds
<1>4. ASSUME NEW w \in Ids, Reap(w) \/ Decide(w) PROVE Same
  BY <1>4 DEF Reap, Decide, ReaperGoes
<1>5. ASSUME NEW w \in Ids, Mark(w) PROVE Contract!Exited \/ Same
  BY <1>0, <1>5 DEF Mark, ReaperGoes, Contract!Exited
<1> QED
  BY <1>1, <1>2, <1>3, <1>4, <1>5 DEF ReaperSteps, Contract!Next

\* Every step of the detailed specification is one of the contract's, or none.
LEMMA ContractStep == IInv /\ [Next]_vars => [Contract!Next]_<<inst.state, gate>>
<1> SUFFICES ASSUME IInv, [Next]_vars PROVE Contract!Next \/ Same
  BY DEF Same
<1>1. TypeOK /\ GateInv /\ StateInv
  BY DEF IInv
<1>2. ASSUME UNCHANGED vars PROVE Same
  BY <1>2 DEF vars, Same
<1> QED
  BY <1>1, <1>2, HolderStep, BesideStep DEF Next

\* InstanceLifecycle implements WorkerInstance (manager.go, startLocked, stopLocked,
\* killLocked and markStrategyState): the Worker that module Reconcile puts behind the
\* Control Plane.
THEOREM WorkerContractHolds == Spec => WorkerContract
<1>1. Init => Contract!Init
  BY DEF Init, Contract!Init
<1>2. IInv /\ [Next]_vars => [Contract!Next]_<<inst.state, gate>>
  BY ContractStep
<1>3. Spec => []IInv
  BY LifecycleInductive
<1> QED
  BY <1>1, <1>2, <1>3, PTL DEF Spec, WorkerContract, Contract!Spec

-----------------------------------------------------------------------------
\* Numbers that have been given out belong to wrappers that were started.
LivedInv == \A w \in Ids : w <= spawned => life[w] # "none"

SeenStep == \A w \in Ids : Seen(w)!Next \/ UNCHANGED <<life[w], java[w]>>

\* The steps that touch no wrapper.
LEMMA WrappersAlone ==
    ASSUME [Next]_vars
    PROVE  \/ UNCHANGED <<life, java, spawned>>
           \/ \E o \in Ops : Spawn(o) \/ Dial(o) \/ HaltKill(o) \/ Killing(o)
           \/ \E w \in Ids : WrapperSteps(w) \/ OrphanEnds(w)
<1> DEFINE Rest == UNCHANGED <<life, java, spawned>>
<1> USE DEF wrappers, spawning
<1>1. ASSUME NEW o \in Ops, Lock(o) \/ Cancelled(o) \/ Heal(o) \/ Restart(o) PROVE Rest
  BY <1>1 DEF Lock, Cancelled, Heal, Restart
<1>2. ASSUME NEW o \in Ops, StartSteps(o), ~Spawn(o) PROVE Rest
  BY <1>2 DEF StartSteps, StartRefused, DropStale, CloseStale, Build, WaitPrior, Undo, Cas
<1>3. ASSUME NEW o \in Ops, StopSteps(o), ~Dial(o), ~HaltKill(o) PROVE Rest
  BY <1>3 DEF StopSteps, StopRefused, StopBegin, Halt, Settle, CloseOld, Stopped
<1>4. ASSUME NEW o \in Ops, KillSteps(o), ~Killing(o) PROVE Rest
  BY <1>4 DEF KillSteps, KillBegin, Closing, Killed
<1>5. ASSUME NEW o \in Ops, NEW kind \in Kinds, Request(o, kind) PROVE Rest
  BY <1>5 DEF Request
<1>6. ASSUME NEW e \in Editors, EditWrite(e) \/ EditSteps(e) PROVE Rest
  BY <1>6 DEF EditWrite, EditSteps, EditClose, EditFinish
<1>7. ASSUME NEW w \in Ids, ReaperSteps(w) PROVE Rest
  BY <1>7 DEF ReaperSteps, Reap, Decide, Mark, ReaperGoes
<1>8. ASSUME UNCHANGED vars PROVE Rest
  BY <1>8 DEF vars
<1> QED
  BY <1>1, <1>2, <1>3, <1>4, <1>5, <1>6, <1>7, <1>8 DEF Next, OpSteps

LEMMA SeenFollows == IInv /\ LivedInv /\ [Next]_vars => SeenStep /\ LivedInv'
<1> SUFFICES ASSUME IInv, LivedInv, [Next]_vars PROVE SeenStep /\ LivedInv'
  OBVIOUS
<1>0. /\ life \in [Ids -> {"none", "boot", "up", "stopping", "gone"}]
      /\ java \in [Ids -> Javas] /\ spawned \in NoId
      /\ \A w \in Ids : w > spawned => life[w] = "none"
      /\ \A o \in Ops : /\ op[o].str \in NoId
                        /\ op[o].str # 0 => strat[op[o].str].cmd \in 0..spawned
  BY DEF IInv, TypeOK, FreshInv, NoId, Ids
<1> USE <1>0 DEF SeenStep, LivedInv, Seen!Next, Seen!Alone, Seen!Living
<1>1. CASE UNCHANGED <<life, java, spawned>>
  BY <1>1
<1>2. ASSUME NEW o \in Ops, Spawn(o) PROVE SeenStep /\ LivedInv'
  <2>1. CASE UNCHANGED <<life, spawned>>
    BY <1>1, <1>2, <2>1 DEF Spawn
  <2>2. CASE /\ spawned + 1 \in Ids /\ spawned' = spawned + 1
             /\ life' = [life EXCEPT ![spawned + 1] = "boot"]
    <3>1. life[spawned + 1] = "none" /\ java' = java
      BY <1>2, <2>2 DEF Spawn, NoId
    <3>2. \A w \in Ids : life'[w] = IF w = spawned + 1 THEN "boot" ELSE life[w]
      BY <2>2
    <3>3. SeenStep
      BY <3>1, <3>2 DEF Seen!Boots
    <3>4. LivedInv'
      BY <2>2, <3>2 DEF NoId, Ids
    <3> QED
      BY <3>3, <3>4
  <2> QED
    BY <1>2, <2>1, <2>2 DEF Spawn, spawning
<1>3. ASSUME NEW o \in Ops, Dial(o) PROVE SeenStep /\ LivedInv'
  <2>1. UNCHANGED <<java, spawned>>
    BY <1>3 DEF Dial, spawning
  <2>2. CASE UNCHANGED life
    BY <1>1, <2>1, <2>2
  <2>3. ASSUME NEW v \in Ids, Listens(v), life' = [life EXCEPT ![v] = "stopping"]
        PROVE  SeenStep /\ LivedInv'
    <3>1. /\ life[v] \in {"up", "stopping"} /\ life'[v] = "stopping"
          /\ \A x \in Ids \ {v} : life'[x] = life[x]
      BY <2>3 DEF Listens
    <3> QED
      BY <2>1, <3>1 DEF Seen!Told
  <2> QED
    BY <1>3, <2>2, <2>3 DEF Dial
<1>k. ASSUME NEW w \in Ids, w <= spawned, life' = [life EXCEPT ![w] = "gone"],
             java' \in {java, [java EXCEPT ![w] = "none"]}, spawned' = spawned
      PROVE  SeenStep /\ LivedInv'
  <2>1. life[w] # "none"
    BY <1>k
  <2>2. \A v \in Ids : v # w => life'[v] = life[v] /\ java'[v] = java[v]
    BY <1>k
  <2>3. life'[w] = "gone" /\ java'[w] \in {java[w], "none"}
    BY <1>k
  <2>4. Seen(w)!Next \/ UNCHANGED <<life[w], java[w]>>
    BY <2>1, <2>3 DEF Seen!Killed, Seen!OrphanEnds
  <2> QED
    BY <1>k, <2>2, <2>3, <2>4
<1>4. ASSUME NEW o \in Ops, HaltKill(o) PROVE SeenStep /\ LivedInv'
  <2> DEFINE w == strat[op[o].str].cmd
  <2>1. w \in 0..spawned
    BY <1>4 DEF HaltKill, IInv, StrategyInv, Holding, Detached
  <2>2. /\ UNCHANGED <<java, spawned>>
        /\ \/ UNCHANGED life
           \/ w # 0 /\ life' = [life EXCEPT ![w] = "gone"]
    BY <1>4 DEF HaltKill, spawning
  <2> HIDE DEF w
  <2>3. w # 0 => w \in Ids /\ w <= spawned
    BY <2>1, BoundAssumption DEF BoundAssumption, Ids, NoId
  <2> QED
    BY <1>1, <1>k, <2>2, <2>3
<1>5. ASSUME NEW o \in Ops, Killing(o) PROVE SeenStep /\ LivedInv'
  <2> DEFINE w == strat[op[o].str].cmd
  <2>1. w \in 0..spawned
    BY <1>5 DEF Killing, IInv, StrategyInv, Holding, Detached
  <2>2. \/ UNCHANGED <<life, java, spawned>>
        \/ /\ w # 0 /\ life' = [life EXCEPT ![w] = "gone"]
           /\ java' \in {java, [java EXCEPT ![w] = "none"]} /\ spawned' = spawned
    BY <1>5 DEF Killing, spawning
  <2> HIDE DEF w
  <2>3. w # 0 => w \in Ids /\ w <= spawned
    BY <2>1, BoundAssumption DEF BoundAssumption, Ids, NoId
  <2> QED
    BY <1>1, <1>k, <2>2, <2>3
<1>6. ASSUME NEW w \in Ids, WrapperSteps(w) \/ OrphanEnds(w)
      PROVE  SeenStep /\ LivedInv'
  <2>1. spawned' = spawned
    BY <1>6 DEF WrapperSteps, WrapperUp, LaunchJava, RecordJava, WrapperEnds, OrphanEnds, spawning
  <2>2. \A v \in Ids : v # w => life'[v] = life[v] /\ java'[v] = java[v]
    BY <1>6 DEF WrapperSteps, WrapperUp, LaunchJava, RecordJava, WrapperEnds, OrphanEnds
  <2>3. (Seen(w)!Next \/ UNCHANGED <<life[w], java[w]>>) /\ life'[w] # "none"
    <3>1. CASE WrapperUp(w)
      BY <3>1 DEF WrapperUp, Seen!ComesUp
    <3>2. CASE LaunchJava(w)
      BY <3>2 DEF LaunchJava, Listens, Seen!Launches
    <3>3. CASE RecordJava(w)
      BY <3>3 DEF RecordJava, Listens, Seen!Launches
    <3>4. CASE WrapperEnds(w) \/ OrphanEnds(w)
      BY <3>4 DEF WrapperEnds, OrphanEnds, Seen!Ends, Seen!OrphanEnds
    <3> QED
      BY <1>6, <3>1, <3>2, <3>3, <3>4 DEF WrapperSteps
  <2> QED
    BY <2>1, <2>2, <2>3
<1> QED
  BY <1>1, <1>2, <1>3, <1>4, <1>5, <1>6, WrappersAlone

\* Of a wrapper the Worker expects WrapperLife and nothing more.
THEOREM WrappersAsExpectedHolds == Spec => WrappersAsExpected
<1>1. Init => LivedInv /\ \A w \in Ids : Seen(w)!NotStarted
  BY DEF Init, LivedInv, Seen!NotStarted, Ids
<1>2. IInv /\ LivedInv /\ [Next]_vars => LivedInv'
  BY SeenFollows
<1>3. IInv /\ LivedInv /\ [Next]_vars
          => [\A w \in Ids : Seen(w)!Next \/ UNCHANGED <<life[w], java[w]>>]_<<life, java>>
  BY SeenFollows DEF SeenStep
<1> QED
  BY <1>1, <1>2, <1>3, LifecycleInductive, PTL DEF Spec, WrappersAsExpected

-----------------------------------------------------------------------------
(* A record that says RUNNING has somebody who will correct it *)

\* The last wrapper is the one that its strategy knows.
LastInv == spawned > 0 => host[spawned] # 0 /\ strat[host[spawned]].cmd = spawned

\* While a start is STARTING, late obituaries or not, the record has the strategy it
\* starts, and the wrapper it has launched will be reported as crashed or has been.
Unreported == {"waiting", "reaped", "CRASHED"}
Launched == /\ spawned > 0 /\ host[spawned] = inst.strategy
            /\ strat[inst.strategy].st \in {"RUNNING", "CRASHED"}
            /\ reaper[spawned] \in Unreported
StartingInv ==
    \A o \in Ops :
        /\ op[o].pc \in {"wait", "spawn"} =>
               op[o].str # 0 /\ inst.state \in Ended \cup {"STARTING"}
        /\ op[o].pc \in {"wait", "spawn", "cas"} /\ inst.state = "STARTING" =>
               inst.strategy # 0 /\ op[o].str = inst.strategy
        /\ op[o].pc = "cas" /\ inst.state = "STARTING" => Launched

WatchInv == LastInv /\ StartingInv /\ CrashIsWatched

LEMMA WatchStep == IInv /\ WatchInv /\ [Next]_vars => WatchInv'
<1> SUFFICES ASSUME IInv, WatchInv, [Next]_vars PROVE WatchInv'
  OBVIOUS
<1> USE BoundAssumption DEF BoundAssumption
<1> DEFINE InstRec == [state : States, strategy : NoId, stale : BOOLEAN, resetting : BOOLEAN]
           At(o, pcs) == op[o].pc \in pcs
           Facts(o) ==
              /\ op[o].pc \in {"wait", "spawn"} =>
                     op[o].str # 0 /\ inst.state \in Ended \cup {"STARTING"}
              /\ op[o].pc \in {"wait", "spawn", "cas"} /\ inst.state = "STARTING" =>
                     inst.strategy # 0 /\ op[o].str = inst.strategy
              /\ op[o].pc = "cas" /\ inst.state = "STARTING" => Launched
           Starts == {"wait", "spawn", "cas"}
           Rest == UNCHANGED <<strat, host, spawned, reaper>>
           Goal == LastInv' /\ (\A o \in Ops : Facts(o)') /\ CrashIsWatched'
<1>0. /\ op \in [Ops -> OpRec] /\ inst \in InstRec /\ strat \in [Ids -> StratRec]
      /\ spawned \in NoId /\ host \in [Ids -> NoId] /\ built \in NoId
      /\ reaper \in [Ids -> {"none", "waiting", "reaped", "STOPPED", "CRASHED", "done"}]
      /\ TypeOK /\ GateInv /\ FreshInv /\ StrategyInv /\ StateInv
  BY DEF IInv, TypeOK, OpRec, StratRec
<1> HIDE DEF InstRec
<1>a. LastInv /\ CrashIsWatched /\ \A o \in Ops : Facts(o)
  BY DEF WatchInv, StartingInv
<1> SUFFICES Goal
  BY DEF WatchInv, StartingInv
\* Steps that leave wrappers and strategies alone, and do not make the record RUNNING.
<1>b. ASSUME Rest, inst'.state # "RUNNING" \/ inst'.state = inst.state
      PROVE  LastInv' /\ CrashIsWatched'
  BY <1>a, <1>b DEF LastInv, CrashIsWatched
<1>c. ASSUME NEW o \in Ops, OpSteps(o), Facts(o)' PROVE \A p \in Ops : Facts(p)'
  <2>1. \A p \in Ops \ {o} : op'[p] = op[p] /\ op[p].pc \in {"idle", "queued"}
    BY <1>0, <1>c, OthersOut
  <2> QED
    BY <1>c, <2>1
\* The same, with the operation not starting, or further on in its start.
<1>d. ASSUME NEW o \in Ops, OpSteps(o), op'[o].pc \notin Starts,
             Rest, inst'.state # "RUNNING" \/ inst'.state = inst.state
      PROVE  Goal
  BY <1>b, <1>c, <1>d
<1>1. ASSUME NEW o \in Ops, (\E kind \in Kinds : Request(o, kind)) \/ Lock(o) \/ Cancelled(o)
      PROVE  Goal
  <2>1. /\ \A p \in Ops \ {o} : op'[p] = op[p]
        /\ op'[o].pc \notin Starts /\ UNCHANGED inst /\ Rest
    BY <1>0, <1>1, Entering DEF Kinds
  <2>2. Launched' <=> Launched
    BY <2>1 DEF Launched
  <2> QED
    BY <1>a, <1>b, <2>1, <2>2
<1>2. ASSUME NEW o \in Ops,
             Heal(o) \/ Restart(o) \/ StartRefused(o) \/ DropStale(o) \/ Undo(o) \/ StopRefused(o)
             \/ StopBegin(o) \/ Dial(o) \/ HaltKill(o) \/ Settle(o) \/ Stopped(o)
             \/ KillBegin(o) \/ Killing(o) \/ Killed(o)
      PROVE  Goal
  <2>1. op'[o].pc \notin Starts
    <3>1. CASE DropStale(o) \/ StopBegin(o) \/ KillBegin(o)
      BY <1>0, <3>1 DEF DropStale, StopBegin, KillBegin, OpRec
    <3> QED
      BY <1>0, <1>2, <3>1, Moves DEF Heal, Restart, StartRefused, Undo, StopRefused, Dial,
         HaltKill,
         Settle, Stopped, Killing, Killed
  <2>2. Rest
    BY <1>2 DEF Heal, Restart, StartRefused, DropStale, Undo, StopRefused, StopBegin, Dial,
       HaltKill, Settle, Stopped, KillBegin, Killing, Killed, strategies, spawning
  <2>3. inst'.state # "RUNNING" \/ inst'.state = inst.state
    <3>1. CASE Undo(o)
      <4>1. op[o].pc = "undo" => op[o].old \in Ended
        BY <1>0 DEF StateInv
      <4>2. /\ op[o].pc \in {"undo", "fail"}
            /\ inst' = [inst EXCEPT !.state = IF op[o].pc = "undo" THEN op[o].old ELSE "CRASHED"]
        BY <3>1 DEF Undo
      <4> QED
        BY <1>0, <4>1, <4>2 DEF InstRec, Ended
    <3>2. CASE StartRefused(o) \/ DropStale(o) \/ StopBegin(o) \/ Settle(o) \/ Stopped(o)
               \/ KillBegin(o) \/ Killed(o)
      BY <1>0, <3>2 DEF StartRefused, DropStale, StopBegin, Settle, Stopped, KillBegin, Killed,
         InstRec
    <3>3. CASE Heal(o) \/ Restart(o) \/ StopRefused(o) \/ Dial(o) \/ HaltKill(o) \/ Killing(o)
      BY <3>3 DEF Heal, Restart, StopRefused, Dial, HaltKill, Killing
    <3> QED
      BY <1>2, <3>1, <3>2, <3>3
  <2> QED
    BY <1>2, <1>d, <2>1, <2>2, <2>3 DEF OpSteps, StartSteps, StopSteps, KillSteps
\* Closing a strategy does not change what it knows of its wrapper.
<1>e. ASSUME NEW s \in Ids, Close(s)
      PROVE  \A r \in Ids : strat'[r].cmd = strat[r].cmd /\ strat'[r].st = strat[r].st
  BY <1>0, <1>e DEF Close, StratRec
<1>3. ASSUME NEW o \in Ops, CloseStale(o) \/ CloseOld(o) \/ Closing(o) PROVE Goal
  <2>1. op'[o].pc \notin Starts
    BY <1>0, <1>3, Moves DEF CloseStale, CloseOld, Closing
  <2>2. UNCHANGED <<inst, host, spawned, reaper>>
    BY <1>3 DEF CloseStale, CloseOld, Closing, spawning
  <2>3. op[o].str \in Ids /\ Close(op[o].str)
    <3>1. op[o].pc \in Holding
      BY <1>3 DEF CloseStale, CloseOld, Closing, Holding, Detached
    <3> QED
      BY <1>0, <1>3, <3>1 DEF CloseStale, CloseOld, Closing, StrategyInv, Ids, NoId
  <2>4. LastInv' /\ CrashIsWatched'
    BY <1>0, <1>a, <1>e, <2>2, <2>3 DEF LastInv, CrashIsWatched, Ids, NoId
  <2> QED
    BY <1>3, <1>c, <2>1, <2>4 DEF OpSteps, StartSteps, StopSteps, KillSteps
<1>4. ASSUME NEW o \in Ops, Halt(o) PROVE Goal
  <2>1. op'[o].pc = "dial" /\ UNCHANGED <<inst, host, spawned, reaper>>
    BY <1>0, <1>4, Moves DEF Halt, spawning
  <2>2. \A r \in Ids : strat'[r].cmd = strat[r].cmd
    BY <1>0, <1>4 DEF Halt, StratRec
  <2>3. LastInv' /\ CrashIsWatched'
    BY <1>0, <1>a, <2>1, <2>2 DEF LastInv, CrashIsWatched, Ids, NoId
  <2> QED
    BY <1>4, <1>c, <2>1, <2>3 DEF OpSteps, StopSteps
<1>5. ASSUME NEW o \in Ops, Build(o) PROVE Goal
  <2> DEFINE s == IF inst.strategy = 0 THEN built + 1 ELSE inst.strategy
  <2>1. /\ inst' = [inst EXCEPT !.state = "STARTING", !.strategy = s, !.resetting = FALSE]
        /\ op' = [op EXCEPT ![o].pc = "wait", ![o].old = inst.state, ![o].str = s]
        /\ strat' = IF s > built THEN [strat EXCEPT ![s].config = config] ELSE strat
        /\ s \in Ids /\ UNCHANGED <<host, spawned, reaper>>
    BY <1>5 DEF Build, spawning
  <2> HIDE DEF s
  <2>2. op'[o].pc = "wait" /\ op'[o].str = s
    BY <1>0, <2>1 DEF OpRec
  <2>3. inst'.state = "STARTING" /\ inst'.strategy = s /\ s # 0
    BY <1>0, <2>1 DEF InstRec, Ids
  <2>4. \A r \in Ids : strat'[r].cmd = strat[r].cmd
    BY <1>0, <2>1 DEF StratRec
  <2>5. LastInv' /\ CrashIsWatched'
    BY <1>0, <1>a, <2>1, <2>3, <2>4 DEF LastInv, CrashIsWatched, Ids, NoId
  <2> QED
    BY <1>5, <1>c, <2>2, <2>3, <2>5 DEF OpSteps, StartSteps
<1>6. ASSUME NEW o \in Ops, WaitPrior(o) PROVE Goal
  <2>1. /\ op[o].pc = "wait" /\ op'[o].pc \in {"spawn", "fail", "undo"}
        /\ op'[o].str = op[o].str /\ UNCHANGED <<inst, host, spawned, reaper>>
    BY <1>0, <1>6, Moves DEF WaitPrior, spawning
  <2>2. \A r \in Ids : strat'[r].cmd = strat[r].cmd
    BY <1>0, <1>6 DEF WaitPrior, StratRec
  <2>3. LastInv' /\ CrashIsWatched'
    BY <1>0, <1>a, <2>1, <2>2 DEF LastInv, CrashIsWatched, Ids, NoId
  <2>4. Facts(o)'
    BY <1>a, <2>1
  <2> QED
    BY <1>6, <1>c, <2>3, <2>4 DEF OpSteps, StartSteps
<1>7. ASSUME NEW o \in Ops, Spawn(o) PROVE Goal
  <2> DEFINE s == op[o].str
             w == spawned + 1
  <2>1. /\ op[o].pc = "spawn" /\ op'[o].pc \in {"undo", "fail", "cas"}
        /\ op'[o].str = op[o].str /\ UNCHANGED inst
    BY <1>0, <1>7, Moves DEF Spawn
  <2>2. s # 0 /\ inst.state \in Ended \cup {"STARTING"}
    BY <1>a, <2>1
  <2>3. CrashIsWatched'
    BY <2>1, <2>2 DEF CrashIsWatched, Ended
  <2>4. CASE UNCHANGED <<host, spawned, reaper>>
    <3>1. op'[o].pc # "cas" /\ \A r \in Ids : strat'[r].cmd = strat[r].cmd
      BY <1>0, <1>7, <2>4, Moves DEF Spawn, StratRec, NoId, spawning
    <3>2. LastInv'
      BY <1>0, <1>a, <2>4, <3>1 DEF LastInv, Ids, NoId
    <3> QED
      BY <1>7, <1>c, <2>1, <2>3, <3>1, <3>2 DEF OpSteps, StartSteps
  <2>5. CASE ~UNCHANGED <<host, spawned, reaper>>
    <3>1. /\ w \in Ids
          /\ strat' = [strat EXCEPT ![s].st = "RUNNING", ![s].cmd = w]
          /\ spawned' = w /\ host' = [host EXCEPT ![w] = s]
          /\ reaper' = [reaper EXCEPT ![w] = "waiting"]
      BY <1>7, <2>5 DEF Spawn, spawning
    <3>2. s \in NoId
      BY <1>0 DEF OpRec
    <3>3. host'[w] = s /\ reaper'[w] = "waiting" /\ w > 0
      BY <1>0, <3>1 DEF Ids, NoId
    <3>4. strat'[s].cmd = w /\ strat'[s].st = "RUNNING"
      BY <1>0, <2>2, <3>1, <3>2 DEF StratRec, Ids, NoId
    <3>5. LastInv'
      BY <2>2, <3>1, <3>3, <3>4 DEF LastInv
    <3>6. inst.state = "STARTING" => inst.strategy = s /\ s # 0
      BY <1>a, <2>1
    <3>7. inst.state = "STARTING" => Launched'
      BY <2>1, <3>1, <3>3, <3>4, <3>6 DEF Launched, Unreported
    <3> QED
      BY <1>7, <1>c, <2>1, <2>2, <2>3, <3>5, <3>6, <3>7 DEF OpSteps, StartSteps
  <2> QED
    BY <2>4, <2>5
<1>8. ASSUME NEW o \in Ops, Cas(o) PROVE Goal
  <2>1. op[o].pc = "cas" /\ op'[o].pc = "idle" /\ Rest
    BY <1>0, <1>8, Moves DEF Cas, strategies, spawning
  <2>2. inst'.state = IF inst.state = "STARTING" THEN "RUNNING" ELSE inst.state
    BY <1>0, <1>8 DEF Cas, InstRec
  <2>3. CrashIsWatched'
    BY <1>a, <2>1, <2>2 DEF CrashIsWatched, Launched, Unreported
  <2>4. LastInv'
    BY <1>a, <2>1 DEF LastInv
  <2> QED
    BY <1>8, <1>c, <2>1, <2>3, <2>4 DEF OpSteps, StartSteps
<1>9. ASSUME NEW e \in Editors, EditWrite(e) \/ EditFinish(e) PROVE Goal
  <2>1. UNCHANGED op /\ Rest
    BY <1>9 DEF EditWrite, EditFinish, record, strategies, spawning
  <2>2. inst'.state = inst.state /\ (inst.state = "STARTING" => inst'.strategy = inst.strategy)
    BY <1>0, <1>9 DEF EditWrite, EditFinish, InstRec
  <2>3. inst.state = "STARTING" => (Launched' <=> Launched)
    BY <2>1, <2>2 DEF Launched
  <2> QED
    BY <1>a, <1>b, <2>1, <2>2, <2>3
<1>10. ASSUME NEW e \in Editors, EditClose(e) PROVE Goal
  <2>1. UNCHANGED <<op, inst, host, spawned, reaper>>
    BY <1>10 DEF EditClose, record, spawning
  <2>2. edit[e].str \in Ids /\ Close(edit[e].str)
    BY <1>0, <1>10 DEF EditClose, StrategyInv, Ids, NoId
  <2>3. LastInv' /\ CrashIsWatched'
    BY <1>0, <1>a, <1>e, <2>1, <2>2 DEF LastInv, CrashIsWatched, Ids, NoId
  <2>4. inst.strategy # 0 /\ Launched => Launched'
    BY <1>0, <1>e, <2>1, <2>2 DEF Launched, InstRec, Ids, NoId
  <2> QED
    BY <1>a, <2>1, <2>3, <2>4
<1>11. ASSUME NEW v \in Ids, WrapperSteps(v) \/ OrphanEnds(v) PROVE Goal
  <2>1. UNCHANGED <<op, inst>> /\ Rest
    BY <1>11 DEF WrapperSteps, WrapperUp, LaunchJava, RecordJava, WrapperEnds, OrphanEnds,
       record, strategies, spawning
  <2>2. Launched' <=> Launched
    BY <2>1 DEF Launched
  <2> QED
    BY <1>a, <1>b, <2>1, <2>2
<1>12. ASSUME NEW v \in Ids, Reap(v) PROVE Goal
  <2>1. /\ UNCHANGED <<op, inst, strat, host, spawned>>
        /\ reaper[v] = "waiting" /\ reaper' = [reaper EXCEPT ![v] = "reaped"]
    BY <1>12 DEF Reap, ReaperGoes, spawning
  <2>2. (Launched => Launched') /\ LastInv' /\ CrashIsWatched'
    BY <1>0, <1>a, <2>1 DEF Launched, LastInv, CrashIsWatched, Unreported, Ids, NoId
  <2> QED
    BY <1>a, <2>1, <2>2
\* The reaper of the last wrapper never lets go, and while a start is STARTING its strategy
\* is neither closed nor stopped, so that the verdict is a crash.
<1>13. ASSUME NEW v \in Ids, Decide(v) PROVE Goal
  <2> DEFINE s == host[v]
             verdict == IF strat[s].closed \/ strat[s].st \in {"STOPPING", "STOPPED"}
                        THEN "STOPPED" ELSE "CRASHED"
  <2>1. UNCHANGED <<op, inst, host, spawned>> /\ reaper[v] = "reaped"
    BY <1>13 DEF Decide, ReaperGoes, spawning
  <2>2. CASE v = spawned
    <3>1. s \in Ids /\ strat[s].cmd = v
      BY <1>0, <1>a, <2>2 DEF LastInv, Ids, NoId
    <3>2. reaper' = [reaper EXCEPT ![v] = verdict] /\ strat' = [strat EXCEPT ![s].st = verdict]
      BY <1>13, <3>1 DEF Decide, ReaperGoes
    <3>3. reaper'[v] = verdict /\ strat'[s].st = verdict /\ strat'[s].cmd = v
      BY <1>0, <3>1, <3>2 DEF StratRec
    <3>4. LastInv' /\ CrashIsWatched'
      BY <1>a, <2>1, <2>2, <3>1, <3>3 DEF LastInv, CrashIsWatched
    <3>5. inst.strategy # 0 /\ Launched => Launched'
      <4>1. inst.strategy # 0 => ~strat[inst.strategy].closed
        BY <1>0 DEF StrategyInv
      <4> QED
        BY <2>1, <2>2, <3>3, <4>1 DEF Launched, Unreported
    <3> QED
      BY <1>a, <2>1, <3>4, <3>5
  <2>3. CASE v # spawned
    <3>1. spawned \in Ids => reaper'[spawned] = reaper[spawned]
      BY <1>0, <1>13, <2>3 DEF Decide, ReaperGoes
    <3>2. \A r \in Ids : strat'[r].cmd = strat[r].cmd
      BY <1>0, <1>13 DEF Decide, ReaperGoes, StratRec
    <3>3. \A r \in Ids : strat[r].cmd # v => strat'[r].st = strat[r].st
      BY <1>0, <1>13 DEF Decide, ReaperGoes, StratRec
    <3>4. LastInv' /\ CrashIsWatched'
      BY <1>0, <1>a, <2>1, <3>1, <3>2 DEF LastInv, CrashIsWatched, Ids, NoId
    <3>5. inst.strategy # 0 /\ Launched => Launched'
      <4> SUFFICES ASSUME inst.strategy # 0, Launched PROVE Launched'
        OBVIOUS
      <4>1. inst.strategy \in Ids /\ spawned \in Ids /\ strat[inst.strategy].cmd = spawned
        BY <1>0, <1>a DEF Launched, LastInv, InstRec, Ids, NoId
      <4> QED
        BY <2>1, <2>3, <3>1, <3>3, <4>1 DEF Launched
    <3> QED
      BY <1>a, <2>1, <3>4, <3>5
  <2> QED
    BY <2>2, <2>3
<1>14. ASSUME NEW v \in Ids, Mark(v) PROVE Goal
  <2>1. PICK st \in Ended :
          /\ reaper[v] = st /\ reaper' = [reaper EXCEPT ![v] = "done"]
          /\ inst' = IF st = "STOPPED" /\ inst.state = "STARTING"
                     THEN inst ELSE [inst EXCEPT !.state = st]
    BY <1>14 DEF Mark, ReaperGoes, Ended
  <2>2. UNCHANGED <<op, strat, host, spawned>>
    BY <1>14 DEF Mark, ReaperGoes, spawning
  <2>3. /\ inst'.strategy = inst.strategy
        /\ inst'.state = IF st = "STOPPED" /\ inst.state = "STARTING" THEN inst.state ELSE st
    BY <1>0, <2>1 DEF InstRec
  <2>4. LastInv' /\ CrashIsWatched'
    BY <1>a, <2>2, <2>3 DEF LastInv, CrashIsWatched, Ended
  <2>5. Launched /\ inst'.state = "STARTING" => Launched'
    <3>1. inst'.state = "STARTING" => st = "STOPPED"
      BY <2>3 DEF Ended
    <3>2. st = "STOPPED" /\ reaper[spawned] \in Unreported => v # spawned
      BY <2>1 DEF Unreported
    <3>3. v # spawned /\ spawned > 0 => reaper'[spawned] = reaper[spawned]
      BY <1>0, <2>1 DEF Ids, NoId
    <3> QED
      BY <2>2, <2>3, <3>1, <3>2, <3>3 DEF Launched
  <2>6. inst'.state = "STARTING" => inst.state = "STARTING"
    BY <2>3 DEF Ended
  <2>7. \A o \in Ops : op[o].pc \in {"wait", "spawn"} => inst'.state \in Ended \cup {"STARTING"}
    BY <1>a, <2>3 DEF Ended
  <2> QED
    BY <1>a, <2>2, <2>3, <2>4, <2>5, <2>6, <2>7
<1>15. ASSUME UNCHANGED vars PROVE Goal
  <2>1. UNCHANGED <<op, inst>> /\ Rest
    BY <1>15 DEF vars
  <2>2. Launched' <=> Launched
    BY <2>1 DEF Launched
  <2> QED
    BY <1>a, <1>b, <2>1, <2>2
<1> HIDE DEF Goal
<1> QED
  <2>1. ASSUME NEW o \in Ops, OpSteps(o) PROVE Goal
    BY <2>1, <1>2, <1>3, <1>4, <1>5, <1>6, <1>7, <1>8
       DEF OpSteps, StartSteps, StopSteps, KillSteps
  <2>2. ASSUME NEW v \in Ids, WrapperSteps(v) \/ OrphanEnds(v) \/ ReaperSteps(v)
        PROVE  Goal
    BY <2>2, <1>11, <1>12, <1>13, <1>14 DEF ReaperSteps
  <2> QED
    BY <1>1, <1>9, <1>10, <1>15, <2>1, <2>2 DEF Next, EditSteps

\* However late obituaries come, no crash goes unnoticed for want of somebody to report it.
THEOREM CrashIsWatchedHolds == Spec => []CrashIsWatched
<1>1. Init => WatchInv
  BY DEF Init, WatchInv, LastInv, StartingInv, CrashIsWatched, IdleOp
<1>2. WatchInv => CrashIsWatched
  BY DEF WatchInv
<1> QED
  BY <1>1, <1>2, LifecycleInductive, WatchStep, PTL DEF Spec

-----------------------------------------------------------------------------
(* What refuses a start goes away again *)

Starters == {"wait", "spawn", "undo", "fail", "cas"}
Resetters == {"closeStale", "reset"}
Stoppers == {"halt", "dial", "haltKill", "settle", "closeOld", "stopped"}

\* Who makes the record STARTING or STOPPING, or resets it, and what it takes to stop
\* being the one who did.
LEMMA CauseSteps ==
    ASSUME IInv, NEW o \in Ops, OpSteps(o)
    PROVE  /\ inst'.state = "STARTING" => inst.state = "STARTING" \/ op'[o].pc \in Starters
           /\ inst'.resetting => inst.resetting \/ op'[o].pc \in Resetters
           /\ inst'.state = "STOPPING" => inst.state = "STOPPING" \/ op'[o].pc \in Stoppers
           /\ op[o].pc \in Starters /\ inst'.state = "STARTING" => op'[o].pc \in Starters
           /\ op[o].pc \in Resetters /\ inst'.resetting => op'[o].pc \in Resetters
           /\ op[o].pc \in Stoppers /\ inst'.state = "STOPPING" =>
                  \/ op'[o].pc \in Stoppers
                  \/ op[o].pc = "haltKill" /\ reaper[strat[op[o].str].cmd] # "waiting"
           /\ UNCHANGED edit
<1> DEFINE InstRec == [state : States, strategy : NoId, stale : BOOLEAN, resetting : BOOLEAN]
<1>0. op \in [Ops -> OpRec] /\ inst \in InstRec /\ TypeOK
  BY DEF IInv, TypeOK, OpRec
<1> USE DEF Starters, Resetters, Stoppers
<1>1. CASE Heal(o) \/ Restart(o)
  BY <1>0, <1>1, Moves DEF Heal, Restart
<1>2. CASE StartRefused(o) \/ CloseStale(o) \/ WaitPrior(o) \/ Spawn(o) \/ Cas(o)
  BY <1>0, <1>2, Moves DEF StartRefused, CloseStale, WaitPrior, Spawn, Cas
<1>3. CASE DropStale(o) \/ Build(o)
  <2>1. op'[o].pc \in {"closeStale", "wait"} /\ UNCHANGED edit
    BY <1>0, <1>3 DEF DropStale, Build, OpRec
  <2>2. CASE DropStale(o)
    <3>1. op'[o].pc = "closeStale" /\ op[o].pc = "start" /\ inst'.state = inst.state
      BY <1>0, <2>2 DEF DropStale, OpRec
    <3>2. inst.state \in Ended
      BY <2>2 DEF DropStale, Startable, Ended
    <3> QED
      BY <2>1, <3>1, <3>2 DEF Ended
  <2>3. CASE Build(o)
    <3>1. op'[o].pc = "wait" /\ op[o].pc \in {"start", "reset"}
      BY <1>0, <2>3 DEF Build, OpRec
    <3>2. inst' = [inst EXCEPT !.state = "STARTING", !.resetting = FALSE,
                               !.strategy = IF @ = 0 THEN built + 1 ELSE @]
      BY <1>0, <2>3 DEF Build
    <3>3. inst'.state = "STARTING" /\ ~inst'.resetting
      BY <1>0, <3>2
    <3> QED
      BY <2>1, <3>1, <3>3
  <2> QED
    BY <1>3, <2>2, <2>3
<1>4. CASE Undo(o)
  <2>1. op[o].pc \in {"undo", "fail"} /\ op'[o].pc = "idle" /\ UNCHANGED edit
    BY <1>0, <1>4, Moves DEF Undo
  <2>2. inst'.state \in Ended /\ inst'.resetting = inst.resetting
    <3>1. op[o].pc = "undo" => op[o].old \in Ended
      BY DEF IInv, StateInv
    <3> QED
      BY <1>0, <1>4, <2>1, <3>1 DEF Undo, Ended
  <2> QED
    BY <2>1, <2>2 DEF Ended
<1>5. CASE StopRefused(o) \/ Halt(o) \/ Dial(o) \/ HaltKill(o) \/ Settle(o) \/ CloseOld(o)
           \/ Stopped(o)
  BY <1>0, <1>5, Moves DEF StopRefused, Halt, Dial, HaltKill, Settle, CloseOld, Stopped
<1>6. CASE StopBegin(o) \/ KillBegin(o)
  BY <1>0, <1>6 DEF StopBegin, KillBegin, OpRec
<1>7. CASE Killing(o) \/ Closing(o) \/ Killed(o)
  BY <1>0, <1>7, Moves DEF Killing, Closing, Killed
<1> QED
  BY <1>1, <1>2, <1>3, <1>4, <1>5, <1>6, <1>7 DEF OpSteps, StartSteps, StopSteps, KillSteps

\* Everything else: the state is made an end or stays, an edit resets and finishes.
LEMMA CauseKept ==
    ASSUME IInv, [Next]_vars, ~\E o \in Ops : OpSteps(o)
    PROVE  /\ inst'.state = inst.state \/ inst'.state \in Ended
           /\ \A p \in Ops, pcs \in {Starters, Resetters, Stoppers} :
                  op[p].pc \in pcs => op'[p].pc \in pcs
           /\ inst'.resetting => \/ inst.resetting /\ UNCHANGED edit
                                 \/ \E e \in Editors : edit'[e].pc # "idle"
<1> DEFINE InstRec == [state : States, strategy : NoId, stale : BOOLEAN, resetting : BOOLEAN]
<1>0. /\ op \in [Ops -> OpRec] /\ inst \in InstRec /\ TypeOK /\ FreshInv
      /\ edit \in [Editors -> [pc : {"idle", "close", "finish"}, str : NoId]]
  BY DEF IInv, TypeOK, OpRec
<1>1. ASSUME NEW o \in Ops, (\E kind \in Kinds : Request(o, kind)) \/ Lock(o) \/ Cancelled(o)
      PROVE  /\ UNCHANGED <<inst, edit>>
             /\ \A p \in Ops, pcs \in {Starters, Resetters, Stoppers} :
                    op[p].pc \in pcs => op'[p].pc \in pcs
  BY <1>0, <1>1, Entering DEF Starters, Resetters, Stoppers, Kinds
<1>2. ASSUME NEW e \in Editors, EditWrite(e) \/ EditClose(e) \/ EditFinish(e)
      PROVE  /\ UNCHANGED op /\ inst'.state = inst.state
             /\ inst'.resetting => \/ inst.resetting /\ UNCHANGED edit
                                   \/ edit'[e].pc # "idle"
  <2>1. CASE EditWrite(e)
    <3>1. CASE UNCHANGED edit /\ inst'.resetting = inst.resetting /\ inst'.state = inst.state
      BY <2>1, <3>1 DEF EditWrite
    <3>2. CASE ~(UNCHANGED edit /\ inst'.resetting = inst.resetting /\ inst'.state = inst.state)
      <4>1. /\ edit' = [edit EXCEPT ![e] = [pc |-> "close", str |-> inst.strategy]]
            /\ inst' = [inst EXCEPT !.strategy = 0, !.stale = FALSE, !.resetting = TRUE]
        BY <1>0, <2>1, <3>2 DEF EditWrite
      <4> QED
        BY <1>0, <2>1, <4>1 DEF EditWrite
    <3> QED
      BY <3>1, <3>2
  <2>2. CASE EditClose(e)
    BY <1>0, <2>2 DEF EditClose, record
  <2>3. CASE EditFinish(e)
    BY <1>0, <2>3 DEF EditFinish
  <2> QED
    BY <1>2, <2>1, <2>2, <2>3
<1>3. ASSUME NEW v \in Ids, WrapperSteps(v) \/ OrphanEnds(v) \/ Reap(v) \/ Decide(v)
      PROVE  UNCHANGED <<op, inst, edit>>
  BY <1>3 DEF WrapperSteps, WrapperUp, LaunchJava, RecordJava, WrapperEnds, OrphanEnds, Reap,
     Decide, ReaperGoes, record
<1>4. ASSUME NEW v \in Ids, Mark(v)
      PROVE  /\ UNCHANGED <<op, edit>> /\ inst'.resetting = inst.resetting
             /\ inst'.state = inst.state \/ inst'.state \in Ended
  BY <1>0, <1>4 DEF Mark, ReaperGoes, Ended
<1>5. CASE UNCHANGED vars
  BY <1>5 DEF vars
<1> QED
  BY <1>1, <1>2, <1>3, <1>4, <1>5 DEF Next, EditSteps, ReaperSteps

\* STARTING and resetting end with the operation or the edit that set them.
THEOREM RefusalHasCauseHolds == Spec => []RefusalHasCause
<1>1. Init => RefusalHasCause
  BY DEF Init, RefusalHasCause
<1>2. IInv /\ RefusalHasCause /\ [Next]_vars => RefusalHasCause'
  <2> SUFFICES ASSUME IInv, RefusalHasCause, [Next]_vars PROVE RefusalHasCause'
    OBVIOUS
  <2>0. TypeOK /\ GateInv
    BY DEF IInv
  <2>1. ASSUME NEW o \in Ops, OpSteps(o) PROVE RefusalHasCause'
    <3>1. \A p \in Ops \ {o} : op'[p] = op[p]
      BY <2>0, <2>1, OthersOut
    <3> QED
      BY <2>1, <3>1, CauseSteps DEF RefusalHasCause, Starters, Resetters
  <2>2. CASE ~\E o \in Ops : OpSteps(o)
    BY <2>2, CauseKept DEF RefusalHasCause, Starters, Resetters, Ended
  <2> QED
    BY <2>1, <2>2
<1> QED
  BY <1>1, <1>2, LifecycleInductive, PTL DEF Spec

\* STOPPING ends with the stop that set it, unless that fails to kill a reaped wrapper.
THEOREM OnlyFailedStopHolds == Spec => OnlyFailedStopLeavesStopping
<1> DEFINE Failed == \E o \in Ops : op[o].pc = "haltKill" /\ reaper[strat[op[o].str].cmd] # "waiting"
<1>1. IInv /\ [Next]_vars => [StoppingHasCause /\ ~StoppingHasCause' => Failed]_vars
  <2> SUFFICES ASSUME IInv, [Next]_vars, StoppingHasCause, ~StoppingHasCause' PROVE Failed
    OBVIOUS
  <2>0. TypeOK /\ GateInv
    BY DEF IInv
  <2>1. ASSUME NEW o \in Ops, OpSteps(o) PROVE Failed
    <3>1. \A p \in Ops \ {o} : op'[p] = op[p]
      BY <2>0, <2>1, OthersOut
    <3> QED
      BY <2>1, <3>1, CauseSteps DEF StoppingHasCause, Stoppers
  <2>2. CASE ~\E o \in Ops : OpSteps(o)
    BY <2>2, CauseKept DEF StoppingHasCause, Stoppers, Ended
  <2> QED
    BY <2>1, <2>2
<1> QED
  BY <1>1, LifecycleInductive, PTL DEF Spec, OnlyFailedStopLeavesStopping
=============================================================================
