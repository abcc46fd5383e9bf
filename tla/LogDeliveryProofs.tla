------------------------- MODULE LogDeliveryProofs -------------------------
(***************************************************************************)
(* What holds of one log source for every length of the file, every size   *)
(* of batches, backlog and drains, and every number of faults.  The        *)
(* invariant IInv says how the positions of the ledger are ordered, what   *)
(* has become of the lines of the batch under way, and that nothing the    *)
(* WAL forgets, and nothing a crash forgets, is the last trace of a line.  *)
(* While an outage of VictoriaLogs is the only trouble, Intact says that   *)
(* nothing is lost at all but lines that the WAL never had.                *)
(***************************************************************************)
EXTENDS LogDelivery, FiniteSetTheorems, WellFoundedInduction, TLAPS

\* TypeOK, variable by variable.
OpType == [pc : PCs, batch : SUBSET Lines, drain : BOOLEAN, write : SUBSET Lines,
           expected : SUBSET Lines, replace : BOOLEAN]
DiskType == [wal : SUBSET Lines, durable : Positions, reclaim : Positions, done : SUBSET Lines,
             gaps : SUBSET (Lines \X Reasons), paused : BOOLEAN, through : Positions,
             pending : BOOLEAN, verified : SUBSET Lines]
FaultType == [count : 0..MaxFaults, outage : BOOLEAN]
Losses == {"refused", "leapt", "healed", "resolved", "uncovered"}
TypeInv ==
    /\ tail \in [cursor : Positions, open : BOOLEAN] /\ op \in OpType /\ disk \in DiskType
    /\ wal \subseteq Lines /\ done \subseteq Lines /\ saved \subseteq Lines
    /\ verified \subseteq Lines /\ stored \subseteq Lines /\ visible \subseteq Lines
    /\ durable \in Positions /\ reclaim \in Positions
    /\ delivery \in Positions /\ through \in Positions
    /\ gaps \subseteq Lines \X Reasons /\ lost \subseteq Lines \X Losses
    /\ paused \in BOOLEAN /\ pending \in BOOLEAN /\ faults \in FaultType

\* The last line that the tailer has passed and closed.
Closed == tail.cursor - (IF tail.open THEN 1 ELSE 0)

\* The batch is not in the WAL yet, or it has been put there.
Fresh == op.pc \in {"admit", "append"}
Held == op.pc \in {"persist", "plan", "publish", "store", "record", "proof"}

Kept == stored \cup LinesOf(lost)

\* The positions are ordered, and only the batch can be ahead of the durable one.
OrderInv ==
    /\ reclaim <= durable /\ delivery <= durable /\ durable <= Closed
    /\ \A i \in wal : reclaim < i /\ i <= durable
    /\ \A i \in done : i <= durable
    /\ \A i \in op.batch : i <= Closed /\ (Fresh => durable < i) /\ (Held => i <= durable)

\* There is a batch exactly while one is under way, no entry of the WAL lies between its
\* lines, and its lines are in the WAL or stored until the result is recorded.
BatchInv ==
    /\ op.pc = "idle" <=> op.batch = {}
    /\ \A i \in wal, j, k \in op.batch : j <= i /\ i <= k => i \in op.batch
    /\ Held => op.batch \subseteq wal \cup Kept
    /\ op.pc \in {"record", "proof"} => op.batch \subseteq Kept

\* A line with a result that the WAL still has may be forgotten, and the delivery position
\* covers only such lines.
DoneInv ==
    /\ \A i \in done \cap wal : i \in Kept
    /\ \A i \in Lines : reclaim < i /\ i <= delivery => i \in done

\* A generation that replaces the others has what the store has.
WriteInv == op.pc = "publish" /\ op.replace => stored \subseteq op.write

\* The order, the results and LossOnlyKnown hold of what a crash would go back to, too.
DiskInv ==
    /\ disk.reclaim <= disk.durable
    /\ \A i \in disk.wal : disk.reclaim < i /\ i <= disk.durable
    /\ \A i \in disk.done : i <= disk.durable
    /\ \A i \in disk.done \cap disk.wal : i \in Kept
    /\ \A i \in 1..disk.durable : i \in disk.wal \cup Kept \cup LinesOf(disk.gaps)

IInv == TypeInv /\ OrderInv /\ BatchInv /\ DoneInv /\ WriteInv /\ DiskInv /\ LossOnlyKnown

-----------------------------------------------------------------------------
\* Least and greatest elements

Below == {p \in Nat \X Nat : p[1] < p[2]}

\* A set of natural numbers that is not empty has a least element.
LEMMA Least ==
    ASSUME NEW S, S \subseteq Nat, S # {}
    PROVE  \E m \in S : \A y \in S : m <= y
<1>1. IsWellFoundedOn(Below, Nat)
  BY NatLessThanWellFounded, Zenon DEF OpToRel, Below
<1>2. PICK m \in S : \A y \in S : ~ (<<y, m>> \in Below)
  BY <1>1, WFMin, Zenon
<1>3. ASSUME NEW y \in S PROVE m <= y
  <2>1. m \in Nat /\ y \in Nat
    OBVIOUS
  <2>2. y < m => <<y, m>> \in Below
    BY <2>1 DEF Below
  <2> QED BY <1>2, <2>1, <2>2
<1> QED BY <1>3

LEMMA MinIn ==
    ASSUME NEW S, S \subseteq Nat, S # {}
    PROVE  Min(S) \in S /\ \A y \in S : Min(S) <= y
<1>1. \E m \in S : \A y \in S : m <= y
  BY Least
<1> QED BY <1>1, Zenon DEF Min

\* A set of numbers up to N that is not empty has a greatest element.
LEMMA MaxIn ==
    ASSUME NEW N \in Nat, NEW S, S \subseteq 0..N, S # {}
    PROVE  Max(S) \in S /\ \A y \in S : Max(S) >= y
<1> DEFINE T == {n \in Nat : \E x \in S : n + x = N}
<1>1. ASSUME NEW x \in S PROVE x \in Nat /\ N - x \in T
  <2>1. x \in 0..N
    OBVIOUS
  <2>2. N - x \in Nat /\ (N - x) + x = N
    BY <2>1
  <2> QED BY <2>1, <2>2
<1>2. T \subseteq Nat /\ T # {}
  BY <1>1
<1>3. PICK m \in T : \A y \in T : m <= y
  BY <1>2, Least
<1>4. PICK x \in S : m + x = N
  BY <1>3
<1>5. ASSUME NEW y \in S PROVE x >= y
  <2>1. m <= N - y
    BY <1>1, <1>3
  <2>2. m \in Nat /\ x \in Nat /\ y \in Nat
    BY <1>1, <1>2
  <2> HIDE DEF T
  <2> QED BY <1>4, <2>1, <2>2
<1>6. \E z \in S : \A y \in S : z >= y
  BY <1>5
<1> QED BY <1>6, Zenon DEF Max

LEMMA Bounds == MaxLine \in Nat /\ Lines = 1..MaxLine /\ Positions = 0..MaxLine
BY BoundAssumption DEF Lines, Positions

LEMMA MaxOfPositions ==
    ASSUME NEW S, S \subseteq Positions, S # {}
    PROVE  Max(S) \in S /\ \A y \in S : Max(S) >= y
BY Bounds, MaxIn

\* The span of a batch are the lines that it surrounds.
LEMMA SpanLines ==
    ASSUME NEW S, S \subseteq Lines
    PROVE  /\ S \subseteq Span(S) /\ Span(S) \subseteq Lines
           /\ \A i \in Span(S) : \E j, k \in S : j <= i /\ i <= k
<1>1. CASE S = {}
  BY <1>1 DEF Span
<1>2. CASE S # {}
  <2>0. S \subseteq Nat /\ S \subseteq Positions
    BY Bounds
  <2>1. Min(S) \in S /\ \A y \in S : Min(S) <= y
    BY <1>2, <2>0, MinIn, Zenon
  <2>2. Max(S) \in S /\ \A y \in S : Max(S) >= y
    BY <1>2, <2>0, MaxOfPositions, Zenon
  <2>3. Span(S) = Min(S)..Max(S)
    BY <1>2 DEF Span
  <2>4. \E a, b \in S : Span(S) = a..b /\ \A y \in S : a <= y /\ y <= b
    BY <2>1, <2>2, <2>3
  <2> QED BY <2>0, <2>4, Bounds
<1> QED BY <1>1, <1>2

\* contiguousDeliveryEnd stays in the file and passes lines with a result only.
LEMMA ContiguousLines ==
    ASSUME NEW results, NEW floor \in Positions
    PROVE  /\ Contiguous(results, floor) \in floor..MaxLine
           /\ \A i \in Lines : floor < i /\ i <= Contiguous(results, floor) => i \in results
<1> DEFINE S == {n \in floor..MaxLine : (floor + 1)..n \subseteq results}
<1>1. floor \in S /\ S \subseteq Positions
  BY Bounds
<1>2. Max(S) \in S
  BY <1>1, MaxOfPositions
<1>3. Contiguous(results, floor) = Max(S)
  BY DEF Contiguous
<1> QED BY <1>2, <1>3, Bounds

-----------------------------------------------------------------------------
\* Lines of gaps and of losses

LEMMA LinesOfTag == ASSUME NEW S, NEW r PROVE LinesOf(Tag(S, r)) = S
<1>1. ASSUME NEW i \in S PROVE i \in LinesOf(Tag(S, r))
  <2>1. <<i, r>> \in Tag(S, r) /\ i = <<i, r>>[1]
    BY DEF Tag
  <2> QED BY <2>1, Zenon DEF LinesOf
<1>2. ASSUME NEW i \in LinesOf(Tag(S, r)) PROVE i \in S
  BY <1>2 DEF LinesOf, Tag
<1> QED BY <1>1, <1>2

LEMMA LinesOfUnion == ASSUME NEW A, NEW B PROVE LinesOf(A \cup B) = LinesOf(A) \cup LinesOf(B)
BY DEF LinesOf

\* Resolving lines takes no other line out of the gaps.
LEMMA Resolved == ASSUME NEW S PROVE LinesOf(gaps) \subseteq LinesOf(Resolve(S)) \cup S
BY DEF LinesOf, Resolve, Tag

\* What a reclaim up to r leaves: a line that it takes out of the gaps is elsewhere.
LEMMA Settled ==
    ASSUME TypeInv, NEW r, NEW given, Settle(r, given)
    PROVE  /\ reclaim' = r /\ wal' = {i \in wal : i > r}
           /\ gaps' \subseteq gaps /\ paused' \in BOOLEAN
           /\ lost \cup given \subseteq lost'
           /\ lost' \subseteq lost \cup given \cup (Lines \X {"healed"})
           /\ LinesOf(gaps) \subseteq LinesOf(gaps') \cup LinesOf(lost') \cup wal' \cup op.batch \cup stored
<1> DEFINE left == {i \in wal : i > r}
           low == paused /\ Cardinality(left) <= WalMax \div 2
           kept == IF low THEN {x \in gaps : x[2] = "missing"} ELSE gaps
           healed == LinesOf(gaps \ kept) \ (left \cup op.batch \cup stored)
<1>1. /\ reclaim' = r /\ wal' = left /\ gaps' = kept
      /\ paused' = (paused /\ ~(low /\ kept = {}))
      /\ lost' = lost \cup given \cup Tag(healed, "healed")
  BY DEF Settle
<1>2. kept \subseteq gaps
  OBVIOUS
<1>3. healed \subseteq Lines
  <2>1. gaps \subseteq Lines \X Reasons
    BY DEF TypeInv
  <2> QED BY <1>2, <2>1 DEF LinesOf
<1>4. LinesOf(gaps) = LinesOf(kept) \cup LinesOf(gaps \ kept)
  BY <1>2, LinesOfUnion
<1> HIDE DEF kept, low
<1>5. LinesOf(lost') = LinesOf(lost \cup given) \cup healed
  <2>1. LinesOf(lost') = LinesOf(lost \cup given) \cup LinesOf(Tag(healed, "healed"))
    BY <1>1, LinesOfUnion
  <2> QED BY <2>1, LinesOfTag
<1>6. paused' \in BOOLEAN
  BY <1>1
<1> QED BY <1>1, <1>2, <1>3, <1>4, <1>5, <1>6 DEF Tag

\* A fault is counted, and ends an outage unless it is one that an outage causes.
LEMMA FaultCounted ==
    ASSUME TypeInv, NEW kind, Fails(kind)
    PROVE  /\ faults' \in FaultType
           /\ faults'.outage => faults.outage
           /\ kind \notin {"sample", "insert"} => ~faults'.outage
<1>1. /\ faults.count \in Nat /\ faults.count + 1 \in 0..MaxFaults /\ faults.outage \in BOOLEAN
      /\ faults' = [count |-> faults.count + 1,
                    outage |-> faults.outage /\ kind \in {"sample", "insert"}]
  BY BoundAssumption DEF Fails, TypeInv, FaultType
<1>2. (faults.outage /\ kind \in {"sample", "insert"}) \in BOOLEAN
  BY Zenon
<1>3. faults'.outage = (faults.outage /\ kind \in {"sample", "insert"})
  BY <1>1
<1> QED BY <1>1, <1>2, <1>3 DEF FaultType

-----------------------------------------------------------------------------
\* Reading

LEMMA PollStep == ASSUME IInv, NEW k \in 1..BatchMax, Poll(k) PROVE IInv'
<1> DEFINE b == (IF tail.open THEN tail.cursor ELSE tail.cursor + 1)..(tail.cursor + k - 1)
<1> USE Bounds DEF IInv, Poll, ledger, publication, outside
<1>0. /\ op.pc = "idle" /\ tail.cursor + k <= MaxLine
      /\ tail' = [cursor |-> tail.cursor + k, open |-> TRUE]
      /\ op' = [Idle EXCEPT !.pc = IF b = {} THEN "idle" ELSE "admit", !.batch = b]
  BY DEF Emit
<1>1. /\ k \in Nat /\ tail.cursor \in Nat /\ tail.open \in BOOLEAN
      /\ Closed \in Nat /\ Closed' = tail.cursor + k - 1 /\ Closed <= Closed'
      /\ b = (Closed + 1)..Closed'
  BY <1>0, BoundAssumption DEF TypeInv, OrderInv, Closed
<1>2. b \subseteq Lines /\ \A i \in b : i \in Nat /\ Closed < i /\ i <= Closed'
  BY <1>0, <1>1
<1> HIDE DEF b
<1>3. op'.pc = (IF b = {} THEN "idle" ELSE "admit") /\ op'.batch = b /\ op' \in OpType
  BY <1>0, <1>2 DEF Idle, OpType, PCs
<1>4. TypeInv'
  <2>1. tail' \in [cursor : Positions, open : BOOLEAN]
    BY <1>0, <1>1
  <2> QED BY <2>1, <1>3 DEF TypeInv
<1>5. OrderInv'
  <2>1. durable \in Nat /\ durable <= Closed /\ durable <= Closed'
    BY <1>1 DEF TypeInv, OrderInv
  <2>2. \A i \in b : durable < i
    BY <1>1, <1>2, <2>1
  <2> QED BY <1>2, <1>3, <2>1, <2>2 DEF OrderInv, Fresh, Held
<1>6. BatchInv'
  BY <1>1, <1>2, <1>3 DEF BatchInv, OrderInv, TypeInv, Held
<1>7. DoneInv' /\ DiskInv'
  BY DEF DoneInv, DiskInv, Kept
<1>8. WriteInv'
  BY <1>3 DEF WriteInv
<1>9. LossOnlyKnown'
  <2>1. \A i \in 1..Closed' : i \in 1..Closed \/ i \in b
    BY <1>1
  <2>2. op.batch = {}
    BY <1>0 DEF BatchInv
  <2> QED BY <1>3, <2>1, <2>2 DEF LossOnlyKnown, Closed
<1> QED BY <1>4, <1>5, <1>6, <1>7, <1>8, <1>9

LEMMA FlushStaleStep == ASSUME IInv, FlushStale PROVE IInv'
<1> USE Bounds DEF IInv, FlushStale, ledger, publication, outside
<1>1. /\ tail.cursor \in Lines /\ Closed = tail.cursor - 1 /\ Closed' = tail.cursor
      /\ tail' \in [cursor : Positions, open : BOOLEAN]
  <2>1. tail.cursor \in Positions /\ tail.open = TRUE /\ durable \in Nat
    BY DEF TypeInv
  <2>2. durable <= tail.cursor - 1
    BY <2>1 DEF OrderInv, Closed
  <2>3. tail' = [cursor |-> tail.cursor, open |-> FALSE]
    BY DEF TypeInv
  <2>4. tail'.cursor = tail.cursor /\ tail'.open = FALSE
    BY <2>3
  <2>5. Closed = tail.cursor - 1 /\ Closed' = tail.cursor
    BY <2>1, <2>4 DEF Closed
  <2>6. tail.cursor \in Lines
    BY <2>1, <2>2
  <2>7. tail' \in [cursor : Positions, open : BOOLEAN]
    BY <2>1, <2>3
  <2> QED BY <2>5, <2>6, <2>7
<1>2. op'.pc = "admit" /\ op'.batch = {tail.cursor} /\ op' \in OpType
  BY <1>1 DEF Emit, Idle, OpType, PCs
<1>3. TypeInv'
  BY <1>1, <1>2 DEF TypeInv
<1>4. OrderInv'
  BY <1>1, <1>2 DEF OrderInv, TypeInv, Fresh, Held
<1>5. BatchInv'
  BY <1>1, <1>2 DEF BatchInv, OrderInv, TypeInv, Held
<1>6. DoneInv' /\ DiskInv'
  BY DEF DoneInv, DiskInv, Kept
<1>7. WriteInv'
  BY <1>2 DEF WriteInv
<1>8. LossOnlyKnown'
  <2>1. \A i \in 1..Closed' : i \in 1..Closed \/ i = tail.cursor
    BY <1>1
  <2>2. op.batch = {}
    BY DEF BatchInv
  <2> QED BY <1>2, <2>1, <2>2 DEF LossOnlyKnown, Closed
<1> QED BY <1>3, <1>4, <1>5, <1>6, <1>7, <1>8

-----------------------------------------------------------------------------
\* A batch, step by step

LEMMA AppendStep == ASSUME IInv, AppendToWAL PROVE IInv'
<1> USE Bounds DEF IInv, publication, outside
<1>1. CASE paused
  <2> USE <1>1 DEF AppendToWAL
  <2>1. op' = Idle /\ gaps' = gaps \cup Tag(op.batch, "rejected")
    OBVIOUS
  <2>2. op'.pc = "idle" /\ op'.batch = {} /\ op' \in OpType
    BY <2>1 DEF Idle, OpType, PCs
  <2>3. gaps' \subseteq Lines \X Reasons /\ LinesOf(gaps') = LinesOf(gaps) \cup op.batch
    <3>1. op.batch \subseteq Lines
      BY DEF TypeInv, OpType
    <3>2. Tag(op.batch, "rejected") \subseteq Lines \X Reasons
      BY <3>1 DEF Tag, Reasons
    <3> QED BY <2>1, <3>2, LinesOfTag, LinesOfUnion DEF TypeInv
  <2>4. TypeInv'
    BY <2>2, <2>3 DEF TypeInv
  <2>5. OrderInv' /\ BatchInv' /\ WriteInv'
    BY <2>2 DEF OrderInv, BatchInv, WriteInv, Closed, Fresh, Held
  <2>6. DoneInv' /\ DiskInv'
    BY DEF DoneInv, DiskInv, Kept
  <2>7. LossOnlyKnown'
    BY <2>2, <2>3 DEF LossOnlyKnown
  <2> QED BY <2>4, <2>5, <2>6, <2>7
<1>2. CASE ~paused
  <2> USE <1>2 DEF AppendToWAL
  <2>1. /\ op.pc = "append" /\ op' = [op EXCEPT !.pc = "persist"]
        /\ wal' = wal \cup op.batch /\ durable' = Max({durable} \cup op.batch)
        /\ op.batch \subseteq Lines /\ durable \in Positions
    BY DEF Go, TypeInv, OpType
  <2>2. op'.pc = "persist" /\ op'.batch = op.batch /\ op' \in OpType
    BY <2>1 DEF TypeInv, OpType, PCs
  <2>3. /\ durable' \in {durable} \cup op.batch
        /\ durable <= durable' /\ \A i \in op.batch : i <= durable'
    <3>1. {durable} \cup op.batch \subseteq Positions
      BY <2>1
    <3> QED BY <2>1, <3>1, MaxOfPositions
  <2>4. op.batch # {} /\ \A i \in op.batch : durable < i /\ i <= Closed
    BY <2>1 DEF BatchInv, OrderInv, Fresh
  <2>5. TypeInv'
    <3>1. paused' \in BOOLEAN
      <4>1. paused' = (Cardinality(wal') > WalMax)
        OBVIOUS
      <4> QED BY <4>1
    <3>2. durable' \in Positions /\ wal' \subseteq Lines
      BY <2>1, <2>3 DEF TypeInv
    <3> QED BY <2>2, <3>1, <3>2 DEF TypeInv
  <2>6. OrderInv'
    <3>1. durable' <= Closed' /\ durable \in Nat /\ durable' \in Nat /\ reclaim \in Nat /\ delivery \in Nat
      BY <2>1, <2>3, <2>4 DEF OrderInv, TypeInv, Closed
    <3>2. \A i \in wal \cup done \cup op.batch : i \in Nat
      BY <2>1 DEF TypeInv
    <3>3. \A i \in wal' : reclaim < i /\ i <= durable'
      <4>1. reclaim <= durable /\ \A i \in wal : reclaim < i /\ i <= durable
        BY DEF OrderInv
      <4>2. durable <= durable' /\ \A i \in op.batch : durable < i /\ i <= durable'
        BY <2>3, <2>4
      <4>3. durable \in Nat /\ durable' \in Nat /\ reclaim \in Nat /\ wal' = wal \cup op.batch
        BY <2>1, <3>1
      <4> HIDE <1>2 DEF AppendToWAL, IInv
      <4> QED BY <3>2, <4>1, <4>2, <4>3
    <3>4. \A i \in done : i <= durable'
      BY <2>3, <3>1, <3>2 DEF OrderInv
    <3>5. reclaim <= durable' /\ delivery <= durable'
      BY <2>3, <3>1 DEF OrderInv
    <3> QED BY <2>2, <2>3, <2>4, <3>1, <3>3, <3>4, <3>5 DEF OrderInv, Closed, Held, Fresh
  <2>7. BatchInv'
    BY <2>1, <2>2, <2>4 DEF BatchInv, OrderInv, TypeInv, Held
  <2>8. DoneInv'
    BY <2>1, <2>4 DEF DoneInv, OrderInv, TypeInv, Kept
  <2>9. WriteInv' /\ DiskInv'
    BY <2>2 DEF WriteInv, DiskInv, Kept
  <2>10. LossOnlyKnown'
    BY <2>1, <2>2 DEF LossOnlyKnown
  <2> QED BY <2>5, <2>6, <2>7, <2>8, <2>9, <2>10
<1> QED BY <1>1, <1>2

\* What is persisted, at whatever moment, is in order and accounts for every durable line.
LEMMA SnapshotSound ==
    ASSUME IInv
    PROVE  /\ Snapshot \in DiskType
           /\ \A i \in 1..durable : i \in wal \cup Kept \cup LinesOf(gaps)
<1> USE Bounds DEF IInv
<1>1. Snapshot \in DiskType
  BY DEF Snapshot, DiskType, TypeInv
<1>2. ASSUME NEW i \in 1..durable PROVE i \in wal \cup Kept \cup LinesOf(gaps)
  <2>1. i \in 1..Closed
    BY DEF OrderInv, TypeInv, Closed
  <2>2. i \in op.batch \cup wal \cup Kept \cup LinesOf(gaps)
    BY <2>1 DEF LossOnlyKnown, Closed, Kept
  <2>3. i \in op.batch => Held
    BY DEF OrderInv, BatchInv, TypeInv, OpType, PCs, Fresh, Held
  <2> QED BY <2>2, <2>3 DEF BatchInv
<1> QED BY <1>1, <1>2

\* A persist leaves the disk in order.
LEMMA PersistedSound ==
    ASSUME IInv, disk' = Snapshot, UNCHANGED <<stored, lost>>
    PROVE  disk' \in DiskType /\ DiskInv'
<1>1. /\ disk'.reclaim = reclaim /\ disk'.durable = durable /\ disk'.wal = wal
      /\ disk'.done = done /\ disk'.gaps = gaps
  BY DEF Snapshot
<1>2. /\ Snapshot \in DiskType
      /\ \A i \in 1..durable : i \in wal \cup Kept \cup LinesOf(gaps)
  BY SnapshotSound
<1> QED BY <1>1, <1>2 DEF IInv, DiskInv, OrderInv, DoneInv, Kept

LEMMA PersistBatchStep == ASSUME IInv, PersistBatch PROVE IInv'
<1> USE DEF IInv, PersistBatch, ledger, outside
<1>1. Held /\ op.batch \subseteq wal \cup Kept /\ saved' \subseteq Lines
  BY DEF Held, BatchInv, Inline, TypeInv
<1>2. CASE op' = Idle /\ disk' = disk /\ Fails("defer")
  <2>1. op'.pc = "idle" /\ op'.batch = {} /\ op' \in OpType /\ faults' \in FaultType
    BY <1>2, FaultCounted DEF Idle, OpType, PCs
  <2>2. TypeInv'
    BY <1>1, <1>2, <2>1 DEF TypeInv
  <2>3. OrderInv' /\ BatchInv' /\ WriteInv'
    BY <2>1 DEF OrderInv, BatchInv, WriteInv, Closed, Fresh, Held
  <2>4. DoneInv' /\ DiskInv'
    BY <1>2 DEF DoneInv, DiskInv, Kept
  <2>5. LossOnlyKnown'
    BY <1>1, <2>1 DEF LossOnlyKnown, Kept
  <2> QED BY <2>2, <2>3, <2>4, <2>5
<1>3. CASE Go("plan") /\ disk' = Snapshot /\ UNCHANGED faults
  <2>1. op'.pc = "plan" /\ op'.batch = op.batch /\ op' \in OpType
    BY <1>3 DEF Go, TypeInv, OpType, PCs
  <2>2. disk' \in DiskType /\ DiskInv'
    BY <1>3, PersistedSound
  <2>3. TypeInv'
    BY <1>1, <1>3, <2>1, <2>2 DEF TypeInv
  <2>4. OrderInv' /\ BatchInv' /\ WriteInv'
    BY <1>1, <2>1 DEF OrderInv, BatchInv, WriteInv, Closed, Fresh, Held, Kept
  <2>5. DoneInv' /\ LossOnlyKnown'
    BY <2>1 DEF DoneInv, LossOnlyKnown, Kept
  <2> QED BY <2>2, <2>3, <2>4, <2>5
<1> QED BY <1>2, <1>3

\* A delivery that fails leaves its lines in the WAL, stored or given up; the gap is extra.
LEMMA FailureSound ==
    ASSUME IInv, Held, DeliveryFails,
           UNCHANGED <<tail, wal, durable, reclaim, done, delivery, stored, disk, lost>>
    PROVE  /\ op' \in OpType /\ gaps' \subseteq Lines \X Reasons
           /\ OrderInv' /\ BatchInv' /\ DoneInv' /\ WriteInv' /\ DiskInv' /\ LossOnlyKnown'
<1> USE DEF IInv, DeliveryFails
<1>1. op'.pc = "idle" /\ op'.batch = {} /\ op' \in OpType
  BY DEF Idle, OpType, PCs
<1>2. gaps' \subseteq Lines \X Reasons /\ gaps \subseteq gaps'
  BY DEF TypeInv, OpType, Tag, Reasons
<1>3. LinesOf(gaps) \subseteq LinesOf(gaps')
  BY <1>2 DEF LinesOf
<1>4. OrderInv' /\ BatchInv' /\ WriteInv'
  BY <1>1 DEF OrderInv, BatchInv, WriteInv, Closed, Fresh, Held
<1>5. DoneInv' /\ DiskInv'
  BY DEF DoneInv, DiskInv, Kept
<1>6. LossOnlyKnown'
  BY <1>1, <1>3 DEF LossOnlyKnown, BatchInv, Kept
<1> QED BY <1>1, <1>2, <1>4, <1>5, <1>6

LEMMA PlanStep == ASSUME IInv, NEW compact \in BOOLEAN, Plan(compact) PROVE IInv'
<1> DEFINE seen == IF Fast THEN {} ELSE stored
           replace == (pending /\ ~Confirmed) \/ compact
<1> USE DEF IInv, outside
<1>1. /\ op.pc = "plan" /\ op.batch \subseteq Lines /\ op.batch # {}
      /\ op.batch \subseteq wal \cup Kept
      /\ UNCHANGED <<tail, wal, durable, reclaim, done, delivery, paused, through, saved, stored,
                     visible, disk, faults, lost>>
  BY DEF Plan, TypeInv, OpType, BatchInv, Held
<1>2. CASE /\ op.batch \subseteq seen /\ Go("record") /\ pending' = (pending /\ ~Confirmed)
           /\ gaps' = Resolve(op.batch) /\ verified' = verified \cup op.batch
  <2>1. op'.pc = "record" /\ op'.batch = op.batch /\ op' \in OpType
    BY <1>2 DEF Go, TypeInv, OpType, PCs
  <2>2. op.batch \subseteq stored
    BY <1>1, <1>2
  <2>3. TypeInv'
    BY <1>1, <1>2, <2>1 DEF TypeInv, Resolve
  <2>4. OrderInv' /\ BatchInv' /\ WriteInv'
    BY <1>1, <2>1, <2>2 DEF OrderInv, BatchInv, WriteInv, Closed, Fresh, Held, Kept
  <2>5. DoneInv' /\ DiskInv'
    BY <1>1 DEF DoneInv, DiskInv, Kept
  <2>6. LossOnlyKnown'
    <3>1. LinesOf(gaps) \subseteq LinesOf(gaps') \cup op.batch
      BY <1>2, Resolved
    <3> QED BY <1>1, <2>1, <3>1 DEF LossOnlyKnown
  <2> QED BY <2>3, <2>4, <2>5, <2>6
<1>3. CASE /\ op' = Write(seen, replace, Canonical) /\ pending' = TRUE
           /\ UNCHANGED <<gaps, verified>>
  <2>1. stored \subseteq Canonical /\ Canonical \subseteq Lines
    BY DEF Canonical, TypeInv
  <2>2. /\ op'.pc = "publish" /\ op'.batch = op.batch /\ op' \in OpType
        /\ op'.replace => op'.write = Canonical
    BY <1>1, <1>3, <2>1 DEF Write, TypeInv, OpType, PCs
  <2>3. TypeInv'
    BY <1>1, <1>3, <2>2 DEF TypeInv
  <2>4. OrderInv' /\ BatchInv'
    BY <1>1, <2>2 DEF OrderInv, BatchInv, Closed, Fresh, Held, Kept
  <2>5. DoneInv' /\ DiskInv'
    BY <1>1 DEF DoneInv, DiskInv, Kept
  <2>6. WriteInv'
    BY <1>1, <2>1, <2>2 DEF WriteInv
  <2>7. LossOnlyKnown'
    BY <1>1, <1>3, <2>2 DEF LossOnlyKnown
  <2> QED BY <2>3, <2>4, <2>5, <2>6, <2>7
<1> QED BY <1>2, <1>3 DEF Plan

LEMMA PlanStaleStep == ASSUME IInv, PlanStale PROVE IInv'
<1>1. Held /\ DeliveryFails /\ faults' \in FaultType
  BY FaultCounted DEF PlanStale, Held, IInv
<1>2. TypeInv'
  BY <1>1, FailureSound DEF PlanStale, IInv, TypeInv, publication, outside
<1> QED BY <1>1, <1>2, FailureSound DEF PlanStale, IInv, publication, outside

LEMMA PublishStep == ASSUME IInv, Publish PROVE IInv'
<1>1. CASE /\ Fails("insert") /\ DeliveryFails
           /\ \E passed \in SUBSET op.write : verified' = verified \cup passed
           /\ UNCHANGED <<visible, pending>>
  <2>1. Held /\ faults' \in FaultType /\ verified' \subseteq Lines
    BY <1>1, FaultCounted DEF Publish, Held, IInv, TypeInv, OpType
  <2>2. TypeInv'
    BY <1>1, <2>1, FailureSound DEF Publish, IInv, TypeInv
  <2> QED BY <1>1, <2>1, <2>2, FailureSound DEF Publish, IInv
<1>2. CASE /\ Go("store") /\ visible' = op.write \cup (IF op.replace THEN {} ELSE visible)
           /\ pending' = FALSE /\ UNCHANGED <<gaps, verified, faults>>
  <2> USE DEF IInv, Publish
  <2>1. op'.pc = "store" /\ op'.batch = op.batch /\ op' \in OpType
    BY <1>2 DEF Go, TypeInv, OpType, PCs
  <2>2. TypeInv'
    BY <1>2, <2>1 DEF TypeInv, OpType
  <2>3. OrderInv' /\ BatchInv' /\ WriteInv'
    BY <2>1 DEF OrderInv, BatchInv, WriteInv, Closed, Fresh, Held, Kept
  <2>4. DoneInv' /\ DiskInv' /\ LossOnlyKnown'
    BY <1>2, <2>1 DEF DoneInv, DiskInv, LossOnlyKnown, Kept
  <2> QED BY <2>2, <2>3, <2>4
<1> QED BY <1>1, <1>2 DEF Publish

LEMMA StoreStep == ASSUME IInv, Store PROVE IInv'
<1> DEFINE evidence == IF op.replace THEN op.expected ELSE op.batch
<1>1. CASE Fails("append") /\ DeliveryFails /\ UNCHANGED <<stored, through, verified, lost>>
  <2>1. Held /\ faults' \in FaultType
    BY <1>1, FaultCounted DEF Store, Held, IInv
  <2>2. TypeInv'
    BY <1>1, <2>1, FailureSound DEF Store, IInv, TypeInv
  <2> QED BY <1>1, <2>1, <2>2, FailureSound DEF Store, IInv
<1>2. CASE /\ Go("record") /\ stored' = stored \cup op.expected
           /\ through' = Max({through} \cup op.expected)
           /\ gaps' = Resolve(evidence) /\ verified' = verified \cup evidence
           /\ lost' = lost \cup Tag(op.batch \ stored', "uncovered") /\ UNCHANGED faults
  <2> USE DEF IInv, Store
  <2>1. op'.pc = "record" /\ op'.batch = op.batch /\ op' \in OpType
    BY <1>2 DEF Go, TypeInv, OpType, PCs
  <2>2. op.batch \subseteq Lines /\ op.expected \subseteq Lines /\ through \in Positions
    BY DEF TypeInv, OpType
  <2>3. through' \in Positions
    <3>1. {through} \cup op.expected \subseteq Positions
      BY <2>2, Bounds
    <3> QED BY <1>2, <3>1, MaxOfPositions
  <2>4. LinesOf(lost') = LinesOf(lost) \cup (op.batch \ stored')
    BY <1>2, LinesOfUnion, LinesOfTag
  <2>5. Kept \subseteq Kept' /\ op.batch \subseteq Kept' /\ evidence \subseteq Kept'
    BY <1>2, <2>4 DEF Kept
  <2>6. TypeInv'
    <3>1. lost' \subseteq Lines \X Losses
      BY <1>2, <2>2 DEF TypeInv, Tag, Losses
    <3> QED BY <1>2, <2>1, <2>2, <2>3, <3>1 DEF TypeInv, Resolve
  <2>7. OrderInv' /\ BatchInv' /\ WriteInv'
    BY <2>1, <2>5 DEF OrderInv, BatchInv, WriteInv, Closed, Fresh, Held
  <2>8. DoneInv' /\ DiskInv'
    BY <2>5 DEF DoneInv, DiskInv
  <2>9. LossOnlyKnown'
    <3>1. LinesOf(gaps) \subseteq LinesOf(gaps') \cup evidence
      BY <1>2, Resolved
    <3> QED BY <2>1, <2>5, <3>1 DEF LossOnlyKnown, Kept
  <2> QED BY <2>6, <2>7, <2>8, <2>9
<1> QED BY <1>1, <1>2 DEF Store

\* A reclaim that forgets no last trace of a line keeps every line accounted for.
LEMMA SettledCovers ==
    ASSUME IInv, NEW r \in Positions, NEW given, Settle(r, given),
           \A i \in wal : i <= r => i \in Kept \cup LinesOf(gaps) \cup LinesOf(given)
    PROVE  \A i \in 1..Closed :
               i \in op.batch \cup wal' \cup stored \cup LinesOf(gaps') \cup LinesOf(lost')
<1>1. /\ wal' = {i \in wal : i > r} /\ lost \cup given \subseteq lost'
      /\ LinesOf(gaps) \subseteq LinesOf(gaps') \cup LinesOf(lost') \cup wal' \cup op.batch \cup stored
  BY Settled DEF IInv
<1>2. LinesOf(lost) \cup LinesOf(given) \subseteq LinesOf(lost')
  BY <1>1 DEF LinesOf
<1> SUFFICES ASSUME NEW i \in 1..Closed
             PROVE  i \in op.batch \cup wal' \cup stored \cup LinesOf(gaps') \cup LinesOf(lost')
  OBVIOUS
<1>3. CASE i \in wal /\ i <= r
  BY <1>1, <1>2, <1>3 DEF Kept
<1>4. CASE i \in wal /\ ~(i <= r)
  <2>1. i \in Nat /\ r \in Nat
    BY Bounds
  <2> QED BY <1>1, <1>4, <2>1
<1>5. CASE i \notin wal
  <2>1. i \in op.batch \cup stored \cup LinesOf(gaps) \cup LinesOf(lost)
    BY <1>5 DEF IInv, LossOnlyKnown, Closed
  <2> QED BY <1>1, <1>2, <2>1
<1> QED BY <1>3, <1>4, <1>5

\* The types after a reclaim.
LEMMA SettledTypes ==
    ASSUME IInv, NEW r \in Positions, NEW given, Settle(r, given),
           given \subseteq Lines \X Losses
    PROVE  /\ reclaim' \in Positions /\ wal' \subseteq Lines /\ gaps' \subseteq Lines \X Reasons
           /\ lost' \subseteq Lines \X Losses /\ paused' \in BOOLEAN
BY Settled DEF IInv, TypeInv, Losses

\* Where nothing is reclaimed the WAL stays as it is.
LEMMA SettledInPlace ==
    ASSUME IInv, Settle(reclaim, {})
    PROVE  /\ reclaim' = reclaim /\ wal' = wal /\ Kept \subseteq stored \cup LinesOf(lost')
           /\ gaps' \subseteq Lines \X Reasons /\ lost' \subseteq Lines \X Losses
           /\ paused' \in BOOLEAN
           /\ \A i \in 1..Closed :
                  i \in op.batch \cup wal \cup stored \cup LinesOf(gaps') \cup LinesOf(lost')
<1>1. \A i \in wal : i > reclaim /\ ~(i <= reclaim)
  BY Bounds DEF IInv, OrderInv, TypeInv
<1>2. reclaim' = reclaim /\ wal' = {i \in wal : i > reclaim} /\ lost \subseteq lost'
  BY Settled DEF IInv
<1>3. wal' = wal
  BY <1>1, <1>2
<1>4. LinesOf(lost) \subseteq LinesOf(lost')
  BY <1>2 DEF LinesOf
<1>5. /\ gaps' \subseteq Lines \X Reasons /\ lost' \subseteq Lines \X Losses
      /\ paused' \in BOOLEAN
  BY SettledTypes, Zenon DEF IInv, TypeInv
<1>6. \A i \in 1..Closed :
          i \in op.batch \cup wal' \cup stored \cup LinesOf(gaps') \cup LinesOf(lost')
  BY <1>1, SettledCovers DEF IInv, TypeInv
<1> QED BY <1>2, <1>3, <1>4, <1>5, <1>6 DEF Kept

LEMMA AdmitStep == ASSUME IInv, Admit PROVE IInv'
<1> USE DEF IInv, Admit, publication, outside
<1>1. CASE /\ Fails("sample") /\ op' = Idle
           /\ lost' = lost \cup Tag(op.batch, "refused")
           /\ UNCHANGED <<wal, gaps, paused, reclaim>>
  <2>1. op'.pc = "idle" /\ op'.batch = {} /\ op' \in OpType /\ faults' \in FaultType
    BY <1>1, FaultCounted DEF Idle, OpType, PCs
  <2>2. LinesOf(lost') = LinesOf(lost) \cup op.batch
    BY <1>1, LinesOfUnion, LinesOfTag
  <2>3. TypeInv'
    <3>1. lost' \subseteq Lines \X Losses
      BY <1>1 DEF TypeInv, OpType, Tag, Losses
    <3> QED BY <1>1, <2>1, <3>1 DEF TypeInv
  <2>4. OrderInv' /\ BatchInv' /\ WriteInv'
    BY <1>1, <2>1 DEF OrderInv, BatchInv, WriteInv, Closed, Fresh, Held
  <2>5. DoneInv' /\ DiskInv'
    BY <1>1, <2>2 DEF DoneInv, DiskInv, Kept
  <2>6. LossOnlyKnown'
    BY <1>1, <2>1, <2>2 DEF LossOnlyKnown
  <2> QED BY <2>3, <2>4, <2>5, <2>6
<1>2. CASE Go("append") /\ Settle(reclaim, {}) /\ UNCHANGED faults
  <2>1. op'.pc = "append" /\ op'.batch = op.batch /\ op' \in OpType
    BY <1>2 DEF Go, TypeInv, OpType, PCs
  <2>2. /\ reclaim' = reclaim /\ wal' = wal /\ Kept \subseteq Kept'
        /\ gaps' \subseteq Lines \X Reasons /\ lost' \subseteq Lines \X Losses
        /\ paused' \in BOOLEAN
        /\ \A i \in 1..Closed :
               i \in op.batch \cup wal \cup stored \cup LinesOf(gaps') \cup LinesOf(lost')
    BY <1>2, SettledInPlace DEF Kept
  <2>3. TypeInv'
    BY <1>2, <2>1, <2>2 DEF TypeInv
  <2>4. OrderInv' /\ BatchInv' /\ WriteInv'
    BY <2>1, <2>2 DEF OrderInv, BatchInv, WriteInv, Closed, Fresh, Held
  <2>5. DoneInv' /\ DiskInv'
    BY <2>2 DEF DoneInv, DiskInv
  <2>6. LossOnlyKnown'
    BY <2>1, <2>2 DEF LossOnlyKnown, Closed
  <2> QED BY <2>3, <2>4, <2>5, <2>6
<1> QED BY <1>1, <1>2

LEMMA RecordStep == ASSUME IInv, Record PROVE IInv'
<1> USE DEF IInv, Record, publication, outside
<1>1. op'.pc = "proof" /\ op'.batch = op.batch /\ op' \in OpType
  BY DEF Go, TypeInv, OpType, PCs
<1>2. /\ reclaim' = reclaim /\ wal' = wal /\ Kept \subseteq Kept'
      /\ gaps' \subseteq Lines \X Reasons /\ lost' \subseteq Lines \X Losses
      /\ paused' \in BOOLEAN
      /\ \A i \in 1..Closed :
             i \in op.batch \cup wal \cup stored \cup LinesOf(gaps') \cup LinesOf(lost')
  BY SettledInPlace DEF Kept
<1>3. op.batch \subseteq Lines /\ op.batch \subseteq Kept /\ \A i \in op.batch : i <= durable
  BY DEF TypeInv, OpType, BatchInv, OrderInv, Held
<1>4. done' \subseteq done \cup Span(op.batch) /\ Span(op.batch) \subseteq Lines
  BY <1>3, SpanLines
<1>5. \A i \in Span(op.batch) : i <= durable /\ (i \in wal => i \in op.batch)
  <2>1. ASSUME NEW i \in Span(op.batch) PROVE i <= durable /\ (i \in wal => i \in op.batch)
    <3>1. PICK j, k \in op.batch : j <= i /\ i <= k
      BY <1>3, SpanLines
    <3>2. i \in Nat /\ k \in Nat /\ durable \in Nat /\ k <= durable
      BY <1>3, <1>4, Bounds DEF TypeInv
    <3> QED BY <3>1, <3>2 DEF BatchInv
  <2> QED BY <2>1
<1>6. /\ delivery' \in reclaim..MaxLine
      /\ \A i \in Lines : reclaim < i /\ i <= delivery' => i \in done'
  BY ContiguousLines DEF TypeInv
<1>7. done' \subseteq Lines /\ \A i \in done' : i <= durable
  BY <1>4, <1>5 DEF TypeInv, OrderInv
<1>8. delivery' \in Positions /\ delivery' <= durable
  <2>1. reclaim \in Nat /\ durable \in Nat /\ reclaim <= durable
    BY Bounds DEF TypeInv, OrderInv
  <2>2. delivery' \in Nat /\ delivery' <= MaxLine
    BY <1>6, <2>1, Bounds
  <2>3. CASE delivery' <= reclaim
    BY <2>1, <2>2, <2>3, Bounds
  <2>4. CASE reclaim < delivery'
    <3>1. delivery' \in Lines
      BY <2>1, <2>2, <2>4, Bounds
    <3> QED BY <1>6, <1>7, <2>2, <2>4, <3>1, Bounds
  <2> QED BY <2>1, <2>2, <2>3, <2>4
<1>9. TypeInv'
  BY <1>1, <1>2, <1>7, <1>8 DEF TypeInv
<1>10. OrderInv'
  BY <1>1, <1>2, <1>3, <1>7, <1>8 DEF OrderInv, Closed, Fresh, Held
<1>11. BatchInv' /\ WriteInv'
  BY <1>1, <1>2, <1>3 DEF BatchInv, WriteInv, Held
<1>12. DoneInv'
  BY <1>2, <1>3, <1>4, <1>5, <1>6 DEF DoneInv
<1>13. DiskInv'
  BY <1>2 DEF DiskInv
<1>14. LossOnlyKnown'
  BY <1>1, <1>2 DEF LossOnlyKnown, Closed
<1> QED BY <1>9, <1>10, <1>11, <1>12, <1>13, <1>14

\* What the proof of a batch releases: lines that are stored, that have a gap, or that the
\* release is known to leap over.
LEMMA ProofStep == ASSUME IInv, Proof PROVE IInv'
<1> DEFINE r == Max({reclaim, delivery} \cup op.batch)
           skipped == {i \in wal : i < Min(op.batch) /\ i \notin done /\ i > delivery}
           given == Tag(skipped \ (stored \cup LinesOf(gaps)), "leapt")
<1>1. /\ op.pc = "proof" /\ op' = Idle /\ Settle(r, given) /\ done' = {i \in done : i > r}
      /\ UNCHANGED <<tail, durable, delivery, through, saved, pending, verified, stored,
                     visible, disk, faults>>
  BY DEF Proof, publication, outside
<1>2. /\ op.batch \subseteq Lines /\ op.batch # {} /\ op.batch \subseteq Kept
      /\ \A i \in op.batch : i <= durable
  BY <1>1 DEF IInv, TypeInv, OpType, BatchInv, OrderInv, Held
<1>3. /\ r \in {reclaim, delivery} \cup op.batch /\ r \in Positions
      /\ reclaim <= r /\ delivery <= r /\ \A i \in op.batch : i <= r
  <2>1. {reclaim, delivery} \cup op.batch \subseteq Positions
    BY <1>2, Bounds DEF IInv, TypeInv
  <2>2. r \in {reclaim, delivery} \cup op.batch /\ \A i \in {reclaim, delivery} \cup op.batch : r >= i
    BY <2>1, MaxOfPositions
  <2> HIDE DEF r
  <2> QED BY <2>1, <2>2, Bounds
<1>4. Min(op.batch) \in op.batch /\ \A i \in op.batch : Min(op.batch) <= i
  <2>1. op.batch \subseteq Nat
    BY <1>2, Bounds
  <2> QED BY <1>2, <2>1, MinIn
<1>5. LinesOf(given) = skipped \ (stored \cup LinesOf(gaps)) /\ given \subseteq Lines \X Losses
  <2>1. skipped \subseteq Lines
    BY DEF IInv, TypeInv
  <2> QED BY <2>1, LinesOfTag DEF Tag, Losses
<1> HIDE DEF r
<1>6. \A i \in wal : i <= r => i \in Kept \cup LinesOf(gaps) \cup LinesOf(given)
  <2> SUFFICES ASSUME NEW i \in wal, i <= r
               PROVE  i \in Kept \cup LinesOf(gaps) \cup LinesOf(given)
    OBVIOUS
  <2>1. /\ i \in Lines /\ i \in Nat /\ reclaim \in Nat /\ delivery \in Nat /\ reclaim < i
        /\ \A j \in op.batch : j \in Nat
    BY <1>2, Bounds DEF IInv, TypeInv, OrderInv
  <2>2. CASE i \in op.batch
    BY <1>2, <2>2
  <2>3. CASE i \in done
    BY <2>3 DEF IInv, DoneInv
  <2>4. CASE i <= delivery
    <3>1. i \in done
      BY <2>1, <2>4 DEF IInv, DoneInv
    <3> QED BY <3>1 DEF IInv, DoneInv
  <2>5. CASE i \notin op.batch /\ i \notin done /\ delivery < i
    <3>1. r \in op.batch
      BY <1>3, <2>1, <2>5
    <3>2. i < Min(op.batch)
      <4>1. ~(Min(op.batch) <= i)
        BY <1>4, <2>5, <3>1 DEF IInv, BatchInv
      <4> QED BY <1>4, <2>1, <4>1
    <3>3. i \in skipped
      BY <2>5, <3>2
    <3> QED BY <1>5, <3>3 DEF Kept
  <2> QED BY <2>1, <2>2, <2>3, <2>4, <2>5
<1>7. \A i \in 1..Closed :
          i \in op.batch \cup wal' \cup stored \cup LinesOf(gaps') \cup LinesOf(lost')
  BY <1>1, <1>3, <1>6, SettledCovers
<1>8. /\ reclaim' = r /\ wal' = {i \in wal : i > r} /\ lost \subseteq lost'
      /\ gaps' \subseteq Lines \X Reasons /\ lost' \subseteq Lines \X Losses
      /\ paused' \in BOOLEAN
  BY <1>1, <1>3, <1>5, Settled, SettledTypes DEF IInv
<1>9. Kept \subseteq Kept'
  BY <1>1, <1>8 DEF Kept, LinesOf
<1>10. op'.pc = "idle" /\ op'.batch = {} /\ op' \in OpType
  BY <1>1 DEF Idle, OpType, PCs
<1>11. TypeInv'
  BY <1>1, <1>3, <1>8, <1>10 DEF IInv, TypeInv
<1>12. OrderInv'
  <2>1. r <= durable
    BY <1>2, <1>3 DEF IInv, OrderInv
  <2>2. \A i \in wal' : r < i /\ i <= durable
    BY <1>3, <1>8, Bounds DEF IInv, OrderInv, TypeInv
  <2> QED BY <1>1, <1>8, <1>10, <2>1, <2>2 DEF IInv, OrderInv, Closed
<1>13. BatchInv' /\ WriteInv'
  BY <1>10 DEF BatchInv, WriteInv, Held
<1>14. DoneInv'
  <2>1. \A i \in Lines : ~(r < i /\ i <= delivery)
    BY <1>3, Bounds DEF IInv, TypeInv
  <2> QED BY <1>1, <1>8, <1>9, <2>1 DEF IInv, DoneInv
<1>15. DiskInv'
  BY <1>1, <1>9 DEF IInv, DiskInv
<1>16. LossOnlyKnown'
  BY <1>1, <1>2, <1>7, <1>9, <1>10 DEF LossOnlyKnown, Closed, Kept
<1> QED BY <1>11, <1>12, <1>13, <1>14, <1>15, <1>16 DEF IInv

-----------------------------------------------------------------------------
\* Maintenance

LEMMA RollStep == ASSUME IInv, Roll PROVE IInv'
<1> USE DEF Roll, IInv, publication, outside
<1>1. \A i \in wal : i <= delivery => i \in Kept
  BY DEF OrderInv, DoneInv, TypeInv
<1>2. \A i \in 1..Closed :
          i \in op.batch \cup wal' \cup stored \cup LinesOf(gaps') \cup LinesOf(lost')
  BY <1>1, SettledCovers DEF TypeInv
<1>3. /\ reclaim' = delivery /\ wal' = {i \in wal : i > delivery} /\ lost \subseteq lost'
      /\ gaps' \subseteq Lines \X Reasons /\ lost' \subseteq Lines \X Losses
      /\ paused' \in BOOLEAN
  <2>1. delivery \in Positions /\ {} \subseteq Lines \X Losses
    BY DEF TypeInv
  <2> QED BY <2>1, Settled, SettledTypes
<1>4. Kept \subseteq Kept'
  BY <1>3 DEF Kept, LinesOf
<1>5. \A i \in wal : i \in wal' \/ i \in Kept
  BY <1>1, <1>3, Bounds DEF TypeInv
<1>6. TypeInv'
  BY <1>3 DEF TypeInv
<1>7. OrderInv'
  BY <1>3 DEF OrderInv, Closed, Fresh, Held
<1>8. BatchInv' /\ WriteInv'
  BY <1>3, <1>4, <1>5 DEF BatchInv, WriteInv, Held
<1>9. DoneInv'
  <2>1. \A i \in Lines : ~(delivery < i /\ i <= delivery)
    BY Bounds DEF TypeInv
  <2> QED BY <1>3, <1>4, <2>1 DEF DoneInv
<1>10. DiskInv'
  BY <1>4 DEF DiskInv
<1>11. LossOnlyKnown'
  BY <1>2 DEF LossOnlyKnown, Closed
<1> QED BY <1>6, <1>7, <1>8, <1>9, <1>10, <1>11

LEMMA EvaluateResumeStep == ASSUME IInv, EvaluateResume PROVE IInv'
<1> USE DEF EvaluateResume, IInv, publication, outside
<1>1. /\ reclaim' = reclaim /\ wal' = wal /\ Kept \subseteq Kept'
      /\ gaps' \subseteq Lines \X Reasons /\ lost' \subseteq Lines \X Losses
      /\ paused' \in BOOLEAN
      /\ \A i \in 1..Closed :
             i \in op.batch \cup wal \cup stored \cup LinesOf(gaps') \cup LinesOf(lost')
  BY SettledInPlace DEF Kept
<1>2. TypeInv'
  BY <1>1 DEF TypeInv
<1>3. OrderInv' /\ BatchInv' /\ WriteInv'
  BY <1>1 DEF OrderInv, BatchInv, WriteInv, Closed, Fresh, Held
<1>4. DoneInv' /\ DiskInv' /\ LossOnlyKnown'
  BY <1>1 DEF DoneInv, DiskInv, LossOnlyKnown, Closed
<1> QED BY <1>2, <1>3, <1>4

LEMMA AutoResolveStep == ASSUME IInv, AutoResolve PROVE IInv'
<1> USE DEF AutoResolve, IInv, publication, outside
<1> DEFINE resolved == LinesOf(gaps \ gaps') \ (wal \cup op.batch \cup stored)
<1>1. gaps' \subseteq gaps /\ resolved \subseteq Lines /\ lost' = lost \cup Tag(resolved, "resolved")
  BY DEF Resolve, LinesOf, TypeInv
<1>2. LinesOf(lost') = LinesOf(lost) \cup resolved
  <2>1. LinesOf(lost') = LinesOf(lost) \cup LinesOf(Tag(resolved, "resolved"))
    BY <1>1, LinesOfUnion
  <2> QED BY <2>1, LinesOfTag
<1>3. LinesOf(gaps) = LinesOf(gaps') \cup LinesOf(gaps \ gaps')
  <2>1. gaps = gaps' \cup (gaps \ gaps')
    BY <1>1
  <2> QED BY <2>1, LinesOfUnion
<1> HIDE DEF resolved
<1>4. Kept \subseteq Kept'
  BY <1>2 DEF Kept
<1>5. TypeInv'
  <2>1. lost' \subseteq Lines \X Losses
    BY <1>1 DEF TypeInv, Tag, Losses
  <2> QED BY <1>1, <2>1 DEF TypeInv
<1>6. OrderInv' /\ BatchInv' /\ WriteInv'
  BY <1>4 DEF OrderInv, BatchInv, WriteInv, Closed, Fresh, Held
<1>7. DoneInv' /\ DiskInv'
  BY <1>4 DEF DoneInv, DiskInv
<1>8. LossOnlyKnown'
  BY <1>2, <1>3 DEF LossOnlyKnown, resolved
<1> QED BY <1>5, <1>6, <1>7, <1>8

LEMMA PersistStep == ASSUME IInv, Persist PROVE IInv'
<1> USE DEF Persist, IInv, ledger, outside
<1>1. disk' \in DiskType /\ DiskInv'
  BY PersistedSound
<1>2. saved' \subseteq Lines
  BY DEF Inline, TypeInv
<1>3. TypeInv'
  BY <1>1, <1>2 DEF TypeInv
<1>4. OrderInv' /\ BatchInv' /\ WriteInv'
  BY DEF OrderInv, BatchInv, WriteInv, Closed, Fresh, Held, Kept
<1>5. DoneInv' /\ LossOnlyKnown'
  BY DEF DoneInv, LossOnlyKnown, Kept
<1> QED BY <1>1, <1>3, <1>4, <1>5

\* A drain takes a first part of the WAL that is not empty.
LEMMA DrainTakes ==
    ASSUME IInv, Drain
    PROVE  /\ op'.pc = "plan" /\ op'.drain = TRUE /\ op' \in OpType
           /\ op'.batch # {} /\ op'.batch \subseteq wal
           /\ \A i \in wal, k \in op'.batch : i <= k => i \in op'.batch
<1> DEFINE before(i) == {j \in wal : j < i}
           b == {i \in wal : Cardinality(before(i)) < DrainMax}
<1> USE DEF IInv, ledger, publication, outside
<1>1. /\ op.pc = "idle" /\ wal # {}
      /\ op' = [Idle EXCEPT !.pc = "plan", !.drain = TRUE, !.batch = b]
      /\ UNCHANGED <<tail, wal, durable, reclaim, done, delivery, gaps, paused, through, saved,
                     pending, verified, stored, visible, disk, faults, lost>>
  BY DEF Drain
<1>2. wal \subseteq Lines /\ wal \subseteq Nat /\ IsFiniteSet(wal)
  <2>1. wal \subseteq 1..MaxLine
    BY Bounds DEF TypeInv
  <2>2. IsFiniteSet(1..MaxLine)
    BY FS_Interval, Bounds
  <2>3. IsFiniteSet(wal)
    BY <2>1, <2>2, FS_Subset
  <2> QED BY <2>1, <2>3, Bounds
<1>3. \A i : IsFiniteSet(before(i)) /\ Cardinality(before(i)) \in Nat
  <2>1. \A i : before(i) \subseteq wal
    OBVIOUS
  <2> QED BY <1>2, <2>1, FS_Subset, FS_CardinalityType
<1>4. \A i \in wal, k \in b : i <= k => i \in b
  <2> SUFFICES ASSUME NEW i \in wal, NEW k \in b, i <= k PROVE i \in b
    OBVIOUS
  <2>0. k \in wal /\ \A j \in wal : j \in Nat
    BY <1>2
  <2>1. before(i) \subseteq before(k)
    BY <2>0
  <2>2. Cardinality(before(i)) <= Cardinality(before(k))
    BY <1>3, <2>1, FS_Subset
  <2>3. Cardinality(before(k)) < DrainMax /\ DrainMax \in Nat
    BY BoundAssumption
  <2> HIDE DEF before
  <2> QED BY <1>3, <2>2, <2>3
<1>5. Min(wal) \in b
  <2>1. Min(wal) \in wal /\ \A i \in wal : Min(wal) <= i
    BY <1>1, <1>2, MinIn
  <2>2. before(Min(wal)) = {}
    <3>1. \A j \in wal : ~(j < Min(wal))
      <4>1. \A j \in wal : j \in Nat /\ Min(wal) <= j /\ Min(wal) \in Nat
        BY <1>2, <2>1
      <4> HIDE DEF IInv, b
      <4> QED BY <4>1
    <3> QED BY <3>1
  <2>3. Cardinality(before(Min(wal))) = 0
    BY <2>2, FS_EmptySet
  <2> QED BY <2>1, <2>3, BoundAssumption
<1>6. b \subseteq wal
  OBVIOUS
<1> HIDE DEF b
<1>7. op'.pc = "plan" /\ op'.drain = TRUE /\ op'.batch = b /\ op' \in OpType
  BY <1>1, <1>2, <1>6 DEF Idle, OpType, PCs
<1> QED BY <1>4, <1>5, <1>6, <1>7

LEMMA DrainStep == ASSUME IInv, Drain PROVE IInv'
<1> USE DEF IInv, ledger, publication, outside
<1>1. /\ op.pc = "idle"
      /\ UNCHANGED <<tail, wal, durable, reclaim, done, delivery, gaps, paused, through, saved,
                     pending, verified, stored, visible, disk, faults, lost>>
  BY DEF Drain
<1>2. /\ op'.pc = "plan" /\ op'.drain = TRUE /\ op' \in OpType
      /\ op'.batch # {} /\ op'.batch \subseteq wal
      /\ \A i \in wal, k \in op'.batch : i <= k => i \in op'.batch
  BY DrainTakes
<1>3. TypeInv'
  BY <1>1, <1>2 DEF TypeInv
<1>4. OrderInv'
  <2>1. durable \in Nat /\ Closed \in Int /\ durable <= Closed
    BY Bounds DEF OrderInv, TypeInv, Closed
  <2>2. \A i \in wal : i \in Nat /\ i <= durable
    BY Bounds DEF OrderInv, TypeInv
  <2>3. \A i \in wal : i <= Closed
    <3> HIDE DEF IInv
    <3> QED BY <2>1, <2>2
  <2> QED BY <1>1, <1>2, <2>2, <2>3 DEF OrderInv, Closed, Fresh, Held
<1>5. BatchInv' /\ WriteInv'
  BY <1>1, <1>2 DEF BatchInv, WriteInv, Held
<1>6. DoneInv' /\ DiskInv'
  BY <1>1 DEF DoneInv, DiskInv, Kept
<1>7. LossOnlyKnown'
  <2>1. op.batch = {}
    BY <1>1 DEF BatchInv
  <2> QED BY <1>1, <2>1 DEF LossOnlyKnown
<1> QED BY <1>3, <1>4, <1>5, <1>6, <1>7

\* A crash goes back to what is on disk, which is in order; what happened to lines that
\* will be read again is forgotten.
LEMMA CrashStep == ASSUME IInv, Crash PROVE IInv'
<1> DEFINE kept == {i \in disk.wal : i > disk.through \/ i \in stored}
           missing == Tag(Span(disk.wal \ kept), "missing")
<1>1. /\ Fails("crash") /\ op' = Idle
      /\ tail' = [cursor |-> disk.durable, open |-> FALSE]
      /\ wal' = kept /\ gaps' = disk.gaps \cup missing
      /\ paused' = (disk.paused \/ Cardinality(kept) > WalMax)
      /\ durable' = disk.durable /\ reclaim' = disk.reclaim /\ done' = disk.done
      /\ delivery' = Contiguous(disk.done, disk.reclaim)
      /\ through' = disk.through /\ pending' = disk.pending /\ verified' = disk.verified
      /\ saved' = Inline(disk.wal, disk.through)
      /\ lost' = {x \in lost : x[1] <= disk.durable}
      /\ UNCHANGED <<stored, visible, disk>>
  BY DEF Crash, outside
<1>2. /\ disk.wal \subseteq Lines /\ disk.done \subseteq Lines
      /\ disk.durable \in Positions /\ disk.reclaim \in Positions
      /\ disk.gaps \subseteq Lines \X Reasons
  BY DEF IInv, TypeInv, DiskType
<1>3. /\ disk.reclaim <= disk.durable
      /\ \A i \in disk.wal : disk.reclaim < i /\ i <= disk.durable
      /\ \A i \in disk.done : i <= disk.durable
      /\ \A i \in disk.done \cap disk.wal : i \in Kept
      /\ \A i \in 1..disk.durable : i \in disk.wal \cup Kept \cup LinesOf(disk.gaps)
  BY DEF IInv, DiskInv
<1>4. kept \subseteq disk.wal
  OBVIOUS
<1>5. /\ missing \subseteq Lines \X Reasons /\ LinesOf(gaps') = LinesOf(disk.gaps) \cup LinesOf(missing)
      /\ disk.wal \ kept \subseteq LinesOf(missing)
  <2>1. disk.wal \ kept \subseteq Lines
    BY <1>2
  <2>2. Span(disk.wal \ kept) \subseteq Lines /\ disk.wal \ kept \subseteq Span(disk.wal \ kept)
    BY <2>1, SpanLines
  <2>3. LinesOf(missing) = Span(disk.wal \ kept)
    BY LinesOfTag
  <2> HIDE DEF kept
  <2> QED BY <1>1, <2>2, <2>3, LinesOfUnion DEF Tag, Reasons
<1>6. \A i \in Kept : i <= disk.durable => i \in stored \cup LinesOf(lost')
  BY <1>1 DEF Kept, LinesOf
<1> HIDE DEF kept, missing
<1>7. op'.pc = "idle" /\ op'.batch = {} /\ op' \in OpType /\ Closed' = disk.durable
  BY <1>1, <1>2, Bounds DEF Idle, OpType, PCs, Closed
<1>8. /\ delivery' \in disk.reclaim..MaxLine
      /\ \A i \in Lines : disk.reclaim < i /\ i <= delivery' => i \in disk.done
  BY <1>1, <1>2, ContiguousLines
<1>9. delivery' \in Positions /\ delivery' <= disk.durable
  <2>1. disk.reclaim \in Nat /\ disk.durable \in Nat
    BY <1>2, Bounds
  <2>2. delivery' \in Nat /\ delivery' <= MaxLine
    BY <1>8, <2>1, Bounds
  <2>3. CASE delivery' <= disk.reclaim
    BY <1>3, <2>1, <2>2, <2>3, Bounds
  <2>4. CASE disk.reclaim < delivery'
    <3>1. delivery' \in Lines
      BY <2>1, <2>2, <2>4, Bounds
    <3> QED BY <1>3, <1>8, <2>2, <2>4, <3>1, Bounds
  <2> QED BY <2>1, <2>2, <2>3, <2>4
<1>10. TypeInv'
  <2>1. paused' \in BOOLEAN /\ faults' \in FaultType
    BY <1>1, FaultCounted DEF IInv, TypeInv, DiskType
  <2>2. tail' \in [cursor : Positions, open : BOOLEAN]
    BY <1>1, <1>2
  <2>3. /\ wal' \subseteq Lines /\ done' \subseteq Lines /\ saved' \subseteq Lines
        /\ verified' \subseteq Lines /\ through' \in Positions /\ pending' \in BOOLEAN
    BY <1>1, <1>2, <1>4 DEF IInv, TypeInv, DiskType, Inline
  <2>4. gaps' \subseteq Lines \X Reasons /\ lost' \subseteq Lines \X Losses
    BY <1>1, <1>2, <1>5 DEF IInv, TypeInv
  <2> QED BY <1>1, <1>2, <1>7, <1>9, <2>1, <2>2, <2>3, <2>4 DEF IInv, TypeInv
<1>11. OrderInv'
  BY <1>1, <1>2, <1>3, <1>4, <1>7, <1>9, Bounds DEF OrderInv
<1>12. BatchInv' /\ WriteInv'
  BY <1>7 DEF BatchInv, WriteInv, Held
<1>13. DoneInv'
  <2>1. \A i \in disk.done \cap kept : i \in Kept'
    BY <1>1, <1>3, <1>4, <1>6 DEF Kept
  <2> QED BY <1>1, <1>8, <2>1 DEF DoneInv
<1>14. DiskInv'
  BY <1>1, <1>2, <1>3, <1>6 DEF DiskInv, Kept
<1>15. LossOnlyKnown'
  <2>1. \A i \in 1..disk.durable : i \in kept \cup stored \cup LinesOf(gaps') \cup LinesOf(lost')
    BY <1>3, <1>5, <1>6, Bounds
  <2> QED BY <1>1, <1>7, <2>1 DEF LossOnlyKnown, Closed
<1> QED BY <1>10, <1>11, <1>12, <1>13, <1>14, <1>15 DEF IInv

-----------------------------------------------------------------------------
\* The theorems

LEMMA InitSound == Init => IInv
<1> SUFFICES ASSUME Init PROVE IInv
  OBVIOUS
<1> USE Bounds DEF Init, Snapshot
<1>1. op.pc = "idle" /\ op.batch = {} /\ op \in OpType /\ Closed = 0
  BY DEF Idle, OpType, PCs, Closed
<1>2. TypeInv
  <2>1. tail \in [cursor : Positions, open : BOOLEAN] /\ disk \in DiskType
    <3>1. Snapshot \in DiskType
      <4>1. /\ wal \subseteq Lines /\ done \subseteq Lines /\ verified \subseteq Lines
            /\ gaps \subseteq Lines \X Reasons
        BY Zenon
      <4>2. paused \in BOOLEAN /\ pending \in BOOLEAN
        BY Zenon
      <4>3. durable \in Positions /\ reclaim \in Positions /\ through \in Positions
        OBVIOUS
      <4> HIDE DEF Init
      <4> QED BY <4>1, <4>2, <4>3 DEF DiskType
    <3>2. tail = [cursor |-> 0, open |-> FALSE] /\ disk = Snapshot
      OBVIOUS
    <3> QED BY <3>1, <3>2
  <2>2. faults \in FaultType
    BY BoundAssumption DEF FaultType
  <2> QED BY <1>1, <2>1, <2>2 DEF TypeInv
<1>3. OrderInv /\ BatchInv /\ DoneInv /\ WriteInv /\ DiskInv /\ LossOnlyKnown
  BY <1>1 DEF OrderInv, BatchInv, DoneInv, WriteInv, DiskInv, LossOnlyKnown, Closed, Held
<1> QED BY <1>2, <1>3 DEF IInv

LEMMA StutterSound == IInv /\ UNCHANGED vars => IInv'
<1> SUFFICES ASSUME IInv, UNCHANGED vars PROVE IInv'
  OBVIOUS
<1> USE DEF IInv, vars
<1>1. TypeInv' /\ OrderInv' /\ BatchInv' /\ DoneInv'
  BY DEF TypeInv, OrderInv, BatchInv, DoneInv, Closed, Fresh, Held, Kept
<1>2. WriteInv' /\ DiskInv' /\ LossOnlyKnown'
  BY DEF WriteInv, DiskInv, LossOnlyKnown, Kept
<1> QED BY <1>1, <1>2

LEMMA NextSound == IInv /\ [Next]_vars => IInv'
<1> SUFFICES ASSUME IInv, [Next]_vars PROVE IInv'
  OBVIOUS
<1>1. CASE Ingest
  BY <1>1, AdmitStep, AppendStep, PersistBatchStep, PlanStep, PlanStaleStep, PublishStep,
     StoreStep, RecordStep, ProofStep DEF Ingest
<1>2. CASE Read
  BY <1>2, PollStep, FlushStaleStep DEF Read
<1>3. CASE Maintain
  BY <1>3, DrainStep, RollStep, EvaluateResumeStep, AutoResolveStep, PersistStep DEF Maintain
<1>4. CASE Crash
  BY <1>4, CrashStep
<1>5. CASE UNCHANGED vars
  BY <1>5, StutterSound
<1> QED BY <1>1, <1>2, <1>3, <1>4, <1>5 DEF Next

\* The invariant is inductive: positions, the batch, results and the disk.
THEOREM DeliveryInductive == Spec => []IInv
BY InitSound, NextSound, PTL DEF Spec

\* Every variable keeps its type, for files, batches and backlogs of any size.
THEOREM DeliveryTypeCorrect == Spec => []TypeOK
<1>1. IInv => TypeOK
  BY DEF IInv, TypeInv, TypeOK, OpType, DiskType, FaultType, Losses
<1> QED BY <1>1, DeliveryInductive, PTL

\* A line that was read is in the batch, the WAL or the store, or it has a gap, or it was
\* given up at one of the five places: through any number of failed steps and crashes.
THEOREM LossOnlyKnownHolds == Spec => []LossOnlyKnown
<1>1. IInv => LossOnlyKnown
  BY DEF IInv
<1> QED BY <1>1, DeliveryInductive, PTL

\* What is stored and shown to queries stays shown, whatever replaces the generations.
THEOREM ShownStaysHolds == Spec => ShownStays
<1>1. ASSUME IInv, [Next]_vars PROVE stored \cap visible \subseteq visible' \/ UNCHANGED vars
  <2>1. CASE UNCHANGED visible
    BY <2>1
  <2>2. CASE Publish
    <3>1. CASE UNCHANGED visible
      BY <3>1
    <3>2. CASE visible' = op.write \cup (IF op.replace THEN {} ELSE visible)
      <4>1. op.replace => stored \subseteq op.write
        <5>1. op.pc = "publish" /\ WriteInv
          BY <1>1, <2>2 DEF Publish, IInv
        <5> QED BY <5>1 DEF WriteInv
      <4> QED BY <3>2, <4>1
    <3> QED BY <2>2, <3>1, <3>2 DEF Publish
  <2> QED BY <1>1, <2>1, <2>2 DEF Next, Ingest, Read, Maintain, Crash, Admit, AppendToWAL,
     PersistBatch, Plan, PlanStale, Store, Record, Proof, Poll, FlushStale, Drain, Roll,
     EvaluateResume, AutoResolve, Persist, outside, vars
<1>2. ASSUME IInv, [Next]_vars PROVE [stored \cap visible \subseteq visible']_vars
  BY <1>1, <1>2
<1> QED BY <1>2, DeliveryInductive, PTL DEF Spec, ShownStays

-----------------------------------------------------------------------------
\* An outage

\* What is stored is visible, and what is visible is stored but for the moment in between.
ShownInv ==
    /\ stored \subseteq visible
    /\ visible \subseteq stored \cup (IF op.pc = "store" THEN op.expected ELSE {})
    /\ op.pc = "store" => op.expected \subseteq visible

\* An entry is stored or comes back from the persisted state; without a pending publication
\* only the batch has still to be stored, and nothing below `through` has.
EntriesInv ==
    /\ wal \subseteq stored \cup saved \cup (IF op.pc = "persist" THEN op.batch ELSE {})
    /\ ~pending /\ op.pc # "store" => wal \subseteq stored \cup op.batch
    /\ \A i \in wal : i <= through => i \in stored
    /\ \A i \in stored : i <= through
    /\ \A i \in saved : i <= durable
    /\ through <= durable

\* A generation brings in the whole WAL, and what it does not write is visible already.
GenerationInv ==
    /\ op.pc \in {"publish", "store"} => wal \cup op.batch \subseteq stored \cup op.expected
    /\ op.pc \in {"publish", "store"} => \A i \in op.expected : i <= durable
    /\ op.pc = "publish" =>
           /\ pending /\ op.write \subseteq stored \cup op.expected
           /\ op.expected \subseteq op.write \cup (IF op.replace THEN {} ELSE visible)

\* A batch from the file is the tail of the source, a drained one is the head of the WAL; what
\* goes before a delivered batch is stored.
PathInv ==
    /\ op.drain => op.pc \notin {"admit", "append", "persist"}
    /\ op.pc \in {"admit", "append", "persist", "plan"} /\ ~op.drain =>
           \A i \in op.batch : through < i /\ delivery < i
    /\ op.pc = "plan" /\ op.drain /\ ~pending => op.batch \subseteq stored
    /\ (op.pc = "plan" /\ op.drain) \/ op.pc \in {"record", "proof"} =>
           \A i \in wal, j \in op.batch : i < j => i \in op.batch \cup stored
    /\ Held => op.batch \subseteq wal \cup stored
    /\ op.pc \in {"record", "proof"} => op.batch \subseteq stored

\* Results are recorded for stored lines, delivery gaps cover lines that are not lost.
TraceInv ==
    /\ done \cap wal \subseteq stored
    /\ \A x \in gaps : x[2] = "undelivered" => x[1] \in wal \cup stored
    /\ \A x \in lost : x[2] \in {"refused", "healed"}

Intact == ShownInv /\ EntriesInv /\ GenerationInv /\ PathInv /\ TraceInv

OutageInv == IInv /\ (faults.outage => Intact)

\* A reclaim that forgets stored lines only.
LEMMA SettledIntact ==
    ASSUME IInv, Intact, NEW r \in Positions, Settle(r, {}), \A i \in wal : i <= r => i \in stored
    PROVE  /\ reclaim' = r /\ wal' \subseteq wal /\ wal \subseteq wal' \cup stored
           /\ \A x \in gaps' : x[2] = "undelivered" => x[1] \in wal' \cup stored
           /\ \A x \in lost' : x[2] \in {"refused", "healed"}
<1>1. /\ reclaim' = r /\ wal' = {i \in wal : i > r} /\ gaps' \subseteq gaps
      /\ lost' \subseteq lost \cup (Lines \X {"healed"})
  BY Settled DEF IInv
<1>2. \A i \in wal : i \in wal' \cup stored
  BY <1>1, Bounds DEF IInv, TypeInv
<1>3. \A x \in gaps : x[2] = "undelivered" => x[1] \in wal \cup stored
  BY DEF Intact, TraceInv
<1>4. \A x \in lost : x[2] \in {"refused", "healed"}
  BY DEF Intact, TraceInv
<1> HIDE DEF Intact
<1> QED BY <1>1, <1>2, <1>3, <1>4

\* Reading: the new batch is ahead of everything durable.
LEMMA ReadIntact == ASSUME IInv, Intact, Read PROVE Intact'
<1>1. /\ op.pc = "idle" /\ op.batch = {}
      /\ UNCHANGED <<wal, durable, delivery, done, gaps, through, saved, pending, stored, visible, lost>>
  BY DEF Read, Poll, FlushStale, IInv, BatchInv, ledger, publication, outside
<1>2. op'.pc \in {"idle", "admit"} /\ op'.drain = FALSE
  BY DEF Read, Poll, FlushStale, Emit, Idle
<1>3. \A i \in op'.batch : i \in Nat /\ durable < i
  <2>1. IInv'
    BY PollStep, FlushStaleStep DEF Read
  <2>2. op'.pc = "admit" => \A i \in op'.batch : durable < i
    BY <1>1, <2>1 DEF IInv, OrderInv, Fresh
  <2>3. op'.pc = "idle" => op'.batch = {}
    BY <2>1 DEF IInv, BatchInv
  <2>4. op'.batch \subseteq Nat
    BY <2>1, Bounds DEF IInv, TypeInv, OpType
  <2> QED BY <1>2, <2>2, <2>3, <2>4
<1>4. \A i \in op'.batch : through < i /\ delivery < i
  BY <1>3, Bounds DEF IInv, OrderInv, TypeInv, Intact, EntriesInv
<1>5. ShownInv' /\ EntriesInv' /\ GenerationInv' /\ TraceInv'
  BY <1>1, <1>2 DEF Intact, ShownInv, EntriesInv, GenerationInv, TraceInv
<1>6. PathInv'
  BY <1>1, <1>2, <1>4 DEF PathInv, Held
<1> QED BY <1>5, <1>6 DEF Intact

\* A batch that is refused or rejected was never in the WAL.
LEMMA FreshDropped ==
    ASSUME IInv, Intact, Fresh, op' = Idle, \A x \in gaps' : x[2] = "undelivered" => x \in gaps,
           \A x \in lost' : x \in lost \/ x[2] = "refused",
           UNCHANGED <<wal, durable, delivery, done, through, saved, pending, stored, visible>>
    PROVE  Intact'
<1>1. op'.pc = "idle" /\ op'.batch = {} /\ op'.drain = FALSE
  BY DEF Idle
<1>2. wal \cap op.batch = {}
  BY Bounds DEF IInv, OrderInv, TypeInv, OpType
<1>3. ShownInv' /\ GenerationInv' /\ PathInv' /\ TraceInv'
  BY <1>1 DEF Intact, Fresh, ShownInv, GenerationInv, PathInv, TraceInv, Held
<1>4. EntriesInv'
  BY <1>1, <1>2 DEF Intact, Fresh, EntriesInv
<1> QED BY <1>3, <1>4 DEF Intact

LEMMA AdmitIntact == ASSUME IInv, Intact, Admit PROVE Intact'
<1> USE DEF Admit, publication, outside
<1>1. CASE op' = Idle /\ lost' = lost \cup Tag(op.batch, "refused") /\ UNCHANGED <<wal, gaps>>
  BY <1>1, FreshDropped DEF Fresh, Tag
<1>2. CASE Go("append") /\ Settle(reclaim, {})
  <2>1. op'.pc = "append" /\ op'.batch = op.batch /\ op'.drain = op.drain
    BY <1>2 DEF Go, IInv, TypeInv, OpType
  <2>2. wal' = wal
    BY <1>2, SettledInPlace
  <2>3. \A i \in wal : ~(i <= reclaim)
    BY Bounds DEF IInv, OrderInv, TypeInv
  <2>4. /\ \A x \in gaps' : x[2] = "undelivered" => x[1] \in wal' \cup stored
        /\ \A x \in lost' : x[2] \in {"refused", "healed"}
    BY <1>2, <2>3, SettledIntact DEF IInv, TypeInv
  <2>5. ShownInv' /\ EntriesInv' /\ GenerationInv'
    BY <2>1, <2>2 DEF Intact, ShownInv, EntriesInv, GenerationInv
  <2>6. PathInv' /\ TraceInv'
    BY <2>1, <2>2, <2>4 DEF Intact, PathInv, TraceInv, Held
  <2> QED BY <2>5, <2>6 DEF Intact
<1> QED BY <1>1, <1>2

LEMMA AppendIntact == ASSUME IInv, Intact, AppendToWAL PROVE Intact'
<1> USE DEF AppendToWAL, publication, outside
<1>1. CASE op' = Idle /\ gaps' = gaps \cup Tag(op.batch, "rejected") /\ UNCHANGED <<wal, durable>>
  BY <1>1, FreshDropped DEF Fresh, Tag
<1>2. CASE /\ Go("persist") /\ wal' = wal \cup op.batch
           /\ durable' = Max({durable} \cup op.batch) /\ UNCHANGED gaps
  <2>1. op'.pc = "persist" /\ op'.batch = op.batch /\ op'.drain = op.drain
    BY <1>2 DEF Go, IInv, TypeInv, OpType
  <2>2. /\ durable' \in Positions /\ durable <= durable' /\ op.batch \subseteq Lines
        /\ \A i \in op.batch : durable < i
    <3>1. {durable} \cup op.batch \subseteq Positions /\ op.batch \subseteq Lines
      BY Bounds DEF IInv, TypeInv, OpType
    <3>2. durable' \in Positions /\ durable <= durable'
      BY <1>2, <3>1, MaxOfPositions
    <3> QED BY <3>1, <3>2 DEF IInv, OrderInv, Fresh
  <2>3. ShownInv' /\ GenerationInv'
    BY <2>1 DEF Intact, ShownInv, GenerationInv
  <2>4. EntriesInv'
    <3>1. /\ through <= durable /\ \A i \in saved : i <= durable
          /\ \A i \in wal : i <= through => i \in stored
          /\ \A i \in stored : i <= through
          /\ wal \subseteq stored \cup saved
          /\ ~pending => wal \subseteq stored \cup op.batch
      BY DEF Intact, EntriesInv
    <3>2. /\ durable \in Nat /\ durable' \in Nat /\ through \in Nat /\ saved \subseteq Nat
          /\ op.batch \subseteq Nat
      BY <2>2, Bounds DEF IInv, TypeInv
    <3>3. through <= durable' /\ \A i \in saved : i <= durable'
      BY <2>2, <3>1, <3>2
    <3>4. \A i \in op.batch : ~(i <= through)
      BY <2>2, <3>1, <3>2
    <3> QED BY <1>2, <2>1, <3>1, <3>3, <3>4 DEF EntriesInv
  <2>5. PathInv'
    BY <1>2, <2>1 DEF Intact, PathInv, Held
  <2>6. TraceInv'
    <3>1. done \cap op.batch = {}
      BY <2>2, Bounds DEF IInv, OrderInv, TypeInv
    <3> QED BY <1>2, <3>1 DEF Intact, TraceInv
  <2> QED BY <2>3, <2>4, <2>5, <2>6 DEF Intact
<1> QED BY <1>1, <1>2

\* A failed insertion leaves the source pending and its lines in the WAL or the store.
LEMMA PublishIntact == ASSUME IInv, Intact, Publish PROVE Intact'
<1>1. op.pc = "publish" /\ pending /\ Held /\ op.batch \subseteq wal \cup stored
  BY DEF Publish, Intact, GenerationInv, PathInv, Held
<1>2. CASE DeliveryFails /\ UNCHANGED <<visible, pending>>
  <2>1. op'.pc = "idle" /\ op'.batch = {} /\ op'.drain = FALSE
    BY <1>2 DEF DeliveryFails, Idle
  <2>2. \A x \in gaps' : x \in gaps \/ x[1] \in op.batch
    BY <1>2 DEF DeliveryFails, Tag
  <2>3. ShownInv' /\ EntriesInv' /\ GenerationInv' /\ PathInv'
    BY <1>1, <1>2, <2>1 DEF Publish, Intact, ShownInv, EntriesInv, GenerationInv, PathInv, Held
  <2>4. TraceInv'
    BY <1>1, <2>2 DEF Publish, Intact, TraceInv
  <2> QED BY <2>3, <2>4 DEF Intact
<1>3. CASE /\ Go("store") /\ visible' = op.write \cup (IF op.replace THEN {} ELSE visible)
           /\ pending' = FALSE /\ UNCHANGED gaps
  <2>1. /\ op'.pc = "store" /\ op'.batch = op.batch /\ op'.drain = op.drain
        /\ op'.expected = op.expected
    BY <1>3 DEF Go, IInv, TypeInv, OpType
  <2>2. ShownInv'
    <3>1. /\ stored \subseteq visible /\ visible \subseteq stored
          /\ op.write \subseteq stored \cup op.expected
          /\ op.expected \subseteq op.write \cup (IF op.replace THEN {} ELSE visible)
          /\ op.replace => stored \subseteq op.write
      BY <1>1 DEF Intact, ShownInv, GenerationInv, IInv, WriteInv
    <3> QED BY <1>3, <2>1, <3>1 DEF Publish, ShownInv
  <2>3. EntriesInv' /\ GenerationInv' /\ PathInv' /\ TraceInv'
    BY <1>1, <1>3, <2>1
    DEF Publish, Intact, EntriesInv, GenerationInv, PathInv, TraceInv, Held
  <2> QED BY <2>2, <2>3 DEF Intact
<1> QED BY <1>2, <1>3 DEF Publish

\* Storing a generation stores every entry of the WAL and every line of the batch.
LEMMA StoreIntact == ASSUME IInv, Intact, Store, faults'.outage PROVE Intact'
<1>1. /\ op.pc = "store" /\ Go("record") /\ stored' = stored \cup op.expected
      /\ through' = Max({through} \cup op.expected)
      /\ gaps' \subseteq gaps /\ lost' = lost \cup Tag(op.batch \ stored', "uncovered")
      /\ UNCHANGED <<wal, durable, done, delivery, saved, pending, visible>>
  BY FaultCounted DEF Store, Resolve, IInv
<1>2. op'.pc = "record" /\ op'.batch = op.batch
  BY <1>1 DEF Go, IInv, TypeInv, OpType
<1>3. /\ wal \cup op.batch \subseteq stored' /\ stored' \subseteq visible /\ visible \subseteq stored'
      /\ \A i \in op.expected : i <= durable
  BY <1>1 DEF Intact, ShownInv, GenerationInv
<1>4. lost' = lost
  BY <1>1, <1>3 DEF Tag
<1>5. /\ through' <= durable /\ \A i \in stored' : i <= through'
  <2>1. {through} \cup op.expected \subseteq Positions /\ stored \subseteq Nat /\ durable \in Nat
    BY Bounds DEF IInv, TypeInv, OpType
  <2>2. through' \in {through} \cup op.expected /\ \A i \in {through} \cup op.expected : through' >= i
    BY <1>1, <2>1, MaxOfPositions
  <2>3. through <= durable /\ \A i \in stored : i <= through
    BY DEF Intact, EntriesInv
  <2>4. through \in Nat /\ through' \in Nat /\ op.expected \subseteq Nat
    BY <2>1, <2>2, Bounds
  <2> QED BY <1>1, <1>3, <2>1, <2>2, <2>3, <2>4
<1>6. ShownInv' /\ EntriesInv' /\ GenerationInv'
  BY <1>1, <1>2, <1>3, <1>5 DEF Intact, ShownInv, EntriesInv, GenerationInv
<1>7. PathInv'
  BY <1>1, <1>2, <1>3 DEF PathInv, Held
<1>8. TraceInv'
  BY <1>1, <1>3, <1>4 DEF Intact, TraceInv
<1> QED BY <1>6, <1>7, <1>8 DEF Intact

\* What a batch needs of the WAL, the store and the results.
LEMMA RecordIntact == ASSUME IInv, Intact, Record PROVE Intact'
<1> USE DEF Record, publication, outside
<1>1. op.pc = "record" /\ op'.pc = "proof" /\ op'.batch = op.batch /\ op'.drain = op.drain
  BY DEF Go, IInv, TypeInv, OpType
<1>2. wal' = wal
  BY SettledInPlace
<1>3. \A i \in wal : ~(i <= reclaim)
  BY Bounds DEF IInv, OrderInv, TypeInv
<1>4. /\ \A x \in gaps' : x[2] = "undelivered" => x[1] \in wal' \cup stored
      /\ \A x \in lost' : x[2] \in {"refused", "healed"}
  BY <1>3, SettledIntact DEF IInv, TypeInv
<1>5. done' \cap wal \subseteq stored
  <2>1. op.batch \subseteq stored /\ done \cap wal \subseteq stored /\ op.batch \subseteq Lines
    BY <1>1 DEF Intact, PathInv, TraceInv, IInv, TypeInv, OpType
  <2>2. \A i \in Span(op.batch) : i \in wal => i \in op.batch
    BY <2>1, SpanLines DEF IInv, BatchInv
  <2> QED BY <2>1, <2>2
<1>6. ShownInv' /\ EntriesInv' /\ GenerationInv'
  BY <1>1, <1>2 DEF Intact, ShownInv, EntriesInv, GenerationInv
<1>7. PathInv' /\ TraceInv'
  BY <1>1, <1>2, <1>4, <1>5 DEF Intact, PathInv, TraceInv, Held
<1> QED BY <1>6, <1>7 DEF Intact

\* The WAL has nothing in front of a delivered batch that is not stored, so the release
\* leaps over nothing.
LEMMA ProofIntact == ASSUME IInv, Intact, Proof PROVE Intact'
<1> DEFINE r == Max({reclaim, delivery} \cup op.batch)
           skipped == {i \in wal : i < Min(op.batch) /\ i \notin done /\ i > delivery}
           given == Tag(skipped \ (stored \cup LinesOf(gaps)), "leapt")
<1>1. /\ op.pc = "proof" /\ op' = Idle /\ Settle(r, given) /\ done' = {i \in done : i > r}
      /\ UNCHANGED <<durable, delivery, through, saved, pending, stored, visible>>
  BY DEF Proof, publication, outside
<1>2. /\ op.batch \subseteq Lines /\ op.batch # {} /\ op.batch \subseteq stored
      /\ \A i \in wal, j \in op.batch : i < j => i \in op.batch \cup stored
  BY <1>1 DEF IInv, TypeInv, OpType, BatchInv, Intact, PathInv
<1>3. Min(op.batch) \in op.batch
  <2>1. op.batch \subseteq Nat
    BY <1>2, Bounds
  <2> QED BY <1>2, <2>1, MinIn
<1>4. given = {}
  <2>1. skipped \subseteq stored
    BY <1>2, <1>3
  <2> QED BY <2>1 DEF Tag
<1>5. r \in {reclaim, delivery} \cup op.batch /\ r \in Positions
  <2>1. {reclaim, delivery} \cup op.batch \subseteq Positions
    BY <1>2, Bounds DEF IInv, TypeInv
  <2> QED BY <2>1, MaxOfPositions
<1> HIDE DEF r, given, skipped
<1>6. \A i \in wal : i <= r => i \in stored
  <2> SUFFICES ASSUME NEW i \in wal, i <= r PROVE i \in stored
    OBVIOUS
  <2>1. /\ i \in Lines /\ i \in Nat /\ reclaim \in Nat /\ delivery \in Nat /\ reclaim < i
        /\ \A j \in op.batch : j \in Nat
    BY <1>2, Bounds DEF IInv, TypeInv, OrderInv
  <2>2. CASE i <= delivery
    <3>1. i \in done
      BY <2>1, <2>2 DEF IInv, DoneInv
    <3> QED BY <3>1 DEF Intact, TraceInv
  <2>3. CASE r \in op.batch
    BY <1>2, <2>1, <2>3
  <2> QED BY <1>5, <2>1, <2>2, <2>3
<1>7. /\ wal' \subseteq wal /\ wal \subseteq wal' \cup stored
      /\ \A x \in gaps' : x[2] = "undelivered" => x[1] \in wal' \cup stored
      /\ \A x \in lost' : x[2] \in {"refused", "healed"}
  BY <1>1, <1>4, <1>5, <1>6, SettledIntact
<1>8. op'.pc = "idle" /\ op'.batch = {} /\ op'.drain = FALSE
  BY <1>1 DEF Idle
<1>9. ShownInv' /\ EntriesInv' /\ GenerationInv'
  BY <1>1, <1>2, <1>7, <1>8 DEF Intact, ShownInv, EntriesInv, GenerationInv
<1>10. PathInv' /\ TraceInv'
  BY <1>1, <1>7, <1>8 DEF Intact, PathInv, TraceInv, Held
<1> QED BY <1>9, <1>10 DEF Intact

\* What is persisted of the WAL brings back every entry that is not stored.
LEMMA InlineIntact ==
    ASSUME IInv, Intact, saved' = Inline(wal, through)
    PROVE  wal \subseteq stored \cup saved' /\ \A i \in saved' : i <= durable
<1>1. \A i \in wal : i <= through => i \in stored
  BY DEF Intact, EntriesInv
<1>2. \A i \in wal : i \in Nat /\ i <= durable
  BY Bounds DEF IInv, OrderInv, TypeInv
<1>3. through \in Nat /\ saved' = {i \in wal : i > through}
  BY Bounds DEF IInv, TypeInv, Inline
<1> QED BY <1>1, <1>2, <1>3

LEMMA PersistBatchIntact == ASSUME IInv, Intact, PersistBatch, faults'.outage PROVE Intact'
<1>1. /\ op.pc = "persist" /\ Go("plan") /\ saved' = Inline(wal, through)
      /\ UNCHANGED <<wal, durable, delivery, done, gaps, through, pending, stored, visible, lost>>
  BY FaultCounted DEF PersistBatch, IInv, ledger, outside
<1>2. op'.pc = "plan" /\ op'.batch = op.batch /\ op'.drain = op.drain
  BY <1>1 DEF Go, IInv, TypeInv, OpType
<1>3. ~op.drain
  BY <1>1 DEF Intact, PathInv
<1>4. wal \subseteq stored \cup saved' /\ \A i \in saved' : i <= durable
  BY <1>1, InlineIntact
<1>5. ShownInv' /\ EntriesInv' /\ GenerationInv'
  BY <1>1, <1>2, <1>4 DEF Intact, ShownInv, EntriesInv, GenerationInv
<1>6. PathInv' /\ TraceInv'
  BY <1>1, <1>2, <1>3 DEF Intact, PathInv, TraceInv, Held
<1> QED BY <1>5, <1>6 DEF Intact

LEMMA PersistIntact == ASSUME IInv, Intact, Persist PROVE Intact'
<1>1. wal \subseteq stored \cup saved' /\ \A i \in saved' : i <= durable
  BY InlineIntact DEF Persist
<1>2. EntriesInv'
  BY <1>1 DEF Persist, Intact, EntriesInv, ledger, outside
<1> QED BY <1>2 DEF Persist, Intact, ShownInv, GenerationInv, PathInv, TraceInv, Held, ledger, outside

\* What a delivery decides.  A batch from the file takes the fast path unless a publication is
\* pending; a drained one without a pending publication is stored already.
LEMMA PlanIntact == ASSUME IInv, Intact, NEW compact \in BOOLEAN, Plan(compact) PROVE Intact'
<1> DEFINE seen == IF Fast THEN {} ELSE stored
           replace == (pending /\ ~Confirmed) \/ compact
<1>1. /\ op.pc = "plan" /\ op.batch \subseteq Lines /\ op.batch # {}
      /\ op.batch \subseteq wal \cup stored
      /\ UNCHANGED <<wal, durable, delivery, done, through, saved, stored, visible, lost>>
  BY DEF Plan, IInv, TypeInv, OpType, BatchInv, Intact, PathInv, Held, outside
<1>2. /\ stored \subseteq visible /\ visible \subseteq stored
      /\ wal \subseteq stored \cup saved /\ \A i \in stored : i <= through
      /\ ~pending => wal \subseteq stored \cup op.batch
  BY <1>1 DEF Intact, ShownInv, EntriesInv
<1>3. Min(op.batch) \in op.batch
  <2>1. op.batch \subseteq Nat
    BY <1>1, Bounds
  <2> QED BY <1>1, <2>1, MinIn
<1>4. /\ through \in Nat /\ delivery \in Nat /\ \A i \in op.batch : i \in Nat
      /\ pending \in BOOLEAN /\ op.drain \in BOOLEAN
  BY <1>1, Bounds DEF IInv, TypeInv, OpType
<1>5. op.drain /\ ~pending => op.batch \subseteq stored
  BY <1>1 DEF Intact, PathInv
<1>6. ~op.drain => \A i \in op.batch : through < i /\ delivery < i
  BY <1>1 DEF Intact, PathInv
<1>7. ~op.drain /\ ~pending => Fast
  BY <1>3, <1>4, <1>6 DEF Fast
<1>8. ~op.drain => ~(op.batch \subseteq stored)
  BY <1>1, <1>2, <1>3, <1>4, <1>6
<1>9. CASE /\ op.batch \subseteq seen /\ Go("record") /\ pending' = (pending /\ ~Confirmed)
           /\ gaps' = Resolve(op.batch)
  <2>1. op'.pc = "record" /\ op'.batch = op.batch
    BY <1>9 DEF Go, IInv, TypeInv, OpType
  <2>2. op.batch \subseteq stored /\ gaps' \subseteq gaps
    BY <1>9 DEF Resolve
  <2>3. op.drain
    BY <1>8, <2>2
  <2>4. \A i \in wal, j \in op.batch : i < j => i \in op.batch \cup stored
    BY <1>1, <2>3 DEF Intact, PathInv
  <2>5. ~pending' => wal \subseteq stored \cup op.batch
    <3>1. Confirmed => wal \subseteq stored
      BY <1>2 DEF Confirmed, Canonical
    <3> QED BY <1>2, <1>9, <3>1
  <2>6. ShownInv' /\ EntriesInv' /\ GenerationInv'
    BY <1>1, <2>1, <2>5 DEF Intact, ShownInv, EntriesInv, GenerationInv
  <2>7. PathInv' /\ TraceInv'
    BY <1>1, <2>1, <2>2, <2>4 DEF Intact, PathInv, TraceInv, Held
  <2> QED BY <2>6, <2>7 DEF Intact
<1>10. CASE /\ ~(op.batch \subseteq seen) /\ op' = Write(seen, replace, Canonical)
            /\ pending' = TRUE /\ UNCHANGED gaps
  <2>1. /\ op'.pc = "publish" /\ op'.batch = op.batch /\ op'.replace = replace
        /\ op'.write = IF replace THEN Canonical ELSE op.batch \ seen
        /\ op'.expected = IF Fast /\ ~replace THEN op.batch \ seen ELSE Canonical
    BY <1>10 DEF Write, IInv, TypeInv, OpType
  <2>2. wal \cup op.batch \subseteq Canonical /\ stored \subseteq Canonical
    BY <1>1, <1>2 DEF Canonical
  <2>3. Fast => ~pending /\ seen = {}
    BY DEF Fast
  <2>4. ~Fast => pending
    BY <1>5, <1>7, <1>10
  <2>5. Confirmed => visible = Canonical
    BY DEF Confirmed
  <2>6. wal \cup op.batch \subseteq stored \cup op'.expected
    BY <1>2, <2>1, <2>2, <2>3
  <2>7. op'.write \subseteq stored \cup op'.expected
    BY <2>1, <2>2, <1>1
  <2>8. op'.expected \subseteq op'.write \cup (IF op'.replace THEN {} ELSE visible)
    BY <2>1, <2>4, <2>5
  <2>9. \A i \in op'.expected : i <= durable
    <3>1. \A i \in op.batch : i <= durable
      BY <1>1 DEF IInv, OrderInv, Held
    <3>2. \A i \in Canonical : i <= durable
      <4>1. through <= durable /\ \A i \in saved : i <= durable
        BY DEF Intact, EntriesInv
      <4>2. durable \in Nat /\ \A i \in stored : i \in Nat
        BY Bounds DEF IInv, TypeInv
      <4> QED BY <1>2, <1>4, <4>1, <4>2 DEF Canonical
    <3> QED BY <2>1, <3>1, <3>2
  <2> HIDE DEF seen, replace
  <2>10. ShownInv' /\ EntriesInv'
    BY <1>1, <1>10, <2>1 DEF Intact, ShownInv, EntriesInv
  <2>11. GenerationInv'
    BY <1>1, <1>10, <2>1, <2>6, <2>7, <2>8, <2>9 DEF GenerationInv
  <2>12. PathInv' /\ TraceInv'
    BY <1>1, <1>10, <2>1 DEF Intact, PathInv, TraceInv, Held
  <2> QED BY <2>10, <2>11, <2>12 DEF Intact
<1> QED BY <1>9, <1>10 DEF Plan

\* A drain takes the first entries: without a pending publication these are stored.
LEMMA DrainIntact == ASSUME IInv, Intact, Drain PROVE Intact'
<1>1. /\ op.pc = "idle" /\ op.batch = {}
      /\ UNCHANGED <<wal, durable, delivery, done, gaps, through, saved, pending, stored, visible, lost>>
  BY DEF Drain, IInv, BatchInv, ledger, publication, outside
<1>2. /\ op'.pc = "plan" /\ op'.drain = TRUE /\ op'.batch \subseteq wal
      /\ \A i \in wal, k \in op'.batch : i <= k => i \in op'.batch
  BY DrainTakes
<1>3. \A i \in wal, k \in op'.batch : i < k => i \in op'.batch
  <2>1. \A i \in wal : i \in Nat
    BY Bounds DEF IInv, TypeInv
  <2> QED BY <1>2, <2>1
<1>4. ~pending => op'.batch \subseteq stored
  BY <1>1, <1>2 DEF Intact, EntriesInv
<1>5. ShownInv' /\ EntriesInv' /\ GenerationInv'
  BY <1>1, <1>2 DEF Intact, ShownInv, EntriesInv, GenerationInv
<1>6. PathInv' /\ TraceInv'
  BY <1>1, <1>2, <1>3, <1>4 DEF Intact, PathInv, TraceInv, Held
<1> QED BY <1>5, <1>6 DEF Intact

LEMMA RollIntact == ASSUME IInv, Intact, Roll PROVE Intact'
<1> USE DEF Roll, publication, outside
<1>1. \A i \in wal : i <= delivery => i \in stored
  BY DEF IInv, OrderInv, DoneInv, TypeInv, Intact, TraceInv
<1>2. /\ wal' \subseteq wal /\ wal \subseteq wal' \cup stored
      /\ \A x \in gaps' : x[2] = "undelivered" => x[1] \in wal' \cup stored
      /\ \A x \in lost' : x[2] \in {"refused", "healed"}
  BY <1>1, SettledIntact DEF IInv, TypeInv
<1>3. ShownInv' /\ EntriesInv' /\ GenerationInv'
  BY <1>2 DEF Intact, ShownInv, EntriesInv, GenerationInv
<1>4. PathInv' /\ TraceInv'
  BY <1>2 DEF Intact, PathInv, TraceInv, Held
<1> QED BY <1>3, <1>4 DEF Intact

LEMMA EvaluateResumeIntact == ASSUME IInv, Intact, EvaluateResume PROVE Intact'
<1> USE DEF EvaluateResume, publication, outside
<1>1. \A i \in wal : ~(i <= reclaim)
  BY Bounds DEF IInv, OrderInv, TypeInv
<1>2. /\ wal' = wal
      /\ \A x \in gaps' : x[2] = "undelivered" => x[1] \in wal' \cup stored
      /\ \A x \in lost' : x[2] \in {"refused", "healed"}
  BY <1>1, SettledIntact, SettledInPlace DEF IInv, TypeInv
<1>3. ShownInv' /\ EntriesInv' /\ GenerationInv'
  BY <1>2 DEF Intact, ShownInv, EntriesInv, GenerationInv
<1>4. PathInv' /\ TraceInv'
  BY <1>2 DEF Intact, PathInv, TraceInv, Held
<1> QED BY <1>3, <1>4 DEF Intact

\* A delivery gap that is closed is one of a line that the WAL or the store has.
LEMMA AutoResolveIntact == ASSUME IInv, Intact, AutoResolve PROVE Intact'
<1> USE DEF AutoResolve, publication, outside
<1>1. gaps' \subseteq gaps /\ LinesOf(gaps \ gaps') \subseteq wal \cup stored
  BY DEF Resolve, Tag, LinesOf, Intact, TraceInv
<1>2. lost' = lost
  BY <1>1 DEF Tag
<1>3. ShownInv' /\ EntriesInv' /\ GenerationInv'
  BY DEF Intact, ShownInv, EntriesInv, GenerationInv
<1>4. PathInv' /\ TraceInv'
  BY <1>1, <1>2 DEF Intact, PathInv, TraceInv, Held
<1> QED BY <1>3, <1>4 DEF Intact

\* Every step that leaves the outage the only trouble so far.
LEMMA OutageStep == ASSUME IInv, Intact, [Next]_vars, faults'.outage PROVE Intact'
<1>1. CASE Ingest
  <2>1. ~PlanStale
    BY FaultCounted DEF PlanStale, IInv
  <2> QED BY <1>1, <2>1, AdmitIntact, AppendIntact, PersistBatchIntact, PlanIntact, PublishIntact,
     StoreIntact, RecordIntact, ProofIntact DEF Ingest
<1>2. CASE Read
  BY <1>2, ReadIntact
<1>3. CASE Maintain
  BY <1>3, DrainIntact, RollIntact, EvaluateResumeIntact, AutoResolveIntact, PersistIntact
  DEF Maintain
<1>4. CASE Crash
  BY <1>4, FaultCounted DEF Crash, IInv
<1>5. CASE UNCHANGED vars
  BY <1>5 DEF vars, Intact, ShownInv, EntriesInv, GenerationInv, PathInv, TraceInv, Held
<1> QED BY <1>1, <1>2, <1>3, <1>4, <1>5 DEF Next

\* An outage that is the only trouble now was so before.
LEMMA OutageGoesOn == ASSUME IInv, [Next]_vars, faults'.outage PROVE faults.outage
<1>1. CASE UNCHANGED faults
  BY <1>1
<1>2. ASSUME NEW kind, Fails(kind) PROVE faults.outage
  BY <1>2, FaultCounted DEF IInv
<1> QED BY <1>1, <1>2 DEF Next, Ingest, Read, Maintain, Crash, Admit, AppendToWAL, PersistBatch,
   Plan, PlanStale, Publish, Store, Record, Proof, Poll, FlushStale, Drain, Roll, EvaluateResume,
   AutoResolve, Persist, vars

\* What the WAL has forgotten is stored, or a gap or a loss says where it went.
LEMMA IntactReclaim ==
    ASSUME IInv, Intact
    PROVE  \A i \in 1..reclaim : i \in stored \cup LinesOf(gaps) \cup LinesOf(lost)
<1> SUFFICES ASSUME NEW i \in 1..reclaim PROVE i \in stored \cup LinesOf(gaps) \cup LinesOf(lost)
  OBVIOUS
<1>1. i \in 1..Closed /\ i <= reclaim /\ i <= durable /\ i \in Nat /\ reclaim \in Nat /\ durable \in Nat
  BY Bounds DEF IInv, OrderInv, TypeInv, Closed
<1>2. i \in op.batch \cup wal \cup stored \cup LinesOf(gaps) \cup LinesOf(lost)
  BY <1>1 DEF IInv, LossOnlyKnown, Closed
<1>3. i \notin wal
  BY <1>1 DEF IInv, OrderInv
<1>4. i \in op.batch => Held
  BY <1>1 DEF IInv, OrderInv, BatchInv, TypeInv, OpType, PCs, Fresh, Held
<1> QED BY <1>2, <1>3, <1>4 DEF Intact, PathInv

\* While failed insertions and failed samples are the only faults, all that the WAL has
\* accepted gets into the store and into view, for any number of them in any order.
THEOREM OutageIsSurvivedHolds == Spec => []OutageIsSurvived
<1>1. Init => OutageInv
  <2> SUFFICES ASSUME Init PROVE Intact
    BY InitSound DEF OutageInv
  <2>1. op.pc = "idle" /\ op.batch = {}
    BY DEF Init, Idle
  <2> QED BY <2>1
       DEF Init, Intact, ShownInv, EntriesInv, GenerationInv, PathInv, TraceInv, Held
<1>2. OutageInv /\ [Next]_vars => OutageInv'
  BY NextSound, OutageStep, OutageGoesOn DEF OutageInv
<1>3. OutageInv => OutageIsSurvived
  BY IntactReclaim DEF OutageInv, OutageIsSurvived, Intact, ShownInv, TraceInv
<1> QED BY <1>1, <1>2, <1>3, PTL DEF Spec
=============================================================================
