----------------------------- MODULE LogDelivery -----------------------------
(***************************************************************************)
(* One log source of a Worker (internal/worker/logs): a file is tailed,    *)
(* its lines become events, and each event goes into the write-ahead log   *)
(* (acquire/wal.go), to disk, to VictoriaLogs and to the event store       *)
(* (ingest/runtime.go), after which the WAL may forget it.  The positions  *)
(* of all that are in the ledger (ledger/ledger.go).                       *)
(*                                                                         *)
(* A batch takes its steps under the pipeline's lock, one batch at a time; *)
(* the maintenance loop reclaims, resumes a paused source and closes gaps  *)
(* beside it; the ledger and the WAL reach the disk when the state is      *)
(* persisted.  What can fail at each step is a fault of its own.           *)
(*                                                                         *)
(* The file is the lines 1..MaxLine, and line i is also the position after *)
(* it: a position n stands for the lines 1..n, a gap for its set of lines. *)
(***************************************************************************)
EXTENDS Integers, FiniteSets, FiniteSetsExt

CONSTANTS
    MaxLine,    \* bound: lines in the file
    BatchMax,   \* bound: lines read by one poll
    WalMax,     \* events in the WAL above which the source is paused
    DrainMax,   \* events delivered by one drain
    FaultKinds, \* the faults looked at
    MaxFaults   \* bound: faults, of whatever kinds

Kinds == {"sample", "defer", "stale", "insert", "append", "crash"}

ASSUME FaultAssumption == FaultKinds \subseteq Kinds
ASSUME BoundAssumption == {MaxLine, BatchMax, WalMax, DrainMax} \subseteq Nat \ {0} /\ MaxFaults \in Nat

VARIABLES
    tail,      \* FileTailer's cursor, and whether its last line is still open
    op,        \* the batch under the pipeline's lock and its next step
    wal,       \* lines with an entry in the WAL
    durable, reclaim,  \* positions of the ledger
    done,      \* lines above reclaim with a recorded request result (DeliveryBatches)
    delivery,  \* position of the ledger, derived from done when a result is recorded
    gaps,      \* unresolved gaps of the ledger, as <<line, reason>>
    paused,    \* acquisition is paused for its backlog
    through,   \* persistedSource.EventsStoredThrough
    saved,     \* persistedSource.WAL: the inline entries when the state was last planned
    pending,   \* persistedSource.PublicationPending
    verified,  \* persistedSource.VerifiedRuns: lines read back from VictoriaLogs field by field
    stored,    \* lines in the event store
    visible,   \* lines that the published generations in VictoriaLogs show
    disk,      \* what was persisted last
    faults,    \* counter for the bound, and history: only outages so far
    lost       \* history: <<line, how>>, lines the code gives up without a gap

ledger == <<durable, reclaim, done, delivery, gaps, paused>>
outside == <<stored, visible>>
publication == <<through, saved, pending, verified>>
vars == <<tail, op, wal, durable, reclaim, done, delivery, gaps, paused, through, saved,
          pending, verified, stored, visible, disk, faults, lost>>

Lines == 1..MaxLine
Positions == 0..MaxLine
PCs == {"idle", "admit", "append", "persist", "plan", "publish", "store", "record", "proof"}
Reasons == {"rejected", "undelivered", "missing"}

\* The type of each variable.
TypeOK ==
    /\ tail \in [cursor : Positions, open : BOOLEAN]
    /\ op \in [pc : PCs, batch : SUBSET Lines, drain : BOOLEAN, write : SUBSET Lines,
               expected : SUBSET Lines, replace : BOOLEAN]
    /\ {wal, done, saved, verified, stored, visible} \subseteq SUBSET Lines
    /\ {durable, reclaim, delivery, through} \subseteq Positions
    /\ gaps \subseteq Lines \X Reasons
    /\ {paused, pending} \subseteq BOOLEAN
    /\ disk \in [wal : SUBSET Lines, durable : Positions, reclaim : Positions, done : SUBSET Lines,
                 gaps : SUBSET (Lines \X Reasons), paused : BOOLEAN, through : Positions,
                 pending : BOOLEAN, verified : SUBSET Lines]
    /\ faults \in [count : 0..MaxFaults, outage : BOOLEAN]
    /\ lost \subseteq Lines \X {"refused", "leapt", "healed", "resolved", "uncovered"}

Idle == [pc |-> "idle", batch |-> {}, drain |-> FALSE,
         write |-> {}, expected |-> {}, replace |-> FALSE]

\* What a persist writes: the ledger, the WAL and the publication marks.
Snapshot == [wal |-> wal, durable |-> durable, reclaim |-> reclaim, done |-> done, gaps |-> gaps,
             paused |-> paused, through |-> through, pending |-> pending,
             verified |-> verified]

\* A WAL entry up to EventsStoredThrough is persisted as a reference into the store.
Inline(entries, upTo) == {i \in entries : i > upTo}

Init ==
    /\ tail = [cursor |-> 0, open |-> FALSE]
    /\ op = Idle
    /\ wal = {} /\ done = {} /\ gaps = {} /\ saved = {} /\ verified = {} /\ stored = {} /\ visible = {}
    /\ durable = 0 /\ reclaim = 0 /\ delivery = 0 /\ through = 0
    /\ paused = FALSE /\ pending = FALSE
    /\ disk = Snapshot
    /\ faults = [count |-> 0, outage |-> TRUE] /\ lost = {}

-----------------------------------------------------------------------------
\* Helpers

Fails(kind) ==
    /\ kind \in FaultKinds /\ faults.count < MaxFaults
    /\ faults' = [count |-> faults.count + 1,
                  outage |-> faults.outage /\ kind \in {"sample", "insert"}]

Go(pc) == op' = [op EXCEPT !.pc = pc]

Tag(lines, reason) == lines \X {reason}
LinesOf(pairs) == {x[1] : x \in pairs}
Landed == stored \cup visible
Span(lines) == IF lines = {} THEN {} ELSE Min(lines)..Max(lines)

\* Proof that lines have landed closes their delivery gaps, and no others.
Resolve(lines) == gaps \ Tag(lines, "undelivered")

\* The contiguous prefix of lines with a result (contiguousDeliveryEnd).
Contiguous(results, floor) ==
    Max({n \in floor..MaxLine : (floor + 1)..n \subseteq results})

\* Mutant of Settle: the pruning leaves a paused source to the next append.
SettleWithoutResume(r, given) ==
    /\ reclaim' = r
    /\ wal' = {i \in wal : i > r}
    /\ lost' = lost \cup given
    /\ UNCHANGED <<gaps, paused>>

\* TryReclaim up to r, the pruning of the WAL, and then the one place where a
\* paused source resumes: the backlog must be half gone, the gaps that reading on
\* is said to heal are closed, and any other gap keeps the source paused.
Settle(r, given) ==
    LET left == {i \in wal : i > r}
        low == paused /\ Cardinality(left) <= WalMax \div 2
        kept == IF low THEN {x \in gaps : x[2] = "missing"} ELSE gaps
    IN  /\ reclaim' = r
        /\ wal' = left
        /\ gaps' = kept
        /\ paused' = (paused /\ ~(low /\ kept = {}))
        /\ lost' = lost \cup given
               \cup Tag(LinesOf(gaps \ kept) \ (left \cup op.batch \cup stored), "healed")

-----------------------------------------------------------------------------
\* Reading

Emit(batch) == op' = [Idle EXCEPT !.pc = IF batch = {} THEN "idle" ELSE "admit", !.batch = batch]

\* A poll reads k lines; the last one stays open until another follows.  A paused
\* source reads nothing.
Poll(k) ==
    /\ op.pc = "idle" /\ ~paused
    /\ tail.cursor + k <= MaxLine
    /\ tail' = [cursor |-> tail.cursor + k, open |-> TRUE]
    /\ Emit((IF tail.open THEN tail.cursor ELSE tail.cursor + 1)..(tail.cursor + k - 1))
    /\ UNCHANGED <<wal, ledger, publication, outside, disk, faults, lost>>

\* An open line that has waited long enough is closed, paused or not.
FlushStale ==
    /\ op.pc = "idle" /\ tail.open
    /\ tail' = [tail EXCEPT !.open = FALSE]
    /\ Emit({tail.cursor})
    /\ UNCHANGED <<wal, ledger, publication, outside, disk, faults, lost>>

-----------------------------------------------------------------------------
\* Ingest: one batch, step by step

\* The capacity is sampled, and the WAL reclaims first.  When the sampling fails
\* the batch is gone: the cursor has passed it, and no gap says so.
Admit ==
    /\ op.pc = "admit"
    /\ \/ /\ Fails("sample")
          /\ op' = Idle
          /\ lost' = lost \cup Tag(op.batch, "refused")
          /\ UNCHANGED <<wal, gaps, paused, reclaim>>
       \/ /\ Go("append")
          /\ Settle(reclaim, {})
          /\ UNCHANGED faults
    /\ UNCHANGED <<tail, durable, done, delivery, publication, outside, disk>>

\* Mutant of AppendToWAL: a rejected batch leaves no gap.
AppendSilently ==
    /\ op.pc = "append"
    /\ \/ /\ paused
          /\ op' = Idle
          /\ UNCHANGED <<wal, durable, gaps, paused>>
       \/ /\ ~paused
          /\ Go("persist")
          /\ wal' = wal \cup op.batch
          /\ durable' = Max({durable} \cup op.batch)
          /\ paused' = (Cardinality(wal') > WalMax)
          /\ UNCHANGED gaps
    /\ UNCHANGED <<tail, reclaim, done, delivery, publication, outside, disk, faults, lost>>

\* Append and Commit.  A paused WAL rejects the batch, which becomes a gap; an
\* accepted one may pause the source.
AppendToWAL ==
    /\ op.pc = "append"
    /\ \/ /\ paused
          /\ op' = Idle
          /\ gaps' = gaps \cup Tag(op.batch, "rejected")
          /\ UNCHANGED <<wal, durable, paused>>
       \/ /\ ~paused
          /\ Go("persist")
          /\ wal' = wal \cup op.batch
          /\ durable' = Max({durable} \cup op.batch)
          /\ paused' = (Cardinality(wal') > WalMax)
          /\ UNCHANGED gaps
    /\ UNCHANGED <<tail, reclaim, done, delivery, publication, outside, disk, faults, lost>>

\* persistDurableBeforeDelivery.  A persist that does not get the gate in time is
\* left to the background, and the batch is not delivered now.
PersistBatch ==
    /\ op.pc = "persist"
    /\ saved' = Inline(wal, through)
    /\ \/ Fails("defer") /\ op' = Idle /\ UNCHANGED disk
       \/ Go("plan") /\ disk' = Snapshot /\ UNCHANGED faults
    /\ UNCHANGED <<tail, wal, ledger, through, pending, verified, outside, lost>>

\* A failed delivery is a gap, except when it was a drain.
DeliveryFails ==
    /\ op' = Idle
    /\ gaps' = IF op.drain THEN gaps ELSE gaps \cup Tag(op.batch, "undelivered")

\* Everything that the source has to show: the store and the persisted WAL
\* (canonicalRecoveryEvents).
Canonical == stored \cup saved

\* tryConfirmPendingPublication: the last publication went through after all.
Confirmed == pending /\ Canonical # {} /\ visible = Canonical

\* The tail of the source: no line at or below what was stored or delivered.
Fast == ~pending /\ Min(op.batch) > through /\ Min(op.batch) > delivery

\* What a publication writes, expects and is: Seen are the lines not written again.
Write(seen, replace, all) ==
    [op EXCEPT !.pc = "publish", !.replace = replace,
               !.write = IF replace THEN all ELSE op.batch \ seen,
               !.expected = IF Fast /\ ~replace THEN op.batch \ seen ELSE all]

\* Mutant of Plan: a replacing generation holds the batch only.
PlanReplaceBatch(compact) ==
    LET seen == IF Fast THEN {} ELSE stored
        replace == (pending /\ ~Confirmed) \/ compact
    IN  /\ op.pc = "plan"
        /\ op.batch \ seen # {}
        /\ op' = [Write(seen, replace, Canonical) EXCEPT !.write = op.batch \ seen]
        /\ pending' = TRUE
        /\ UNCHANGED <<tail, wal, ledger, through, saved, verified, outside, disk, faults, lost>>

\* deliver decides what to write.  An unconfirmed publication, or too many
\* generations (compact), replaces the whole view; otherwise a generation is added.
\* From here until the publication succeeds the source is pending.
Plan(compact) ==
    LET seen == IF Fast THEN {} ELSE stored
        replace == (pending /\ ~Confirmed) \/ compact
    IN  /\ op.pc = "plan"
        /\ \/ /\ op.batch \subseteq seen
              /\ Go("record")
              /\ pending' = (pending /\ ~Confirmed)
              /\ gaps' = Resolve(op.batch)
              /\ verified' = verified \cup op.batch
           \/ /\ ~(op.batch \subseteq seen)
              /\ op' = Write(seen, replace, Canonical)
              /\ pending' = TRUE
              /\ UNCHANGED <<gaps, verified>>
        /\ UNCHANGED <<tail, wal, durable, reclaim, done, delivery, paused, through, saved, outside,
                       disk, faults, lost>>

\* The snapshot that the plan was made from is no longer the published one.
PlanStale ==
    /\ op.pc = "plan"
    /\ Fails("stale")
    /\ DeliveryFails
    /\ UNCHANGED <<tail, wal, durable, reclaim, done, delivery, paused, publication, outside,
                   disk, lost>>

\* Inserting, verifying and publishing a generation; on failure the old view stays
\* and the source stays pending, but what could be read back counts as verified.
Publish ==
    /\ op.pc = "publish"
    /\ \/ /\ Fails("insert")
          /\ DeliveryFails
          /\ \E passed \in SUBSET op.write : verified' = verified \cup passed
          /\ UNCHANGED <<visible, pending>>
       \/ /\ Go("store")
          /\ visible' = op.write \cup (IF op.replace THEN {} ELSE visible)
          /\ pending' = FALSE
          /\ UNCHANGED <<gaps, verified, faults>>
    /\ UNCHANGED <<tail, wal, durable, reclaim, done, delivery, paused, through, saved, stored,
                   disk, lost>>

\* The events go into the store, and what has landed closes its gaps.  On the slow
\* path what goes into the store is Canonical: an entry at or below `through` that
\* the store does not have is not in it, and a line of the batch can be missing.
Store ==
    /\ op.pc = "store"
    /\ \/ Fails("append") /\ DeliveryFails /\ UNCHANGED <<stored, through, verified, lost>>
       \/ LET evidence == IF op.replace THEN op.expected ELSE op.batch
          IN  /\ Go("record")
              /\ stored' = stored \cup op.expected
              /\ through' = Max({through} \cup op.expected)
              /\ gaps' = Resolve(evidence)
              /\ verified' = verified \cup evidence
              /\ lost' = lost \cup Tag(op.batch \ stored', "uncovered")
              /\ UNCHANGED faults
    /\ UNCHANGED <<tail, wal, durable, reclaim, done, delivery, paused, saved, pending, visible,
                   disk>>

\* Mutant of Record: the result covers one line too many.
RecordOnePast ==
    /\ op.pc = "record"
    /\ Go("proof")
    /\ done' = {i \in done \cup Min(op.batch)..(Max(op.batch) + 1) : i > reclaim}
    /\ delivery' = Contiguous(done', reclaim)
    /\ Settle(reclaim, {})
    /\ UNCHANGED <<tail, durable, publication, outside, disk, faults>>

\* RecordHTTPResult covers the whole span of the batch; then the WAL reclaims.
Record ==
    /\ op.pc = "record"
    /\ Go("proof")
    /\ done' = {i \in done \cup Span(op.batch) : i > reclaim}
    /\ delivery' = Contiguous(done', reclaim)
    /\ Settle(reclaim, {})
    /\ UNCHANGED <<tail, durable, publication, outside, disk, faults>>

\* releaseRecovery: the WAL is released up to the end of the batch, or up to the
\* delivery position, also past lines that have no result yet.
Proof ==
    /\ op.pc = "proof"
    /\ op' = Idle
    /\ LET r == Max({reclaim, delivery} \cup op.batch)
           skipped == {i \in wal : i < Min(op.batch) /\ i \notin done /\ i > delivery}
       IN  /\ Settle(r, Tag(skipped \ (stored \cup LinesOf(gaps)), "leapt"))
           /\ done' = {i \in done : i > r}
    /\ UNCHANGED <<tail, durable, delivery, publication, outside, disk, faults>>

-----------------------------------------------------------------------------
\* Maintenance

\* DeliverPending: the oldest entries of the WAL are delivered again, for a paused
\* source or one whose delivery is behind.
Drain ==
    /\ op.pc = "idle" /\ wal # {}
    /\ paused \/ delivery < durable
    /\ op' = [Idle EXCEPT !.pc = "plan", !.drain = TRUE,
                  !.batch = {i \in wal : Cardinality({j \in wal : j < i}) < DrainMax}]
    /\ UNCHANGED <<tail, wal, ledger, publication, outside, disk, faults, lost>>

\* repairStalledReclaim covers what has been delivered and reclaims it.
Roll ==
    /\ reclaim < delivery
    /\ Settle(delivery, {})
    /\ done' = {i \in done : i > delivery}
    /\ UNCHANGED <<tail, op, durable, delivery, publication, outside, disk, faults>>

\* EvaluateResume, for a paused source that has nothing to deliver.
EvaluateResume ==
    /\ paused
    /\ Settle(reclaim, {})
    /\ UNCHANGED <<tail, op, durable, done, delivery, publication, outside, disk, faults>>

\* autoResolveGapsFromPublished: gaps of verified lines are closed, up to the last
\* line of the published view.
AutoResolve ==
    /\ visible # {}
    /\ gaps' = Resolve({i \in verified : i <= Max(visible)})
    /\ gaps' # gaps
    /\ lost' = lost \cup Tag(LinesOf(gaps \ gaps') \ (wal \cup op.batch \cup stored), "resolved")
    /\ UNCHANGED <<tail, op, wal, durable, reclaim, done, delivery, paused, publication, outside,
                   disk, faults>>

\* The state is persisted in the background.
Persist ==
    /\ disk # Snapshot
    /\ disk' = Snapshot
    /\ saved' = Inline(wal, through)
    /\ UNCHANGED <<tail, op, wal, ledger, through, pending, verified, outside, faults, lost>>

\* The Worker dies and registers the source again from what is on disk.  The tailer
\* goes back to the durable position; references without a body become one gap, from
\* the first to the last.
Crash ==
    LET kept == {i \in disk.wal : i > disk.through \/ i \in stored}
    IN  /\ Fails("crash")
        /\ op' = Idle
        /\ tail' = [cursor |-> disk.durable, open |-> FALSE]
        /\ wal' = kept
        /\ gaps' = disk.gaps \cup Tag(Span(disk.wal \ kept), "missing")
        /\ paused' = (disk.paused \/ Cardinality(kept) > WalMax)
        /\ durable' = disk.durable /\ reclaim' = disk.reclaim /\ done' = disk.done
        /\ delivery' = Contiguous(disk.done, disk.reclaim)
        /\ through' = disk.through /\ pending' = disk.pending /\ verified' = disk.verified
        /\ saved' = Inline(disk.wal, disk.through)
        /\ lost' = {x \in lost : x[1] <= disk.durable}
        /\ UNCHANGED <<outside, disk>>

-----------------------------------------------------------------------------
Ingest == \/ Admit \/ AppendToWAL \/ PersistBatch \/ (\E compact \in BOOLEAN : Plan(compact))
          \/ PlanStale \/ Publish \/ Store \/ Record \/ Proof
Read == (\E k \in 1..BatchMax : Poll(k)) \/ FlushStale
Maintain == Drain \/ Roll \/ EvaluateResume \/ AutoResolve \/ Persist

Next == Ingest \/ Read \/ Maintain \/ Crash

Spec == Init /\ [][Next]_vars

\* A batch under way goes on; the maintenance loop comes round to every source.
Fairness ==
    /\ WF_vars(Ingest) /\ WF_vars(Drain) /\ WF_vars(Roll) /\ WF_vars(EvaluateResume)

FairSpec == Spec /\ Fairness

-----------------------------------------------------------------------------
\* Properties

\* "No silent drop": a line that the tailer has passed and closed is in the batch,
\* the WAL or the event store, or it has a gap, through any faults and crashes --
\* except where the code is known to give it up without one.
LossOnlyKnown ==
    \A i \in 1..(tail.cursor - IF tail.open THEN 1 ELSE 0) :
        i \in op.batch \cup wal \cup stored \cup LinesOf(gaps) \cup LinesOf(lost)

\* An outage of VictoriaLogs, also one that fills the backlog, costs nothing that the WAL has
\* accepted: while failed insertions and failed samples are the only faults, what is in
\* the event store is visible, what the WAL forgets is in the store, and no line is given
\* up but one that the WAL never had (refused, or rejected by a paused WAL and healed).
OutageIsSurvived ==
    faults.outage =>
        /\ stored \subseteq visible
        /\ \A i \in 1..reclaim : i \in stored \cup LinesOf(gaps) \cup LinesOf(lost)
        /\ \A x \in lost : x[2] \in {"refused", "healed"}

\* A line that is in the event store and that queries can see stays visible, whatever
\* replaces the published generations.
ShownStays == [][stored \cap visible \subseteq visible']_vars

\* A source paused for its backlog resumes by itself, unless events it can no
\* longer find keep it paused.
PauseEnds == paused ~> (~paused \/ \E x \in gaps : x[2] = "missing")

\* The position that the WAL forgets up to covers nothing undelivered: what the
\* comments on Ingest and on backfillDeliveryConfirmedCoverage say.  Not so after a
\* deferred persist (LogDelivery_reclaim.cfg).
ReclaimedWasDelivered ==
    \A i \in 1..reclaim : i \in Landed \cup LinesOf(gaps)

\* What is in the event store is visible to queries.  Not so when the slow path stores
\* the durable entries of the WAL with a batch and publishes the batch alone
\* (LogDelivery_visible.cfg): the next delivery takes such a line for delivered.
StoredIsVisible == stored \subseteq visible
=============================================================================
