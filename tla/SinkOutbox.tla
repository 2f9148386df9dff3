----------------------------- MODULE SinkOutbox -----------------------------
(***************************************************************************)
(* The durable outbox that copies committed domain events to an analytical *)
(* sink (sose/sinks/outbox.py), driven by SimulationJob.flush_sinks, with  *)
(* the reference sink JSONLAnalyticalSink (sose/sinks/jsonl.py).           *)
(*                                                                         *)
(* Several workers may flush the same sink of the same job: run_tick       *)
(* flushes before it claims the trigger, so nothing excludes a second      *)
(* flusher.  A flusher reads the pending deliveries, the checkpoint and    *)
(* the event log in separate reads, and each of its transactions starts    *)
(* from a snapshot and writes its dirty records when it commits.           *)
(*                                                                         *)
(* The event log is append-only, so an offset names an event and a range   *)
(* of offsets names the events of a batch; batch_id is a hash of the range.*)
(***************************************************************************)
EXTENDS Naturals, Sequences, FiniteSets

CONSTANTS
    Flushers,       \* workers that call SimulationJob.flush_sinks
    Revisions,      \* config_revision/logical_tick of the job state in a batch
    MaxEvents,      \* bound on the length of the event log
    MaxAttempts,    \* bound on SinkDelivery.attempts
    MaxCrashes,     \* bound on the number of worker crashes
    Serialized,     \* TRUE: one write transaction at a time (memory, SQLite
                    \* BEGIN IMMEDIATE); FALSE: PostgreSQL without an owner,
                    \* where same-record conflicts are last-writer-wins
    None

ASSUME ConstantAssumption ==
    /\ MaxEvents \in Nat
    /\ MaxAttempts \in Nat
    /\ MaxCrashes \in Nat
    /\ Serialized \in BOOLEAN
    /\ None \notin Flushers

\* The workers of a job are finitely many.
ASSUME FlushersAssumption == IsFiniteSet(Flushers)

Offset == 0..MaxEvents

\* AnalyticalBatch: events from+1..to of the log, stamped with the job state.
Batch == [from : Offset, to : Offset, rev : Revisions]

\* SinkDelivery.  A delivered one is deleted, so every stored one is pending.
Delivery == [batch : Batch, attempts : 0..MaxAttempts]

\* batch_id and delivery_id: deterministic_id of the range, not of the stamp.
BatchId(b) == <<b.from, b.to>>

VARIABLES
    eventCount,   \* len(persistence.events())
    checkpoint,   \* SinkCheckpoint.event_offset, 0 when there is none
    deliveries,   \* the stored SinkDelivery records
    file,         \* the lines of the JSONL sink
    pc,           \* where each flusher is in flush()
    offset,       \* the checkpoint a flusher just read in prepare()
    delivery,     \* the delivery a flusher works on, or the one it will save
    snapshot,     \* what a flusher's open transaction started from
    lock,         \* the flusher whose transaction excludes the others
    crashes       \* crashes so far

durable == <<eventCount, checkpoint, deliveries, file>>
local == <<pc, offset, delivery, snapshot>>
vars == <<durable, local, lock, crashes>>

PC == {"idle", "checkpoint", "events", "prepare", "prepareTx", "again",
       "publish", "append", "ack", "ackTx", "fail", "failTx"}

Snapshot == [checkpoint : Offset, deliveries : SUBSET Delivery]

TypeOK ==
    /\ eventCount \in Offset
    /\ checkpoint \in Offset
    /\ deliveries \subseteq Delivery
    /\ file \in Seq(Batch)
    /\ pc \in [Flushers -> PC]
    /\ offset \in [Flushers -> Offset]
    /\ delivery \in [Flushers -> Delivery \cup {None}]
    /\ snapshot \in [Flushers -> Snapshot \cup {None}]
    /\ lock \in Flushers \cup {None}
    /\ crashes \in 0..MaxCrashes

Init ==
    /\ eventCount = 0
    /\ checkpoint = 0
    /\ deliveries = {}
    /\ file = <<>>
    /\ pc = [f \in Flushers |-> "idle"]
    /\ offset = [f \in Flushers |-> 0]
    /\ delivery = [f \in Flushers |-> None]
    /\ snapshot = [f \in Flushers |-> None]
    /\ lock = None
    /\ crashes = 0

-----------------------------------------------------------------------------
(***************************************************************************)
(* Transactions and the steps of a flusher                                 *)
(***************************************************************************)

GoTo(f, label) == pc' = [pc EXCEPT ![f] = label]

\* flush() returns or raises: its local values are gone.
Return(f) == GoTo(f, "idle") /\ delivery' = [delivery EXCEPT ![f] = None]

\* persistence.transaction(): fork the committed state.
Begin(f) ==
    /\ Serialized => lock = None
    /\ lock' = IF Serialized THEN f ELSE lock
    /\ snapshot' = [snapshot EXCEPT ![f] =
           [checkpoint |-> checkpoint, deliveries |-> deliveries]]

\* The end of a transaction, committed or rolled back.
End(f) ==
    /\ lock' = IF lock = f THEN None ELSE lock
    /\ snapshot' = [snapshot EXCEPT ![f] = None]

\* Mutant of Without: an acknowledged delivery stays pending.
WithoutNothing(ds, d) == ds

\* uow.save_sink_delivery / uow.delete_sink_delivery, by delivery_id.
Without(ds, d) == {x \in ds : BatchId(x.batch) # BatchId(d.batch)}
With(ds, d) == Without(ds, d) \cup {d}
Stored(ds, d) == {x \in ds : BatchId(x.batch) = BatchId(d.batch)}

\* A tick, a dispatch or a reconcile commits one more event.
CommitEvent ==
    /\ eventCount < MaxEvents
    /\ eventCount' = eventCount + 1
    /\ UNCHANGED <<checkpoint, deliveries, file, local, lock, crashes>>

\* prepare(): the first pending delivery, in the order of delivery_id hashes.
ReadPending(f) ==
    /\ pc[f] = "idle"
    /\ \/ /\ deliveries = {}
          /\ GoTo(f, "checkpoint")
          /\ UNCHANGED delivery
       \/ \E d \in deliveries :
             /\ delivery' = [delivery EXCEPT ![f] = d]
             /\ GoTo(f, "publish")
    /\ UNCHANGED <<durable, offset, snapshot, lock, crashes>>

ReadCheckpoint(f) ==
    /\ pc[f] = "checkpoint"
    /\ offset' = [offset EXCEPT ![f] = checkpoint]
    /\ GoTo(f, "events")
    /\ UNCHANGED <<durable, delivery, snapshot, lock, crashes>>

\* Nothing beyond the checkpoint: prepare() returns None, flush() looks again.
ReadEvents(f) ==
    /\ pc[f] = "events"
    /\ offset' = [offset EXCEPT ![f] = 0]
    /\ \/ /\ offset[f] >= eventCount
          /\ GoTo(f, "again")
          /\ UNCHANGED delivery
       \/ /\ offset[f] < eventCount
          /\ \E r \in Revisions :
                delivery' = [delivery EXCEPT ![f] =
                    [batch |-> [from |-> offset[f], to |-> eventCount, rev |-> r],
                     attempts |-> 0]]
          /\ GoTo(f, "prepare")
    /\ UNCHANGED <<durable, snapshot, lock, crashes>>

PrepareBegin(f) ==
    /\ pc[f] = "prepare"
    /\ Begin(f)
    /\ GoTo(f, "prepareTx")
    /\ UNCHANGED <<durable, offset, delivery, crashes>>

\* The checkpoint moved since it was read: prepare() returns None.
PrepareLost(f) ==
    /\ pc[f] = "prepareTx"
    /\ snapshot[f].checkpoint # delivery[f].batch.from
    /\ GoTo(f, "again")
    /\ delivery' = [delivery EXCEPT ![f] = None]
    /\ End(f)
    /\ UNCHANGED <<durable, offset, crashes>>

\* The same delivery is stored already: prepare() returns the stored one.
PrepareExisting(f) ==
    /\ pc[f] = "prepareTx"
    /\ snapshot[f].checkpoint = delivery[f].batch.from
    /\ \E d \in Stored(snapshot[f].deliveries, delivery[f]) :
          delivery' = [delivery EXCEPT ![f] = d]
    /\ GoTo(f, "publish")
    /\ End(f)
    /\ UNCHANGED <<durable, offset, crashes>>

\* Mutant of PrepareSave: a stored delivery with the same id is replaced.
PrepareSaveAnyway(f) ==
    /\ pc[f] = "prepareTx"
    /\ snapshot[f].checkpoint = delivery[f].batch.from
    /\ deliveries' = With(deliveries, delivery[f])
    /\ GoTo(f, "publish")
    /\ End(f)
    /\ UNCHANGED <<eventCount, checkpoint, file, offset, delivery, crashes>>

PrepareSave(f) ==
    /\ pc[f] = "prepareTx"
    /\ snapshot[f].checkpoint = delivery[f].batch.from
    /\ Stored(snapshot[f].deliveries, delivery[f]) = {}
    /\ deliveries' = With(deliveries, delivery[f])
    /\ GoTo(f, "publish")
    /\ End(f)
    /\ UNCHANGED <<eventCount, checkpoint, file, offset, delivery, crashes>>

\* flush(): prepare() returned None; surface any pending delivery, or stop.
ReadPendingAgain(f) ==
    /\ pc[f] = "again"
    /\ \/ /\ deliveries = {}
          /\ Return(f)
       \/ \E d \in deliveries :
             /\ delivery' = [delivery EXCEPT ![f] = d]
             /\ GoTo(f, "publish")
    /\ UNCHANGED <<durable, offset, snapshot, lock, crashes>>

\* Mutant of Contains: the sink appends without looking.
ContainsNothing(b) == FALSE

\* JSONLAnalyticalSink._contains, by batch_id.
Contains(b) == \E i \in DOMAIN file : BatchId(file[i]) = BatchId(b)

PublishCheck(f) ==
    /\ pc[f] = "publish"
    /\ GoTo(f, IF Contains(delivery[f].batch) THEN "ack" ELSE "append")
    /\ UNCHANGED <<durable, offset, delivery, snapshot, lock, crashes>>

PublishAppend(f) ==
    /\ pc[f] = "append"
    /\ file' = Append(file, delivery[f].batch)
    /\ GoTo(f, "ack")
    /\ UNCHANGED <<eventCount, checkpoint, deliveries, offset, delivery,
                   snapshot, lock, crashes>>

\* Mutant of PublishFails: the error is swallowed and the batch acknowledged.
PublishFailureIgnored(f) ==
    /\ pc[f] \in {"publish", "append"}
    /\ GoTo(f, "ack")
    /\ UNCHANGED <<durable, offset, delivery, snapshot, lock, crashes>>

\* publish() raises: before the line is written, or after it (fsync).
PublishFails(f) ==
    /\ pc[f] \in {"publish", "append"}
    /\ delivery[f].attempts < MaxAttempts
    /\ \/ UNCHANGED file
       \/ pc[f] = "append" /\ file' = Append(file, delivery[f].batch)
    /\ GoTo(f, "fail")
    /\ UNCHANGED <<eventCount, checkpoint, deliveries, offset, delivery,
                   snapshot, lock, crashes>>

\* _record_failed_delivery
FailBegin(f) ==
    /\ pc[f] = "fail"
    /\ Begin(f)
    /\ GoTo(f, "failTx")
    /\ UNCHANGED <<durable, offset, delivery, crashes>>

FailCommit(f) ==
    /\ pc[f] = "failTx"
    /\ deliveries' =
          IF Stored(snapshot[f].deliveries, delivery[f]) = {} THEN deliveries
          ELSE With(deliveries, [delivery[f] EXCEPT !.attempts = @ + 1])
    /\ Return(f)
    /\ End(f)
    /\ UNCHANGED <<eventCount, checkpoint, file, offset, crashes>>

AckBegin(f) ==
    /\ pc[f] = "ack"
    /\ Begin(f)
    /\ GoTo(f, "ackTx")
    /\ UNCHANGED <<durable, offset, delivery, crashes>>

\* Mutant of AckCheckpoint: a late acknowledgement returns to its own start.
AckCheckpointBack(existing, b) == IF existing > b.from THEN b.from ELSE b.to

\* Mutant of AckCheckpoint: the later cursor is not kept.
AckCheckpointLast(existing, b) == b.to

\* The cursor deliver() saves: a later one is kept, never moved back.
AckCheckpoint(existing, b) == IF existing > b.from THEN existing ELSE b.to

\* Only records that differ from the snapshot are written.
AckCommit(f) ==
    LET existing == snapshot[f].checkpoint
        cursor == AckCheckpoint(existing, delivery[f].batch)
    IN /\ pc[f] = "ackTx"
       /\ existing >= delivery[f].batch.from
       /\ checkpoint' = IF cursor = existing THEN checkpoint ELSE cursor
       /\ deliveries' = Without(deliveries, delivery[f])
       /\ Return(f)
       /\ End(f)
       /\ UNCHANGED <<eventCount, file, offset, crashes>>

\* RuntimeError: the checkpoint is behind the delivery start.
AckBehind(f) ==
    /\ pc[f] = "ackTx"
    /\ snapshot[f].checkpoint < delivery[f].batch.from
    /\ Return(f)
    /\ End(f)
    /\ UNCHANGED <<durable, offset, crashes>>

\* The worker dies; an open transaction rolls back, a new worker starts.
Crash(f) ==
    /\ crashes < MaxCrashes
    /\ pc[f] # "idle"
    /\ crashes' = crashes + 1
    /\ Return(f)
    /\ offset' = [offset EXCEPT ![f] = 0]
    /\ End(f)
    /\ UNCHANGED durable

Prepare(f) ==
    \/ ReadPending(f) \/ ReadCheckpoint(f) \/ ReadEvents(f)
    \/ PrepareBegin(f) \/ PrepareLost(f) \/ PrepareExisting(f) \/ PrepareSave(f)
    \/ ReadPendingAgain(f)

Deliver(f) ==
    \/ PublishCheck(f) \/ PublishAppend(f) \/ PublishFails(f)
    \/ FailBegin(f) \/ FailCommit(f)
    \/ AckBegin(f) \/ AckCommit(f) \/ AckBehind(f)

Next ==
    \/ CommitEvent
    \/ \E f \in Flushers : Prepare(f) \/ Deliver(f) \/ Crash(f)

Spec == Init /\ [][Next]_vars

(***************************************************************************)
(* Fairness: every worker keeps running the steps of flush(), because a    *)
(* recurring external trigger invokes it, and a sink that is reached again *)
(* and again is not down for ever.  Events and crashes need no fairness.   *)
(***************************************************************************)
FairSpec ==
    /\ Spec
    /\ \A f \in Flushers :
          /\ WF_vars(Prepare(f) \/ Deliver(f))
          /\ SF_vars(PublishAppend(f))
          /\ SF_vars(PublishCheck(f))

-----------------------------------------------------------------------------
(***************************************************************************)
(* Properties                                                              *)
(***************************************************************************)

\* Event n is in some line of the sink.
Published(n) == \E i \in DOMAIN file : file[i].from < n /\ n <= file[i].to

\* No event is lost: every event below the checkpoint is in the sink, so
\* deliver() may advance the cursor only over what publish() has written.
CommittedPrefixPublished == \A n \in 1..checkpoint : Published(n)

\* No stored delivery starts after the checkpoint, so deliver() never meets
\* "sink checkpoint is behind delivery start" and no retry is stuck for ever.
NeverBehind == \A d \in deliveries : d.batch.from <= checkpoint

\* deliver() keeps a later cursor: the checkpoint never moves back, whichever
\* of two overlapping deliveries is acknowledged last.
CheckpointMonotonic == [][checkpoint' >= checkpoint]_vars

\* Lines that carry the same batch_id carry the same batch, although two
\* workers may prepare the same range under different job states.
OneContentPerBatchId ==
    \A i, j \in DOMAIN file : BatchId(file[i]) = BatchId(file[j]) => file[i] = file[j]

\* What flush() holds at each step: a delivery from prepare() to the end, with
\* an attempt left when its failure is recorded; and a snapshot in each
\* transaction.
Delivering == {"prepare", "prepareTx", "publish", "append", "ack", "ackTx",
               "fail", "failTx"}
InTransaction == {"prepareTx", "ackTx", "failTx"}
LocalsHeld ==
    \A f \in Flushers :
        /\ pc[f] \in Delivering => delivery[f] \in Delivery
        /\ pc[f] \in {"fail", "failTx"} => delivery[f].attempts < MaxAttempts
        /\ pc[f] \in InTransaction => snapshot[f] \in Snapshot

\* A flusher acknowledges only a batch that is in the sink.
AckedIsPublished ==
    \A f \in Flushers : pc[f] \in {"ack", "ackTx"} => Contains(delivery[f].batch)

\* Whatever checkpoint an open transaction read was covered by the sink.
SnapshotPrefixPublished ==
    \A f \in Flushers :
        pc[f] \in InTransaction =>
            \A n \in 1..snapshot[f].checkpoint : Published(n)

\* Inductive: no event is lost, under both kinds of transaction isolation.
OutboxInv ==
    /\ TypeOK
    /\ LocalsHeld
    /\ AckedIsPublished
    /\ SnapshotPrefixPublished
    /\ CommittedPrefixPublished

\* An open transaction excludes the others and sees the committed records.
SnapshotCurrent ==
    \A f \in Flushers :
        pc[f] \in InTransaction =>
            /\ lock = f
            /\ snapshot[f].checkpoint = checkpoint
            /\ snapshot[f].deliveries = deliveries

\* No batch in use starts after the checkpoint, and none is empty.
LocalsNotBehind ==
    \A f \in Flushers :
        /\ offset[f] <= checkpoint
        /\ pc[f] \in Delivering =>
              /\ delivery[f].batch.from <= checkpoint
              /\ delivery[f].batch.from < delivery[f].batch.to
StoredOrdered == \A d \in deliveries : d.batch.from < d.batch.to

\* Inductive when write transactions are serialized.
SerialInv ==
    /\ TypeOK
    /\ LocalsHeld
    /\ SnapshotCurrent
    /\ LocalsNotBehind
    /\ StoredOrdered
    /\ NeverBehind

\* The batches that have an id for good: stored, being sent, or in the sink.
Sending == {"publish", "append", "ack", "ackTx", "fail", "failTx"}
Known ==
    {d.batch : d \in deliveries}
        \cup {file[i] : i \in DOMAIN file}
        \cup {delivery[f].batch : f \in {g \in Flushers : pc[g] \in Sending}}

\* A known batch alone has its id, and no one can prepare its range again: it
\* is stored, or the checkpoint is past its start.
KnownOnce == \A b, c \in Known : BatchId(b) = BatchId(c) => b = c
KnownSettled ==
    \A b \in Known : (\E d \in deliveries : d.batch = b) \/ b.from < checkpoint

\* Inductive: one content per batch id, when transactions are serialized.
ContentInv == SerialInv /\ KnownOnce /\ KnownSettled

\* The lines of a batch id, and the flushers that looked and will append one.
Lines(id) == {i \in DOMAIN file : BatchId(file[i]) = id}
Appending(id) == {f \in Flushers : pc[f] = "append" /\ BatchId(delivery[f].batch) = id}

\* Inductive: nobody starts to append a batch that has a line.
LinesBounded ==
    \A id \in Offset \X Offset :
        Cardinality(Lines(id)) + Cardinality(Appending(id)) <= Cardinality(Flushers)

\* A retry of publish(), after a failure or a crash at any point, finds the
\* line it wrote before: a batch has a second line only from another flusher
\* that looked before the first line was there, so one flusher writes it once.
RetriesNeverDuplicate ==
    \A i \in DOMAIN file :
        Cardinality(Lines(BatchId(file[i]))) <= Cardinality(Flushers)

\* Once the log stops growing, everything in it is delivered and acknowledged,
\* whatever publish() failures and crashes came before.
EventuallyDrained == <>[](checkpoint = eventCount /\ deliveries = {})

=============================================================================
