-------------------------- MODULE SinkOutboxProofs --------------------------
(***************************************************************************)
(* Proofs about SinkOutbox for any set of flushers and any bounds: the     *)
(* outbox loses no event under either isolation, and with serialized       *)
(* transactions its cursor never moves back and no delivery is stuck.      *)
(***************************************************************************)
EXTENDS SinkOutbox, FiniteSetTheorems, TLAPS

\* The facts about one flusher that a step of another one leaves alone.
LEMMA TypeInit == Init => TypeOK /\ LocalsHeld
BY ConstantAssumption
   DEF Init, TypeOK, LocalsHeld, Offset, PC, Delivering, InTransaction

\* What every typed state of the outbox holds is kept by every step of flush(),
\* by a new event and by a crash.
LEMMA TypeStep == TypeOK /\ LocalsHeld /\ [Next]_vars => TypeOK' /\ LocalsHeld'
<1> SUFFICES ASSUME TypeOK, LocalsHeld, [Next]_vars
             PROVE  TypeOK' /\ LocalsHeld'
  OBVIOUS
<1> USE ConstantAssumption DEF TypeOK, LocalsHeld, durable, local, vars
<1>1. CASE CommitEvent
  BY <1>1 DEF CommitEvent, Offset
<1>2. ASSUME NEW f \in Flushers, ReadPending(f) PROVE TypeOK' /\ LocalsHeld'
  BY <1>2 DEF ReadPending, GoTo, PC, Delivering, InTransaction
<1>3. ASSUME NEW f \in Flushers, ReadCheckpoint(f) PROVE TypeOK' /\ LocalsHeld'
  BY <1>3 DEF ReadCheckpoint, GoTo, PC, Delivering, InTransaction
<1>4. ASSUME NEW f \in Flushers, ReadEvents(f) PROVE TypeOK' /\ LocalsHeld'
  <2>0. offset[f] \in Nat /\ eventCount \in Nat /\ 0 \in Offset
    BY DEF Offset
  <2>1. CASE offset[f] >= eventCount
    <3>1. pc' = [pc EXCEPT ![f] = "again"] /\ UNCHANGED delivery
      BY <1>4, <2>0, <2>1 DEF ReadEvents, GoTo
    <3> QED
      BY <1>4, <2>0, <3>1 DEF ReadEvents, PC, Delivering, InTransaction
  <2>2. CASE offset[f] < eventCount
    <3>1. PICK r \in Revisions :
             delivery' = [delivery EXCEPT ![f] =
                 [batch |-> [from |-> offset[f], to |-> eventCount, rev |-> r],
                  attempts |-> 0]]
      BY <1>4, <2>0, <2>2 DEF ReadEvents
    <3>2. [batch |-> [from |-> offset[f], to |-> eventCount, rev |-> r],
           attempts |-> 0] \in Delivery
      BY DEF Delivery, Batch
    <3>3. pc' = [pc EXCEPT ![f] = "prepare"]
      BY <1>4, <2>0, <2>2 DEF ReadEvents, GoTo
    <3> QED
      BY <1>4, <2>0, <3>1, <3>2, <3>3 DEF ReadEvents, PC, Delivering, InTransaction
  <2> QED
    BY <2>0, <2>1, <2>2
<1>5. ASSUME NEW f \in Flushers, PrepareBegin(f) PROVE TypeOK' /\ LocalsHeld'
  BY <1>5 DEF PrepareBegin, Begin, GoTo, PC, Delivering, InTransaction, Snapshot
<1>6. ASSUME NEW f \in Flushers, PrepareLost(f) PROVE TypeOK' /\ LocalsHeld'
  BY <1>6 DEF PrepareLost, End, GoTo, PC, Delivering, InTransaction
<1>7. ASSUME NEW f \in Flushers, PrepareExisting(f) PROVE TypeOK' /\ LocalsHeld'
  <2>1. snapshot[f].deliveries \subseteq Delivery
    BY <1>7 DEF PrepareExisting, InTransaction, Snapshot
  <2> QED
    BY <1>7, <2>1
    DEF PrepareExisting, End, GoTo, PC, Delivering, InTransaction, Stored
<1>8. ASSUME NEW f \in Flushers, PrepareSave(f) PROVE TypeOK' /\ LocalsHeld'
  BY <1>8 DEF PrepareSave, End, GoTo, PC, Delivering, InTransaction, With, Without
<1>9. ASSUME NEW f \in Flushers, ReadPendingAgain(f) PROVE TypeOK' /\ LocalsHeld'
  BY <1>9 DEF ReadPendingAgain, Return, GoTo, PC, Delivering, InTransaction
<1>10. ASSUME NEW f \in Flushers, PublishCheck(f) PROVE TypeOK' /\ LocalsHeld'
  BY <1>10 DEF PublishCheck, GoTo, PC, Delivering, InTransaction
<1>11. ASSUME NEW f \in Flushers, PublishAppend(f) PROVE TypeOK' /\ LocalsHeld'
  BY <1>11 DEF PublishAppend, GoTo, PC, Delivering, InTransaction, Delivery
<1>12. ASSUME NEW f \in Flushers, PublishFails(f) PROVE TypeOK' /\ LocalsHeld'
  <2>1. pc[f] \in Delivering /\ delivery[f].batch \in Batch
    BY <1>12 DEF PublishFails, Delivering, Delivery
  <2>2. file' \in Seq(Batch)
    BY <1>12, <2>1 DEF PublishFails
  <2>3. pc' = [pc EXCEPT ![f] = "fail"]
    BY <1>12 DEF PublishFails, GoTo
  <2>4. UNCHANGED <<eventCount, checkpoint, deliveries, offset, delivery,
                    snapshot, lock, crashes>>
    BY <1>12 DEF PublishFails
  <2>5. delivery[f].attempts < MaxAttempts
    BY <1>12 DEF PublishFails
  <2>6. TypeOK'
    BY <2>2, <2>3, <2>4 DEF PC
  <2>7. LocalsHeld'
    BY <2>1, <2>3, <2>4, <2>5 DEF Delivering, InTransaction
  <2> QED
    BY <2>6, <2>7
<1>13. ASSUME NEW f \in Flushers, FailBegin(f) PROVE TypeOK' /\ LocalsHeld'
  BY <1>13 DEF FailBegin, Begin, GoTo, PC, Delivering, InTransaction, Snapshot
<1>14. ASSUME NEW f \in Flushers, FailCommit(f) PROVE TypeOK' /\ LocalsHeld'
  <2>1. [delivery[f] EXCEPT !.attempts = @ + 1] \in Delivery
    BY <1>14 DEF FailCommit, Delivering, Delivery
  <2> QED
    BY <1>14, <2>1
    DEF FailCommit, End, Return, GoTo, PC, Delivering, InTransaction, With, Without
<1>15. ASSUME NEW f \in Flushers, AckBegin(f) PROVE TypeOK' /\ LocalsHeld'
  BY <1>15 DEF AckBegin, Begin, GoTo, PC, Delivering, InTransaction, Snapshot
<1>16. ASSUME NEW f \in Flushers, AckCommit(f) PROVE TypeOK' /\ LocalsHeld'
  <2>1. checkpoint' \in Offset
    BY <1>16
    DEF AckCommit, AckCheckpoint, Delivering, InTransaction, Delivery, Batch, Snapshot
  <2> QED
    BY <1>16, <2>1
    DEF AckCommit, End, Return, GoTo, PC, Delivering, InTransaction, Without
<1>17. ASSUME NEW f \in Flushers, AckBehind(f) PROVE TypeOK' /\ LocalsHeld'
  BY <1>17 DEF AckBehind, End, Return, GoTo, PC, Delivering, InTransaction
<1>18. ASSUME NEW f \in Flushers, Crash(f) PROVE TypeOK' /\ LocalsHeld'
  BY <1>18 DEF Crash, End, Return, GoTo, PC, Delivering, InTransaction, Offset
<1>19. CASE UNCHANGED vars
  BY <1>19
<1> QED
  BY <1>1, <1>2, <1>3, <1>4, <1>5, <1>6, <1>7, <1>8, <1>9, <1>10, <1>11, <1>12,
     <1>13, <1>14, <1>15, <1>16, <1>17, <1>18, <1>19
  DEF Next, Prepare, Deliver

\* Every reachable state is typed, whatever the number of workers and crashes.
THEOREM TypeCorrect == Spec => []TypeOK
<1>1. Spec => [](TypeOK /\ LocalsHeld)
  BY TypeInit, TypeStep, PTL DEF Spec
<1> QED
  BY <1>1, PTL

-----------------------------------------------------------------------------
(***************************************************************************)
(* No event is lost                                                        *)
(***************************************************************************)

\* The JSONL sink is append-only: publish() adds at most one line.
LEMMA FileGrows ==
    ASSUME TypeOK, LocalsHeld, [Next]_vars
    PROVE  file' = file \/ \E b \in Batch : file' = Append(file, b)
<1> USE DEF LocalsHeld, durable, local, vars
<1>1. ASSUME NEW f \in Flushers, PublishAppend(f)
      PROVE  \E b \in Batch : file' = Append(file, b)
  BY <1>1 DEF PublishAppend, Delivering, Delivery
<1>2. ASSUME NEW f \in Flushers, PublishFails(f)
      PROVE  file' = file \/ \E b \in Batch : file' = Append(file, b)
  <2>1. delivery[f].batch \in Batch
    BY <1>2 DEF PublishFails, Delivering, Delivery
  <2> QED
    BY <1>2, <2>1 DEF PublishFails
<1>3. ASSUME NEW f \in Flushers, Prepare(f) \/ Crash(f) PROVE file' = file
  BY <1>3
  DEF Prepare, ReadPending, ReadCheckpoint, ReadEvents, PrepareBegin, PrepareLost,
      PrepareExisting, PrepareSave, ReadPendingAgain, Crash
<1>4. ASSUME NEW f \in Flushers,
             PublishCheck(f) \/ FailBegin(f) \/ FailCommit(f)
                \/ AckBegin(f) \/ AckCommit(f) \/ AckBehind(f)
      PROVE  file' = file
  BY <1>4 DEF PublishCheck, FailBegin, FailCommit, AckBegin, AckCommit, AckBehind
<1>5. CommitEvent \/ UNCHANGED vars => file' = file
  BY DEF CommitEvent
<1> QED
  BY <1>1, <1>2, <1>3, <1>4, <1>5 DEF Next, Deliver

\* What is in the sink stays in it.
LEMMA SinkKeeps ==
    ASSUME TypeOK, LocalsHeld, [Next]_vars
    PROVE  /\ \A n : Published(n) => Published(n)'
           /\ \A b : Contains(b) => (\E i \in DOMAIN file' : BatchId(file'[i]) = BatchId(b))
<1>1. file \in Seq(Batch)
  BY DEF TypeOK
<1>2. \A i \in DOMAIN file : i \in DOMAIN file' /\ file'[i] = file[i]
  BY <1>1, FileGrows
<1> QED
  BY <1>2 DEF Published, Contains

\* A delivery is acknowledged only after publish() wrote or found its batch.
LEMMA AckedStep ==
    ASSUME TypeOK, LocalsHeld, AckedIsPublished, [Next]_vars
    PROVE  AckedIsPublished'
<1> SUFFICES ASSUME NEW f \in Flushers, pc'[f] \in {"ack", "ackTx"}
             PROVE  \E i \in DOMAIN file' :
                       BatchId(file'[i]) = BatchId(delivery'[f].batch)
  BY DEF AckedIsPublished, Contains
<1> USE DEF TypeOK, durable, local, vars
<1>1. CASE pc[f] \in {"ack", "ackTx"} /\ delivery'[f] = delivery[f]
  BY <1>1, SinkKeeps DEF AckedIsPublished
<1>2. CASE PublishCheck(f)
  <2>1. Contains(delivery[f].batch) /\ delivery' = delivery
    BY <1>2 DEF PublishCheck, GoTo
  <2> QED
    BY <2>1, SinkKeeps
<1>3. CASE PublishAppend(f)
  <2>1. /\ delivery[f].batch \in Batch
        /\ file' = Append(file, delivery[f].batch)
        /\ delivery' = delivery
    BY <1>3 DEF PublishAppend, LocalsHeld, Delivering, Delivery
  <2>2. Len(file) + 1 \in DOMAIN file' /\ file'[Len(file) + 1] = delivery[f].batch
    BY <2>1
  <2> QED
    BY <2>1, <2>2
<1>4. CASE AckBegin(f)
  <2>1. pc[f] = "ack" /\ delivery'[f] = delivery[f]
    BY <1>4 DEF AckBegin
  <2> QED
    BY <1>1, <2>1
<1>5. CASE CommitEvent \/ UNCHANGED vars
  BY <1>1, <1>5 DEF CommitEvent
<1>6. ASSUME NEW g \in Flushers, g # f, Prepare(g) \/ Deliver(g) \/ Crash(g)
      PROVE  pc'[f] = pc[f] /\ delivery'[f] = delivery[f]
  <2>1. CASE Prepare(g)
    BY <1>6, <2>1
    DEF Prepare, ReadPending, ReadCheckpoint, ReadEvents, PrepareBegin, PrepareLost,
        PrepareExisting, PrepareSave, ReadPendingAgain, GoTo, Return
  <2>2. CASE Deliver(g) \/ Crash(g)
    BY <1>6, <2>2
    DEF Deliver, PublishCheck, PublishAppend, PublishFails, FailBegin, FailCommit,
        AckBegin, AckCommit, AckBehind, Crash, GoTo, Return
  <2> QED
    BY <1>6, <2>1, <2>2
<1>7. ~Prepare(f)
  BY DEF Prepare, ReadPending, ReadCheckpoint, ReadEvents, PrepareBegin, PrepareLost,
         PrepareExisting, PrepareSave, ReadPendingAgain, GoTo, Return
<1>8. ~(PublishFails(f) \/ FailBegin(f) \/ FailCommit(f) \/ AckCommit(f)
         \/ AckBehind(f) \/ Crash(f))
  BY DEF PublishFails, FailBegin, FailCommit, AckCommit, AckBehind, Crash, GoTo, Return
<1> QED
  BY <1>1, <1>2, <1>3, <1>4, <1>5, <1>6, <1>7, <1>8 DEF Next, Deliver

\* A transaction starts from a cursor whose prefix was published.
LEMMA SnapshotStep ==
    ASSUME OutboxInv, [Next]_vars
    PROVE  SnapshotPrefixPublished'
<1> USE DEF OutboxInv
<1> SUFFICES ASSUME NEW f \in Flushers, pc'[f] \in InTransaction
             PROVE  \A n \in 1..snapshot'[f].checkpoint : Published(n)'
  BY DEF SnapshotPrefixPublished
<1> USE DEF TypeOK, InTransaction, durable, local, vars
<1>1. CASE pc[f] \in InTransaction /\ snapshot'[f] = snapshot[f]
  BY <1>1, SinkKeeps DEF SnapshotPrefixPublished
<1>2. CASE Begin(f)
  <2>1. snapshot'[f].checkpoint = checkpoint
    BY <1>2 DEF Begin
  <2> QED
    BY <2>1, SinkKeeps DEF CommittedPrefixPublished
<1>3. CASE CommitEvent \/ UNCHANGED vars
  BY <1>1, <1>3 DEF CommitEvent
<1>4. ASSUME NEW g \in Flushers, g # f, Prepare(g) \/ Deliver(g) \/ Crash(g)
      PROVE  pc'[f] = pc[f] /\ snapshot'[f] = snapshot[f]
  <2>1. CASE Prepare(g)
    BY <1>4, <2>1
    DEF Prepare, ReadPending, ReadCheckpoint, ReadEvents, PrepareBegin, PrepareLost,
        PrepareExisting, PrepareSave, ReadPendingAgain, GoTo, Return, Begin, End
  <2>2. CASE Deliver(g) \/ Crash(g)
    BY <1>4, <2>2
    DEF Deliver, PublishCheck, PublishAppend, PublishFails, FailBegin, FailCommit,
        AckBegin, AckCommit, AckBehind, Crash, GoTo, Return, Begin, End
  <2> QED
    BY <1>4, <2>1, <2>2
<1>5. CASE PrepareBegin(f) \/ FailBegin(f) \/ AckBegin(f)
  BY <1>2, <1>5 DEF PrepareBegin, FailBegin, AckBegin
<1>6. ~(ReadPending(f) \/ ReadCheckpoint(f) \/ ReadEvents(f) \/ PrepareLost(f)
         \/ PrepareExisting(f) \/ PrepareSave(f) \/ ReadPendingAgain(f))
  BY DEF ReadPending, ReadCheckpoint, ReadEvents, PrepareLost, PrepareExisting,
         PrepareSave, ReadPendingAgain, GoTo, Return
<1>7. ~(PublishCheck(f) \/ PublishAppend(f) \/ PublishFails(f) \/ FailCommit(f)
         \/ AckCommit(f) \/ AckBehind(f) \/ Crash(f))
  BY DEF PublishCheck, PublishAppend, PublishFails, FailCommit, AckCommit, AckBehind,
         Crash, GoTo, Return
<1> QED
  BY <1>1, <1>3, <1>4, <1>5, <1>6, <1>7 DEF Next, Prepare, Deliver

\* Only the acknowledgement in deliver() moves the cursor.
LEMMA OnlyAckMovesCheckpoint ==
    ASSUME [Next]_vars
    PROVE  checkpoint' = checkpoint \/ \E f \in Flushers : AckCommit(f)
<1> USE DEF durable, local, vars
<1>1. ASSUME NEW f \in Flushers, Prepare(f) \/ Crash(f) PROVE checkpoint' = checkpoint
  BY <1>1
  DEF Prepare, ReadPending, ReadCheckpoint, ReadEvents, PrepareBegin, PrepareLost,
      PrepareExisting, PrepareSave, ReadPendingAgain, Crash
<1>2. ASSUME NEW f \in Flushers, Deliver(f)
      PROVE  checkpoint' = checkpoint \/ AckCommit(f)
  BY <1>2
  DEF Deliver, PublishCheck, PublishAppend, PublishFails, FailBegin, FailCommit,
      AckBegin, AckBehind
<1>3. CommitEvent \/ UNCHANGED vars => checkpoint' = checkpoint
  BY DEF CommitEvent
<1> QED
  BY <1>1, <1>2, <1>3 DEF Next

\* The cursor moves only over events that are in the sink: what the snapshot's
\* cursor covered and the acknowledged batch, which starts there.
LEMMA PrefixStep ==
    ASSUME OutboxInv, [Next]_vars
    PROVE  CommittedPrefixPublished'
<1> USE DEF OutboxInv
<1>1. CASE checkpoint' = checkpoint
  BY <1>1, SinkKeeps DEF CommittedPrefixPublished
<1>2. ASSUME NEW f \in Flushers, AckCommit(f), checkpoint' # checkpoint
      PROVE  CommittedPrefixPublished'
  <2> DEFINE b == delivery[f].batch
             from == snapshot[f].checkpoint
  <2>1. pc[f] = "ackTx"
    BY <1>2 DEF AckCommit
  <2>2. from \in Nat /\ b \in Batch /\ b.from \in Nat /\ b.to \in Nat
    BY <2>1
    DEF LocalsHeld, Delivering, InTransaction, Delivery, Batch, Snapshot, Offset
  <2>3. from = b.from /\ checkpoint' = b.to
    BY <1>2, <2>2 DEF AckCommit, AckCheckpoint
  <2>4. ASSUME NEW n \in 1..b.to PROVE Published(n)
    <3>1. CASE n \in 1..from
      BY <3>1, <2>1 DEF SnapshotPrefixPublished, InTransaction
    <3>2. CASE n \notin 1..from
      <4>1. b.from < n /\ n <= b.to
        BY <2>2, <2>3, <3>2
      <4>2. PICK i \in DOMAIN file : BatchId(file[i]) = BatchId(b)
        BY <2>1 DEF AckedIsPublished, Contains
      <4>3. file[i].from = b.from /\ file[i].to = b.to
        BY <4>2 DEF BatchId
      <4> QED
        BY <4>1, <4>3 DEF Published
    <3> QED
      BY <3>1, <3>2
  <2> QED
    BY <2>3, <2>4, SinkKeeps DEF CommittedPrefixPublished
<1> QED
  BY <1>1, <1>2, OnlyAckMovesCheckpoint

\* No event is lost: the sink holds every event below the cursor, under both
\* serialized and last-writer-wins transactions, for any number of workers,
\* crashes and failed attempts of publish().
THEOREM NoEventLost == Spec => []CommittedPrefixPublished
<1>1. Init => OutboxInv
  <2>1. Init => AckedIsPublished /\ SnapshotPrefixPublished /\ CommittedPrefixPublished
    BY DEF Init, AckedIsPublished, SnapshotPrefixPublished, CommittedPrefixPublished,
           InTransaction
  <2> QED
    BY <2>1, TypeInit DEF OutboxInv
<1>2. OutboxInv /\ [Next]_vars => OutboxInv'
  <2> SUFFICES ASSUME OutboxInv, [Next]_vars PROVE OutboxInv'
    OBVIOUS
  <2>1. TypeOK' /\ LocalsHeld'
    BY TypeStep DEF OutboxInv
  <2>2. AckedIsPublished'
    BY AckedStep DEF OutboxInv
  <2> QED
    BY <2>1, <2>2, SnapshotStep, PrefixStep DEF OutboxInv
<1>3. OutboxInv => CommittedPrefixPublished
  BY DEF OutboxInv
<1> QED
  BY <1>1, <1>2, <1>3, PTL DEF Spec

-----------------------------------------------------------------------------
(***************************************************************************)
(* Serialized transactions: the cursor never moves back                    *)
(***************************************************************************)

\* deliver() keeps a later cursor, and reads the committed one.
LEMMA CheckpointStep ==
    ASSUME SerialInv, [Next]_vars
    PROVE  checkpoint' \in Nat /\ checkpoint \in Nat /\ checkpoint' >= checkpoint
<1> USE DEF SerialInv
<1>1. checkpoint \in Nat
  BY DEF TypeOK, Offset
<1>2. ASSUME NEW f \in Flushers, AckCommit(f)
      PROVE  checkpoint' \in Nat /\ checkpoint' >= checkpoint
  <2>1. pc[f] = "ackTx"
    BY <1>2 DEF AckCommit
  <2>2. snapshot[f].checkpoint = checkpoint
    BY <2>1 DEF SnapshotCurrent, InTransaction
  <2>3. /\ delivery[f].batch.from \in Nat
        /\ delivery[f].batch.to \in Nat
        /\ delivery[f].batch.from < delivery[f].batch.to
    BY <2>1 DEF LocalsHeld, LocalsNotBehind, Delivering, Delivery, Batch, Offset
  <2> QED
    BY <1>1, <1>2, <2>2, <2>3 DEF AckCommit, AckCheckpoint
<1> QED
  BY <1>1, <1>2, OnlyAckMovesCheckpoint

\* A transaction that excludes the others and sees the committed records.
Current(f) ==
    /\ lock = f
    /\ snapshot[f].checkpoint = checkpoint
    /\ snapshot[f].deliveries = deliveries

\* The open transaction excludes the others, so its snapshot stays current.
LEMMA SnapshotCurrentStep ==
    ASSUME Serialized, SerialInv, [Next]_vars
    PROVE  SnapshotCurrent'
<1> USE DEF SerialInv
<1> SUFFICES ASSUME NEW f \in Flushers, pc'[f] \in InTransaction
             PROVE  Current(f)'
  BY DEF SnapshotCurrent, Current
<1> USE ConstantAssumption DEF Current, TypeOK, InTransaction, durable, local, vars
<1>1. CASE CommitEvent \/ UNCHANGED vars
  BY <1>1 DEF CommitEvent, SnapshotCurrent
<1>2. ASSUME NEW g \in Flushers, g # f, Prepare(g) \/ Deliver(g) \/ Crash(g)
      PROVE  Current(f)'
  <2>1. pc'[f] = pc[f] /\ snapshot'[f] = snapshot[f]
    <3>1. CASE Prepare(g)
      BY <1>2, <3>1
      DEF Prepare, ReadPending, ReadCheckpoint, ReadEvents, PrepareBegin, PrepareLost,
          PrepareExisting, PrepareSave, ReadPendingAgain, GoTo, Return, Begin, End
    <3>2. CASE Deliver(g) \/ Crash(g)
      BY <1>2, <3>2
      DEF Deliver, PublishCheck, PublishAppend, PublishFails, FailBegin, FailCommit,
          AckBegin, AckCommit, AckBehind, Crash, GoTo, Return, Begin, End
    <3> QED
      BY <1>2, <3>1, <3>2
  <2>2. Current(f)
    BY <2>1 DEF SnapshotCurrent
  <2>3. pc[g] \notin InTransaction
    BY <1>2, <2>2 DEF SnapshotCurrent
  <2>4. ~Begin(g)
    BY <2>2 DEF Begin
  <2>5. checkpoint' = checkpoint /\ deliveries' = deliveries /\ lock' = lock
    <3>1. CASE Prepare(g)
      BY <2>2, <2>3, <2>4, <3>1
      DEF Prepare, ReadPending, ReadCheckpoint, ReadEvents, PrepareBegin, PrepareLost,
          PrepareExisting, PrepareSave, ReadPendingAgain
    <3>2. CASE Deliver(g) \/ Crash(g)
      BY <1>2, <2>2, <2>3, <2>4, <3>2
      DEF Deliver, PublishCheck, PublishAppend, PublishFails, FailBegin, FailCommit,
          AckBegin, AckCommit, AckBehind, Crash, End
    <3> QED
      BY <1>2, <3>1, <3>2
  <2> QED
    BY <2>1, <2>2, <2>5
<1>3. CASE PrepareBegin(f) \/ FailBegin(f) \/ AckBegin(f)
  BY <1>3 DEF PrepareBegin, FailBegin, AckBegin, Begin
<1>4. ~(ReadPending(f) \/ ReadCheckpoint(f) \/ ReadEvents(f) \/ PrepareLost(f)
         \/ PrepareExisting(f) \/ PrepareSave(f) \/ ReadPendingAgain(f))
  BY DEF ReadPending, ReadCheckpoint, ReadEvents, PrepareLost, PrepareExisting,
         PrepareSave, ReadPendingAgain, GoTo, Return
<1>5. ~(PublishCheck(f) \/ PublishAppend(f) \/ PublishFails(f) \/ FailCommit(f)
         \/ AckCommit(f) \/ AckBehind(f) \/ Crash(f))
  BY DEF PublishCheck, PublishAppend, PublishFails, FailCommit, AckCommit, AckBehind,
         Crash, GoTo, Return
<1> QED
  BY <1>1, <1>2, <1>3, <1>4, <1>5 DEF Next, Prepare, Deliver

\* The ranges of a batch that the rest of flush() may rely on.
InRange(b) == b.from \in Nat /\ b.to \in Nat /\ b.from <= checkpoint /\ b.from < b.to

\* No stored delivery starts after the cursor, or is empty.
LEMMA StoredStep ==
    ASSUME SerialInv, [Next]_vars
    PROVE  NeverBehind' /\ StoredOrdered'
<1> USE DEF SerialInv
<1>1. \A d \in deliveries : InRange(d.batch)
  BY DEF InRange, NeverBehind, StoredOrdered, TypeOK, Delivery, Batch, Offset
<1>2. \A f \in Flushers : pc[f] \in Delivering => InRange(delivery[f].batch)
  BY DEF InRange, LocalsHeld, LocalsNotBehind, Delivery, Batch, Offset
<1> DEFINE Kept == \A d \in deliveries' : InRange(d.batch)
<1>3. Kept
  <2> USE DEF durable, local, vars
  <2>1. CASE CommitEvent \/ UNCHANGED vars
    BY <1>1, <2>1 DEF CommitEvent
  <2>2. ASSUME NEW f \in Flushers, PrepareSave(f) PROVE Kept
    BY <1>1, <1>2, <2>2 DEF PrepareSave, With, Without, Delivering
  <2>3. ASSUME NEW f \in Flushers, FailCommit(f) PROVE Kept
    <3> DEFINE d == [delivery[f] EXCEPT !.attempts = @ + 1]
    <3>1. pc[f] = "failTx"
      BY <2>3 DEF FailCommit
    <3>2. delivery[f] \in Delivery
      BY <3>1 DEF LocalsHeld, Delivering
    <3>3. d.batch = delivery[f].batch
      BY <3>2 DEF Delivery
    <3>4. deliveries' \subseteq deliveries \cup {d}
      BY <2>3 DEF FailCommit, With, Without
    <3> QED
      BY <1>1, <1>2, <3>1, <3>3, <3>4 DEF Delivering
  <2>4. ASSUME NEW f \in Flushers, AckCommit(f) PROVE Kept
    BY <1>1, <2>4 DEF AckCommit, Without
  <2>5. ASSUME NEW f \in Flushers,
               ReadPending(f) \/ ReadCheckpoint(f) \/ ReadEvents(f) \/ PrepareBegin(f)
                  \/ PrepareLost(f) \/ PrepareExisting(f) \/ ReadPendingAgain(f)
        PROVE  Kept
    BY <1>1, <2>5
    DEF ReadPending, ReadCheckpoint, ReadEvents, PrepareBegin, PrepareLost,
        PrepareExisting, ReadPendingAgain
  <2>6. ASSUME NEW f \in Flushers,
               PublishCheck(f) \/ PublishAppend(f) \/ PublishFails(f) \/ FailBegin(f)
                  \/ AckBegin(f) \/ AckBehind(f) \/ Crash(f)
        PROVE  Kept
    BY <1>1, <2>6
    DEF PublishCheck, PublishAppend, PublishFails, FailBegin, AckBegin, AckBehind, Crash
  <2> QED
    BY <2>1, <2>2, <2>3, <2>4, <2>5, <2>6 DEF Next, Prepare, Deliver
<1> QED
  BY <1>3, CheckpointStep DEF NeverBehind, StoredOrdered, InRange

\* Nor does a batch that a worker has prepared or taken up.
LEMMA LocalsNotBehindStep ==
    ASSUME SerialInv, [Next]_vars
    PROVE  LocalsNotBehind'
<1> USE DEF SerialInv
<1>1. \A d \in deliveries : InRange(d.batch)
  BY DEF InRange, NeverBehind, StoredOrdered, TypeOK, Delivery, Batch, Offset
<1>2. \A f \in Flushers : pc[f] \in Delivering => InRange(delivery[f].batch)
  BY DEF InRange, LocalsHeld, LocalsNotBehind, Delivery, Batch, Offset
<1>3. \A f \in Flushers : offset[f] \in Nat /\ offset[f] <= checkpoint
  BY DEF LocalsNotBehind, TypeOK, Offset
<1> DEFINE Offsets == \A f \in Flushers : offset'[f] \in Nat /\ offset'[f] <= checkpoint
           Batches == \A f \in Flushers : pc'[f] \in Delivering => InRange(delivery'[f].batch)
<1>4. Offsets /\ Batches
  <2> USE DEF durable, local, vars, TypeOK
  <2>1. CASE CommitEvent \/ UNCHANGED vars
    BY <1>2, <1>3, <2>1 DEF CommitEvent
  <2>2. ASSUME NEW f \in Flushers, ReadPending(f) \/ ReadPendingAgain(f)
        PROVE  Offsets /\ Batches
    BY <1>1, <1>2, <1>3, <2>2 DEF ReadPending, ReadPendingAgain, Return, GoTo, Delivering
  <2>3. ASSUME NEW f \in Flushers, ReadCheckpoint(f) PROVE Offsets /\ Batches
    BY <1>2, <1>3, <2>3 DEF ReadCheckpoint, GoTo, Delivering, Offset
  <2>4. ASSUME NEW f \in Flushers, ReadEvents(f) PROVE Offsets /\ Batches
    <3>1. checkpoint \in Nat /\ eventCount \in Nat
      BY DEF Offset
    <3>2. Offsets
      BY <1>3, <2>4, <3>1 DEF ReadEvents
    <3>3. CASE offset[f] >= eventCount
      <4>1. pc' = [pc EXCEPT ![f] = "again"] /\ UNCHANGED delivery
        BY <1>3, <2>4, <3>1, <3>3 DEF ReadEvents, GoTo
      <4> QED
        BY <1>2, <3>2, <4>1 DEF Delivering
    <3>4. CASE offset[f] < eventCount
      <4>1. PICK r \in Revisions :
               delivery' = [delivery EXCEPT ![f] =
                   [batch |-> [from |-> offset[f], to |-> eventCount, rev |-> r],
                    attempts |-> 0]]
        BY <1>3, <2>4, <3>1, <3>4 DEF ReadEvents
      <4>2. InRange(delivery'[f].batch)
        BY <1>3, <3>1, <3>4, <4>1 DEF InRange
      <4>3. pc' = [pc EXCEPT ![f] = "prepare"]
        BY <1>3, <2>4, <3>1, <3>4 DEF ReadEvents, GoTo
      <4> QED
        BY <1>2, <3>2, <4>1, <4>2, <4>3
    <3> QED
      BY <1>3, <3>1, <3>3, <3>4
  <2>5. ASSUME NEW f \in Flushers, PrepareExisting(f) PROVE Offsets /\ Batches
    <3>1. pc[f] \in Delivering
      BY <2>5 DEF PrepareExisting, Delivering
    <3>2. PICK d \in Stored(snapshot[f].deliveries, delivery[f]) :
             delivery' = [delivery EXCEPT ![f] = d]
      BY <2>5 DEF PrepareExisting
    <3>3. InRange(d.batch)
      BY <1>2, <3>1, <3>2 DEF Stored, BatchId, InRange
    <3> QED
      BY <1>2, <1>3, <2>5, <3>2, <3>3 DEF PrepareExisting, GoTo
  <2>6. ASSUME NEW f \in Flushers,
               PrepareBegin(f) \/ PrepareLost(f) \/ PrepareSave(f) \/ PublishCheck(f)
                  \/ PublishAppend(f) \/ PublishFails(f)
        PROVE  Offsets /\ Batches
    BY <1>2, <1>3, <2>6
    DEF PrepareBegin, PrepareLost, PrepareSave, PublishCheck, PublishAppend,
        PublishFails, GoTo, Delivering
  <2>7. ASSUME NEW f \in Flushers,
               FailBegin(f) \/ FailCommit(f) \/ AckBegin(f) \/ AckCommit(f) \/ AckBehind(f)
        PROVE  Offsets /\ Batches
    BY <1>2, <1>3, <2>7
    DEF FailBegin, FailCommit, AckBegin, AckCommit, AckBehind, Return, GoTo, Delivering
  <2>8. ASSUME NEW f \in Flushers, Crash(f) PROVE Offsets /\ Batches
    BY <1>2, <1>3, <2>8 DEF Crash, Return, GoTo, Delivering, Offset
  <2> QED
    BY <2>1, <2>2, <2>3, <2>4, <2>5, <2>6, <2>7, <2>8 DEF Next, Prepare, Deliver
<1> QED
  BY <1>4, CheckpointStep DEF LocalsNotBehind, InRange

\* The inductive invariant of serialized transactions.
LEMMA SerialInvariant == Serialized => (Spec => []SerialInv)
<1> SUFFICES ASSUME Serialized PROVE Spec => []SerialInv
  OBVIOUS
<1>1. Init => SerialInv
  <2>1. Init => SnapshotCurrent /\ LocalsNotBehind /\ StoredOrdered /\ NeverBehind
    BY DEF Init, SnapshotCurrent, LocalsNotBehind, StoredOrdered, NeverBehind,
           InTransaction, Delivering
  <2> QED
    BY <2>1, TypeInit DEF SerialInv
<1>2. SerialInv /\ [Next]_vars => SerialInv'
  <2> SUFFICES ASSUME SerialInv, [Next]_vars PROVE SerialInv'
    OBVIOUS
  <2>1. TypeOK' /\ LocalsHeld'
    BY TypeStep DEF SerialInv
  <2> QED
    BY <2>1, SnapshotCurrentStep, StoredStep, LocalsNotBehindStep DEF SerialInv
<1> QED
  BY <1>1, <1>2, PTL DEF Spec

\* With serialized transactions no pending delivery starts after the cursor, so
\* deliver() never raises "sink checkpoint is behind delivery start".
THEOREM NoDeliveryStuck == Serialized => (Spec => []NeverBehind)
<1>1. SerialInv => NeverBehind
  BY DEF SerialInv
<1> QED
  BY <1>1, SerialInvariant, PTL

\* With serialized transactions the sink checkpoint never moves back, whatever
\* overlapping deliveries the workers acknowledge and in whatever order.
THEOREM CheckpointNeverRegresses == Serialized => (Spec => CheckpointMonotonic)
<1> SUFFICES ASSUME Serialized PROVE Spec => CheckpointMonotonic
  OBVIOUS
<1>1. SerialInv /\ [Next]_vars => [checkpoint' >= checkpoint]_vars
  BY CheckpointStep
<1>2. Spec => []SerialInv
  BY SerialInvariant
<1> QED
  BY <1>1, <1>2, PTL DEF Spec, CheckpointMonotonic

-----------------------------------------------------------------------------
(***************************************************************************)
(* Serialized transactions: one content per batch id                       *)
(***************************************************************************)

\* Every batch that is stored or being sent is known.
LEMMA StoredAndSentKnown ==
    /\ \A d \in deliveries : d.batch \in Known
    /\ \A f \in Flushers : pc[f] \in Sending => delivery[f].batch \in Known
    /\ \A i \in DOMAIN file : file[i] \in Known
BY DEF Known

\* What a sequence holds after one more element.
LEMMA AppendElements ==
    ASSUME NEW S, NEW s \in Seq(S), NEW e \in S
    PROVE  \A i \in DOMAIN Append(s, e) :
              \/ Append(s, e)[i] = e
              \/ i \in DOMAIN s /\ Append(s, e)[i] = s[i]
OBVIOUS

\* Known batches are batches.
LEMMA KnownTyped ==
    ASSUME TypeOK, LocalsHeld
    PROVE  \A b \in Known : b \in Batch /\ b.from \in Nat
<1>1. \A d \in deliveries : d.batch \in Batch
  BY DEF TypeOK, Delivery
<1>2. \A i \in DOMAIN file : file[i] \in Batch
  BY DEF TypeOK
<1>3. \A f \in Flushers : pc[f] \in Sending => delivery[f].batch \in Batch
  BY DEF LocalsHeld, Sending, Delivering, Delivery
<1>4. \A b \in Batch : b.from \in Nat
  BY ConstantAssumption DEF Batch, Offset
<1> QED
  BY <1>1, <1>2, <1>3, <1>4 DEF Known

\* A step that adds nothing to what is known and keeps what is stored.
LEMMA NothingNew ==
    ASSUME ContentInv, [Next]_vars, deliveries' = deliveries, Known' \subseteq Known
    PROVE  KnownOnce' /\ KnownSettled'
<1> USE DEF ContentInv
<1>1. KnownOnce'
  BY DEF KnownOnce
<1>2. ASSUME NEW b \in Known'
      PROVE  (\E d \in deliveries' : d.batch = b) \/ b.from < checkpoint'
  <2>1. b \in Known
    BY <1>2
  <2>2. b.from \in Nat
    BY <2>1, KnownTyped DEF SerialInv
  <2> QED
    BY <2>1, <2>2, CheckpointStep DEF KnownSettled
<1> QED
  BY <1>1, <1>2 DEF KnownSettled

\* The steps that take up, publish or put down a delivery, and those that only
\* read, add no batch to what is known.
LEMMA OthersAddNothing ==
    ASSUME ContentInv, NEW f \in Flushers,
           \/ ReadPending(f) \/ ReadCheckpoint(f) \/ ReadEvents(f) \/ PrepareBegin(f)
           \/ PrepareLost(f) \/ PrepareExisting(f) \/ ReadPendingAgain(f)
           \/ PublishCheck(f) \/ PublishAppend(f) \/ PublishFails(f) \/ FailBegin(f)
           \/ AckBegin(f) \/ AckBehind(f) \/ Crash(f)
    PROVE  deliveries' = deliveries /\ Known' \subseteq Known
<1> USE DEF ContentInv, SerialInv, TypeOK, durable, local, vars
<1> DEFINE SendersKept ==
              \A g \in Flushers :
                 pc'[g] \in Sending => pc[g] \in Sending /\ delivery'[g] = delivery[g]
           Senders ==
              \A g \in Flushers : pc'[g] \in Sending => delivery'[g].batch \in Known
           FileKept == \A i \in DOMAIN file' : file'[i] \in Known
<1>0. SendersKept => Senders
  BY StoredAndSentKnown
<1>1. ASSUME deliveries' = deliveries, Senders, FileKept
      PROVE  Known' \subseteq Known
  <2>1. \A b \in Known' : \/ \E d \in deliveries' : b = d.batch
                          \/ \E i \in DOMAIN file' : b = file'[i]
                          \/ \E g \in Flushers : pc'[g] \in Sending /\ b = delivery'[g].batch
    BY DEF Known
  <2> QED
    BY <1>1, <2>1, StoredAndSentKnown
<1>2. CASE ReadPending(f) \/ ReadPendingAgain(f)
  <2>1. deliveries' = deliveries /\ file' = file
    BY <1>2 DEF ReadPending, ReadPendingAgain
  <2>2. Senders
    BY <1>2, StoredAndSentKnown DEF ReadPending, ReadPendingAgain, Return, GoTo, Sending
  <2> QED
    BY <1>1, <2>1, <2>2, StoredAndSentKnown
<1>3. CASE PrepareExisting(f)
  <2>1. deliveries' = deliveries /\ file' = file
    BY <1>3 DEF PrepareExisting
  <2>2. snapshot[f].deliveries = deliveries
    BY <1>3 DEF PrepareExisting, SnapshotCurrent, InTransaction
  <2>3. Senders
    BY <1>3, <2>2, StoredAndSentKnown DEF PrepareExisting, Stored, GoTo
  <2> QED
    BY <1>1, <2>1, <2>3, StoredAndSentKnown
<1>4. CASE ReadCheckpoint(f) \/ ReadEvents(f) \/ PrepareBegin(f) \/ PrepareLost(f)
  <2>1. deliveries' = deliveries /\ file' = file
    BY <1>4 DEF ReadCheckpoint, ReadEvents, PrepareBegin, PrepareLost
  <2>2. SendersKept
    BY <1>4 DEF ReadCheckpoint, ReadEvents, PrepareBegin, PrepareLost, GoTo, Sending
  <2> QED
    BY <1>0, <1>1, <2>1, <2>2, StoredAndSentKnown
<1>5. CASE PublishCheck(f) \/ FailBegin(f) \/ AckBegin(f) \/ AckBehind(f) \/ Crash(f)
  <2>1. deliveries' = deliveries /\ file' = file
    BY <1>5 DEF PublishCheck, FailBegin, AckBegin, AckBehind, Crash
  <2>2. SendersKept
    BY <1>5
    DEF PublishCheck, FailBegin, AckBegin, AckBehind, Crash, Return, GoTo, Sending
  <2> QED
    BY <1>0, <1>1, <2>1, <2>2, StoredAndSentKnown
<1>6. CASE PublishAppend(f) \/ PublishFails(f)
  <2>1. deliveries' = deliveries
    BY <1>6 DEF PublishAppend, PublishFails
  <2>2. SendersKept
    BY <1>6 DEF PublishAppend, PublishFails, GoTo, Sending
  <2>3. pc[f] \in Sending /\ delivery[f].batch \in Batch
    BY <1>6 DEF PublishAppend, PublishFails, LocalsHeld, Sending, Delivering, Delivery
  <2>4. file' = file \/ file' = Append(file, delivery[f].batch)
    BY <1>6 DEF PublishAppend, PublishFails
  <2>5. \A i \in DOMAIN file' :
           \/ file'[i] = delivery[f].batch
           \/ i \in DOMAIN file /\ file'[i] = file[i]
    BY <2>3, <2>4, AppendElements
  <2> QED
    BY <1>0, <1>1, <2>1, <2>2, <2>3, <2>5, StoredAndSentKnown
<1> QED
  BY <1>2, <1>3, <1>4, <1>5, <1>6

\* prepare() saves a delivery only for a range that no known batch has: a stored
\* one would have been found, an acknowledged one lies below the cursor.
LEMMA SavedIsNew ==
    ASSUME ContentInv, [Next]_vars, NEW f \in Flushers, PrepareSave(f)
    PROVE  KnownOnce' /\ KnownSettled'
<1> USE DEF ContentInv, SerialInv
<1> DEFINE c == delivery[f].batch
<1>1. pc[f] = "prepareTx" /\ delivery[f] \in Delivery
  BY DEF PrepareSave, LocalsHeld, Delivering
<1>2. snapshot[f].checkpoint = checkpoint /\ snapshot[f].deliveries = deliveries
  BY <1>1 DEF SnapshotCurrent, InTransaction
<1>3. c.from = checkpoint /\ c.from \in Nat
  <2>1. c.from \in Offset
    BY <1>1 DEF Delivery, Batch
  <2>2. c.from = checkpoint
    BY <1>2 DEF PrepareSave
  <2> QED
    BY <2>1, <2>2, ConstantAssumption DEF Offset
<1>4. \A d \in deliveries : BatchId(d.batch) # BatchId(c)
  BY <1>2 DEF PrepareSave, Stored
<1>5. \A b \in Known : BatchId(b) # BatchId(c)
  <2> SUFFICES ASSUME NEW b \in Known, BatchId(b) = BatchId(c) PROVE FALSE
    OBVIOUS
  <2>1. b.from = c.from
    BY DEF BatchId
  <2>2. ~(b.from < checkpoint)
    BY <1>3, <2>1
  <2> QED
    BY <1>4, <2>2 DEF KnownSettled
<1>6. deliveries' = deliveries \cup {delivery[f]}
  BY <1>4 DEF PrepareSave, With, Without
<1>7. checkpoint' = checkpoint /\ file' = file /\ delivery' = delivery
  BY DEF PrepareSave
<1>8. \A g \in Flushers : pc'[g] \in Sending => g = f \/ pc[g] \in Sending
  BY DEF PrepareSave, GoTo, TypeOK
<1>9. ASSUME NEW b \in Known' PROVE b \in Known \/ b = c
  <2>1. \/ \E d \in deliveries' : b = d.batch
        \/ \E i \in DOMAIN file : b = file[i]
        \/ \E g \in Flushers : pc'[g] \in Sending /\ b = delivery[g].batch
    BY <1>7 DEF Known
  <2> QED
    BY <1>6, <1>8, <2>1, StoredAndSentKnown
<1>10. KnownOnce'
  BY <1>5, <1>9 DEF KnownOnce
<1>11. KnownSettled'
  BY <1>6, <1>7, <1>9 DEF KnownSettled
<1> QED
  BY <1>10, <1>11

\* _record_failed_delivery replaces the stored delivery of the same batch.
LEMMA FailedIsStored ==
    ASSUME ContentInv, [Next]_vars, NEW f \in Flushers, FailCommit(f)
    PROVE  KnownOnce' /\ KnownSettled'
<1> USE DEF ContentInv, SerialInv
<1> DEFINE d == [delivery[f] EXCEPT !.attempts = @ + 1]
<1>1. pc[f] = "failTx" /\ delivery[f] \in Delivery
  BY DEF FailCommit, LocalsHeld, Delivering
<1>2. d.batch = delivery[f].batch /\ delivery[f].batch \in Known
  BY <1>1, StoredAndSentKnown DEF Delivery, Sending
<1>3. checkpoint' = checkpoint /\ file' = file
  BY DEF FailCommit
<1>4. \A g \in Flushers : pc'[g] \in Sending => pc[g] \in Sending /\ delivery'[g] = delivery[g]
  BY DEF FailCommit, Return, GoTo, TypeOK, Sending
<1>5. deliveries' = deliveries \/ deliveries' = With(deliveries, d)
  BY DEF FailCommit
<1>6. \A x \in deliveries' : x \in deliveries \/ x = d
  BY <1>5 DEF With, Without
<1>7. ASSUME NEW x \in deliveries PROVE \E y \in deliveries' : y.batch = x.batch
  <2>1. CASE deliveries' = deliveries \/ BatchId(x.batch) # BatchId(d.batch)
    BY <1>5, <2>1 DEF With, Without
  <2>2. CASE deliveries' = With(deliveries, d) /\ BatchId(x.batch) = BatchId(d.batch)
    BY <1>2, <2>2, StoredAndSentKnown DEF With, KnownOnce
  <2> QED
    BY <1>5, <2>1, <2>2
<1>8. ASSUME NEW b \in Known' PROVE b \in Known
  <2>1. \/ \E x \in deliveries' : b = x.batch
        \/ \E i \in DOMAIN file : b = file[i]
        \/ \E g \in Flushers : pc'[g] \in Sending /\ b = delivery'[g].batch
    BY <1>3 DEF Known
  <2> QED
    BY <1>2, <1>4, <1>6, <2>1, StoredAndSentKnown
<1>9. KnownOnce'
  BY <1>8 DEF KnownOnce
<1>10. KnownSettled'
  BY <1>3, <1>7, <1>8 DEF KnownSettled
<1> QED
  BY <1>9, <1>10

\* An acknowledged batch is no longer stored, but the cursor is past its start.
LEMMA AckedIsSettled ==
    ASSUME ContentInv, [Next]_vars, NEW f \in Flushers, AckCommit(f)
    PROVE  KnownOnce' /\ KnownSettled'
<1> USE DEF ContentInv, SerialInv
<1> DEFINE c == delivery[f].batch
<1>1. pc[f] = "ackTx" /\ delivery[f] \in Delivery
  BY DEF AckCommit, LocalsHeld, Delivering
<1>2. /\ c.from \in Nat
      /\ c.to \in Nat
      /\ c.from < c.to
      /\ checkpoint \in Nat
      /\ snapshot[f].checkpoint = checkpoint
  BY <1>1 DEF Delivery, Batch, Offset, LocalsNotBehind, Delivering, TypeOK,
              SnapshotCurrent, InTransaction
<1>3. c.from < checkpoint'
  BY <1>2 DEF AckCommit, AckCheckpoint
<1>4. file' = file /\ deliveries' = Without(deliveries, delivery[f])
  BY DEF AckCommit
<1>5. \A g \in Flushers : pc'[g] \in Sending => pc[g] \in Sending /\ delivery'[g] = delivery[g]
  BY DEF AckCommit, Return, GoTo, TypeOK, Sending
<1>6. ASSUME NEW b \in Known' PROVE b \in Known
  <2>1. \/ \E x \in deliveries' : b = x.batch
        \/ \E i \in DOMAIN file : b = file[i]
        \/ \E g \in Flushers : pc'[g] \in Sending /\ b = delivery'[g].batch
    BY <1>4 DEF Known
  <2> QED
    BY <1>4, <1>5, <2>1, StoredAndSentKnown DEF Without
<1>7. KnownOnce'
  BY <1>6 DEF KnownOnce
<1>8. ASSUME NEW b \in Known'
      PROVE  (\E x \in deliveries' : x.batch = b) \/ b.from < checkpoint'
  <2>1. b \in Known
    BY <1>6
  <2>2. b.from \in Nat
    BY <2>1, KnownTyped
  <2>3. CASE b.from < checkpoint
    BY <2>2, <2>3, CheckpointStep
  <2>4. ASSUME NEW x \in deliveries, x.batch = b
        PROVE  x \in deliveries' \/ b.from < checkpoint'
    BY <1>3, <1>4, <2>4 DEF Without, BatchId
  <2> QED
    BY <2>1, <2>3, <2>4 DEF KnownSettled
<1> QED
  BY <1>7, <1>8 DEF KnownSettled

\* Lines with the same batch_id are copies of one batch, although several workers
\* prepare the same range under different job states: with serialized
\* transactions the first prepared delivery is the only one ever sent.
THEOREM OneContent == Serialized => (Spec => []OneContentPerBatchId)
<1> SUFFICES ASSUME Serialized PROVE Spec => []OneContentPerBatchId
  OBVIOUS
<1>1. Init => KnownOnce /\ KnownSettled
  BY DEF Init, KnownOnce, KnownSettled, Known, Sending
<1>2. ContentInv /\ [Next]_vars => KnownOnce' /\ KnownSettled'
  <2> SUFFICES ASSUME ContentInv, [Next]_vars PROVE KnownOnce' /\ KnownSettled'
    OBVIOUS
  <2>1. CASE CommitEvent \/ UNCHANGED vars
    <3>1. /\ deliveries' = deliveries /\ file' = file
          /\ pc' = pc /\ delivery' = delivery
      BY <2>1 DEF CommitEvent, durable, local, vars
    <3>2. Known' = Known
      BY <3>1 DEF Known
    <3> QED
      BY <3>1, <3>2, NothingNew
  <2>2. ASSUME NEW f \in Flushers, Prepare(f) \/ Deliver(f) \/ Crash(f)
        PROVE  KnownOnce' /\ KnownSettled'
    BY <2>2, OthersAddNothing, NothingNew, SavedIsNew, FailedIsStored, AckedIsSettled
    DEF Prepare, Deliver
  <2> QED
    BY <2>1, <2>2 DEF Next
<1>3. KnownOnce => OneContentPerBatchId
  BY StoredAndSentKnown DEF KnownOnce, OneContentPerBatchId
<1>4. Spec => []SerialInv
  BY SerialInvariant
<1>5. SerialInv /\ KnownOnce /\ KnownSettled /\ [Next]_vars => KnownOnce' /\ KnownSettled'
  BY <1>2 DEF ContentInv
<1> QED
  BY <1>1, <1>3, <1>4, <1>5, PTL DEF Spec

-----------------------------------------------------------------------------
(***************************************************************************)
(* Retries: how often a batch is written                                   *)
(***************************************************************************)

\* Both counts are numbers.
LEMMA CountsFinite ==
    ASSUME TypeOK, NEW id
    PROVE  /\ IsFiniteSet(Lines(id)) /\ Cardinality(Lines(id)) \in Nat
           /\ IsFiniteSet(Appending(id)) /\ Cardinality(Appending(id)) \in Nat
           /\ Cardinality(Appending(id)) <= Cardinality(Flushers)
           /\ Cardinality(Flushers) \in Nat
<1>1. Len(file) \in Nat /\ Lines(id) \in SUBSET (1..Len(file))
  BY DEF TypeOK, Lines
<1>2. IsFiniteSet(1..Len(file))
  BY <1>1, FS_Interval
<1>3. IsFiniteSet(Lines(id))
  BY <1>1, <1>2, FS_Subset
<1>4. Appending(id) \in SUBSET Flushers
  BY DEF Appending
<1>5. IsFiniteSet(Appending(id)) /\ Cardinality(Appending(id)) <= Cardinality(Flushers)
  BY <1>4, FlushersAssumption, FS_Subset
<1> QED
  BY <1>3, <1>5, FlushersAssumption, FS_CardinalityType

\* What a step may do to a batch id: nobody joins those who append it, or it
\* had no line, or one of them has written its line.
LEMMA LinesStep ==
    ASSUME TypeOK, LocalsHeld, [Next]_vars, NEW id
    PROVE  \/ Lines(id)' = Lines(id) /\ Appending(id)' \subseteq Appending(id)
           \/ Lines(id)' = {}
           \/ \E f \in Appending(id) :
                 /\ Appending(id)' = Appending(id) \ {f}
                 /\ Lines(id)' = Lines(id) \cup {Len(file) + 1}
<1> USE DEF TypeOK, durable, local, vars
<1> DEFINE Kept == Lines(id)' = Lines(id) /\ Appending(id)' \subseteq Appending(id)
<1>1. ASSUME file' = file PROVE Lines(id)' = Lines(id)
  BY <1>1 DEF Lines
<1>2. CASE CommitEvent \/ UNCHANGED vars
  BY <1>1, <1>2 DEF CommitEvent, Appending
<1>3. ASSUME NEW f \in Flushers, Prepare(f) PROVE Kept
  <2>1. file' = file
    BY <1>3
    DEF Prepare, ReadPending, ReadCheckpoint, ReadEvents, PrepareBegin, PrepareLost,
        PrepareExisting, PrepareSave, ReadPendingAgain
  <2>2. \A g \in Flushers : pc'[g] = "append" => pc[g] = "append" /\ delivery'[g] = delivery[g]
    BY <1>3
    DEF Prepare, ReadPending, ReadCheckpoint, ReadEvents, PrepareBegin, PrepareLost,
        PrepareExisting, PrepareSave, ReadPendingAgain, GoTo, Return
  <2> QED
    BY <1>1, <2>1, <2>2 DEF Appending
<1>4. ASSUME NEW f \in Flushers,
             FailBegin(f) \/ FailCommit(f) \/ AckBegin(f) \/ AckCommit(f)
                \/ AckBehind(f) \/ Crash(f)
      PROVE  Kept
  <2>1. file' = file
    BY <1>4 DEF FailBegin, FailCommit, AckBegin, AckCommit, AckBehind, Crash
  <2>2. \A g \in Flushers : pc'[g] = "append" => pc[g] = "append" /\ delivery'[g] = delivery[g]
    BY <1>4
    DEF FailBegin, FailCommit, AckBegin, AckCommit, AckBehind, Crash, GoTo, Return
  <2> QED
    BY <1>1, <2>1, <2>2 DEF Appending
<1>5. ASSUME NEW f \in Flushers, PublishCheck(f) PROVE Kept \/ Lines(id)' = {}
  <2>1. file' = file /\ delivery' = delivery
    BY <1>5 DEF PublishCheck
  <2>2. CASE pc'[f] = "append" /\ BatchId(delivery[f].batch) = id
    <3>1. ~Contains(delivery[f].batch)
      BY <1>5, <2>2 DEF PublishCheck, GoTo
    <3> QED
      BY <2>1, <2>2, <3>1 DEF Lines, Contains
  <2>3. CASE ~(pc'[f] = "append" /\ BatchId(delivery[f].batch) = id)
    <3>1. \A g \in Flushers : g # f => pc'[g] = pc[g]
      BY <1>5 DEF PublishCheck, GoTo
    <3> QED
      BY <1>1, <2>1, <2>3, <3>1 DEF Appending
  <2> QED
    BY <2>2, <2>3
<1>6. ASSUME NEW f \in Flushers, PublishAppend(f) \/ PublishFails(f)
      PROVE  \/ Kept
             \/ /\ f \in Appending(id)
                /\ Appending(id)' = Appending(id) \ {f}
                /\ Lines(id)' = Lines(id) \cup {Len(file) + 1}
  <2>1. delivery[f].batch \in Batch
    BY <1>6 DEF PublishAppend, PublishFails, LocalsHeld, Delivering, Delivery
  <2>2. /\ delivery' = delivery /\ pc'[f] # "append"
        /\ \A g \in Flushers : g # f => pc'[g] = pc[g]
    BY <1>6 DEF PublishAppend, PublishFails, GoTo
  <2>3. Appending(id)' = Appending(id) \ {f}
    BY <2>2 DEF Appending
  <2>4. \/ file' = file
        \/ pc[f] = "append" /\ file' = Append(file, delivery[f].batch)
    BY <1>6 DEF PublishAppend, PublishFails
  <2>5. ASSUME pc[f] = "append", file' = Append(file, delivery[f].batch)
        PROVE  Lines(id)' = IF BatchId(delivery[f].batch) = id
                            THEN Lines(id) \cup {Len(file) + 1} ELSE Lines(id)
    <3>1. /\ DOMAIN file' = DOMAIN file \cup {Len(file) + 1}
          /\ file'[Len(file) + 1] = delivery[f].batch
          /\ \A i \in DOMAIN file : file'[i] = file[i]
          /\ Len(file) + 1 \notin DOMAIN file
      BY <2>1, <2>5
    <3>2. Lines(id)' = {i \in DOMAIN file' : BatchId(file'[i]) = id}
      BY DEF Lines
    <3> HIDE DEF TypeOK
    <3> QED
      BY <3>1, <3>2 DEF Lines
  <2>6. CASE file' = file
    BY <1>1, <2>3, <2>6
  <2>7. CASE pc[f] = "append" /\ file' = Append(file, delivery[f].batch)
    BY <2>3, <2>5, <2>7 DEF Appending
  <2> QED
    BY <2>4, <2>6, <2>7
<1> QED
  BY <1>2, <1>3, <1>4, <1>5, <1>6 DEF Next, Deliver

\* A retry of publish() never writes a batch again: for any number of flushers,
\* failures and crashes, and under both isolations, a batch has at most one line
\* for each flusher, so a single flusher writes it once.
THEOREM RetriesWriteNothing == Spec => []RetriesNeverDuplicate
<1>1. Init => LinesBounded
  <2> SUFFICES ASSUME Init, NEW id \in Offset \X Offset
               PROVE  Cardinality(Lines(id)) + Cardinality(Appending(id))
                         <= Cardinality(Flushers)
    BY DEF LinesBounded
  <2>1. Lines(id) = {} /\ Appending(id) = {}
    BY DEF Init, Lines, Appending
  <2>2. Cardinality(Flushers) \in Nat
    BY FlushersAssumption, FS_CardinalityType
  <2> QED
    BY <2>1, <2>2, FS_EmptySet
<1>2. TypeOK /\ LocalsHeld /\ TypeOK' /\ LinesBounded /\ [Next]_vars => LinesBounded'
  <2> SUFFICES ASSUME TypeOK, LocalsHeld, TypeOK', LinesBounded, [Next]_vars,
                      NEW id \in Offset \X Offset
               PROVE  Cardinality(Lines(id)') + Cardinality(Appending(id)')
                         <= Cardinality(Flushers)
    BY DEF LinesBounded
  <2> DEFINE L == Lines(id)
             A == Appending(id)
  <2>1. Cardinality(L) + Cardinality(A) <= Cardinality(Flushers)
    BY DEF LinesBounded
  <2>2. /\ IsFiniteSet(L) /\ Cardinality(L) \in Nat
        /\ IsFiniteSet(A) /\ Cardinality(A) \in Nat /\ Cardinality(Flushers) \in Nat
    BY CountsFinite
  <2>3. Appending(id)' \in SUBSET Flushers
    BY DEF Appending
  <2>4. /\ IsFiniteSet(Appending(id)') /\ Cardinality(Appending(id)') \in Nat
        /\ Cardinality(Appending(id)') <= Cardinality(Flushers)
    BY <2>3, FlushersAssumption, FS_Subset, FS_CardinalityType
  <2>5. CASE L' = L /\ A' \subseteq A
    <3>1. Cardinality(A') <= Cardinality(A)
      BY <2>2, <2>5, FS_Subset
    <3> QED
      BY <2>1, <2>2, <2>4, <2>5, <3>1
  <2>6. CASE L' = {}
    BY <2>2, <2>4, <2>6, FS_EmptySet
  <2>7. ASSUME NEW f \in A, A' = A \ {f}, L' = L \cup {Len(file) + 1}
        PROVE  Cardinality(L') + Cardinality(A') <= Cardinality(Flushers)
    <3>1. Cardinality(A') = Cardinality(A) - 1
      BY <2>2, <2>7, FS_RemoveElement
    <3>2. Cardinality(L') = Cardinality(L) \/ Cardinality(L') = Cardinality(L) + 1
      BY <2>2, <2>7, FS_AddElement
    <3> QED
      BY <2>1, <2>2, <3>1, <3>2
  <2> QED
    BY <2>5, <2>6, <2>7, LinesStep
<1>3. TypeOK /\ LinesBounded => RetriesNeverDuplicate
  <2> SUFFICES ASSUME TypeOK, LinesBounded, NEW i \in DOMAIN file
               PROVE  Cardinality(Lines(BatchId(file[i]))) <= Cardinality(Flushers)
    BY DEF RetriesNeverDuplicate
  <2>1. file[i] \in Batch
    BY DEF TypeOK
  <2>2. BatchId(file[i]) \in Offset \X Offset
    BY <2>1 DEF BatchId, Batch
  <2> QED
    BY <2>2, CountsFinite DEF LinesBounded
<1>4. Spec => [](TypeOK /\ LocalsHeld)
  BY TypeInit, TypeStep, PTL DEF Spec
<1> QED
  BY <1>1, <1>2, <1>3, <1>4, PTL DEF Spec

=============================================================================
