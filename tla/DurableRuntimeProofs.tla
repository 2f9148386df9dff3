------------------------ MODULE DurableRuntimeProofs ------------------------
(***************************************************************************)
(* Proofs about DurableRuntime for any commands, priorities, step and      *)
(* bounds: type correctness and the execution count for any number of      *)
(* workers; the recovery boundary and monotonic logical time for one       *)
(* worker whose engine is discarded when it raises.                        *)
(***************************************************************************)
EXTENDS DurableRuntime, FiniteSetTheorems, TLAPS

\* The arithmetic of the bounds.
LEMMA Bounds ==
    /\ MaxTime \in Nat /\ TickStep \in Nat /\ TickStep >= 1 /\ MaxSchedules \in Nat
    /\ Time \subseteq Nat /\ 0 \in Time
    /\ \A t \in 0..MaxTime : t \in Time /\ t + TickStep \in Time
BY ConstantAssumption DEF Time

\* A tick of an engine ends at a time and a tick number within the bounds.
LEMMA TickInBounds ==
    ASSUME NEW w \in Workers, clock[w] \in Clock, clock[w].now <= MaxTime,
           clock[w].tick <= clock[w].now
    PROVE  /\ TickEnd(w) \in Time
           /\ clock[w].tick + 1 \in 0..(MaxTime + 1)
           /\ clock[w].tick + 1 <= TickEnd(w)
           /\ TickEnd(w) > clock[w].now
<1>0. clock[w].now \in Time /\ clock[w].tick \in 0..(MaxTime + 1)
  BY DEF Clock
<1>1. clock[w].now \in Nat /\ clock[w].tick \in Nat
  BY <1>0, ConstantAssumption DEF Time
<1> QED
  BY <1>1, Bounds DEF TickEnd, Time

\* What a worker keeps: typed, with its clock and tick number in step.
LocalType ==
    /\ mode \in [Workers -> Mode]
    /\ clock \in [Workers -> Clock]
    /\ backendNow \in [Workers -> Time]
    /\ queue \in [Workers -> SUBSET Item]
    /\ target \in [Workers -> Time \cup {None}]
    /\ seen \in [Workers -> Position \cup {None}]
    /\ \A w \in Workers :
          /\ clock[w].tick <= clock[w].now
          /\ seen[w] # None => clock[w].now <= MaxTime /\ mode[w] # "down"

DurableType ==
    /\ work \subseteq Item
    /\ position \in Position
    /\ committedTick \in 0..(MaxTime + 1)
    /\ history \in Seq(Item)
    /\ accepted \in 0..MaxSchedules
    /\ withdrawn \in Nat
    /\ position.tick <= position.time

LEMMA TypeSplit == LocalType /\ DurableType => TypeOK /\ TicksBounded
BY DEF TypeOK, TicksBounded, LocalType, DurableType

LEMMA DiscardType ==
    ASSUME LocalType, NEW w \in Workers, Discard(w)
    PROVE  LocalType'
BY Bounds DEF LocalType, Discard, Mode, Clock

LEMMA RaiseType ==
    ASSUME LocalType, NEW w \in Workers, NEW t \in Time, NEW q \in SUBSET Item,
           Raise(w, t, q)
    PROVE  LocalType'
<1>1. CASE Discard(w)
  BY <1>1, DiscardType
<1>2. CASE ~DiscardOnError
  BY <1>2 DEF LocalType, Raise, Mode
<1> QED
  BY <1>1, <1>2 DEF Raise

LEMMA TickTransactionType ==
    ASSUME LocalType, DurableType, IsFiniteSet(work), NEW w \in Workers,
           TickTransaction(w)
    PROVE  DurableType'
<1> DEFINE ran == DueBy(TickEnd(w))
<1>1. clock[w] \in Clock /\ clock[w].now <= MaxTime /\ clock[w].tick <= clock[w].now
  BY DEF LocalType, TickTransaction
<1>2. Cardinality(ran) \in Nat
  BY FS_Subset, FS_CardinalityType DEF DueBy
<1>3. seen[w] \in Position /\ seen[w].exec \in Nat
  BY DEF LocalType, TickTransaction, Position
<1>4. position' = [time |-> TickEnd(w), exec |-> seen[w].exec + Cardinality(ran),
                   tick |-> clock[w].tick + 1]
  BY DEF TickTransaction, TickPosition
<1>5. position' \in Position /\ position'.tick <= position'.time
  BY <1>1, <1>2, <1>3, <1>4, TickInBounds DEF Position
<1>6. history' \in Seq(Item)
  <2>1. PICK s \in InOrder(ran) : history' = history \o s
    BY DEF TickTransaction
  <2>2. s \in [1..Cardinality(ran) -> Item]
    BY <2>1 DEF InOrder, DueBy, DurableType
  <2>3. s \in Seq(Item)
    BY <1>2, <2>2
  <2> QED
    BY <2>1, <2>3 DEF DurableType
<1>7. work' \subseteq Item /\ committedTick' \in 0..(MaxTime + 1)
  BY <1>1, TickInBounds DEF TickTransaction, Consume, DurableType
<1> QED
  BY <1>5, <1>6, <1>7 DEF TickTransaction, DurableType

\* The inductive invariant of any number of workers.
CountInv ==
    /\ LocalType
    /\ DurableType
    /\ IsFiniteSet(work)
    /\ SequenceCountsExecutions

LEMMA CountInit == Init => CountInv
<1> SUFFICES ASSUME Init PROVE CountInv
  OBVIOUS
<1>1. LocalType
  BY Bounds DEF Init, LocalType, Mode, Clock
<1>2. DurableType
  <2>1. position \in Position /\ position.tick <= position.time
    BY Bounds DEF Init, Position
  <2> QED
    BY <2>1, Bounds DEF Init, DurableType
<1>3. IsFiniteSet(work)
  BY FS_EmptySet DEF Init
<1> QED
  BY <1>1, <1>2, <1>3 DEF CountInv, SequenceCountsExecutions, Init

\* The number of transitions a tick commits is the number it adds.
LEMMA TickTransactionCounts ==
    ASSUME LocalType, DurableType, IsFiniteSet(work), SequenceCountsExecutions,
           NEW w \in Workers, TickTransaction(w)
    PROVE  SequenceCountsExecutions' /\ IsFiniteSet(work')
<1> DEFINE ran == DueBy(TickEnd(w))
<1>1. IsFiniteSet(ran) /\ Cardinality(ran) \in Nat
  BY FS_Subset, FS_CardinalityType DEF DueBy
<1>2. PICK s \in InOrder(ran) : history' = history \o s
  BY DEF TickTransaction
<1>3. s \in Seq(Item) /\ Len(s) = Cardinality(ran)
  <2>1. s \in [1..Cardinality(ran) -> Item]
    BY <1>2 DEF InOrder, DueBy, DurableType
  <2> QED
    BY <1>1, <2>1
<1>4. Len(history') = Len(history) + Cardinality(ran)
  <2>1. history \in Seq(Item)
    BY DEF DurableType
  <2>2. Len(history \o s) = Len(history) + Len(s)
    BY <1>3, <2>1
  <2> QED
    BY <1>2, <1>3, <2>2
<1>5. position'.exec = position.exec + Cardinality(ran)
  BY DEF TickTransaction, TickPosition, Admitted
<1>6. IsFiniteSet(work')
  BY FS_Subset DEF TickTransaction, Consume
<1> QED
  BY <1>4, <1>5, <1>6 DEF SequenceCountsExecutions

\* An execution through a live callback.
LEMMA CallbackCounts ==
    ASSUME CountInv, NEW w \in Workers, NEW i \in queue[w], Callback(w, i)
    PROVE  CountInv'
<1> USE DEF CountInv
<1>1. i \in Item /\ i.due \in Time /\ i.due \in Nat
  BY ConstantAssumption DEF Callback, DurableType, Item, Time
<1>2. clock[w] \in Clock /\ clock[w].tick \in 0..(MaxTime + 1)
        /\ clock[w].tick <= i.due /\ clock[w].now \in Nat /\ clock[w].tick \in Nat
  BY <1>1, ConstantAssumption DEF Callback, LocalType, Clock, Time
<1>3. [clock[w] EXCEPT !.now = i.due] \in Clock
  BY <1>1, <1>2 DEF Clock
<1>4. LocalType'
  <2>1. clock' = [clock EXCEPT ![w] = [clock[w] EXCEPT !.now = i.due]]
    BY DEF Callback, LocalType
  <2>2. clock' \in [Workers -> Clock]
    BY <1>3, <2>1 DEF LocalType
  <2>3. target[w] # None /\ i.due <= target[w] /\ UNCHANGED <<mode, target, seen>>
    BY DEF Callback, IsNext
  <2>4. i.due <= MaxTime
    BY <1>1, ConstantAssumption DEF Item
  <2>5. \A v \in Workers : clock'[v].tick <= clock'[v].now
                             /\ (seen'[v] # None => clock'[v].now <= MaxTime)
    BY <1>2, <2>1, <2>3, <2>4 DEF LocalType, Clock
  <2> QED
    BY <1>1, <2>2, <2>3, <2>5 DEF LocalType, Callback
<1>5. position' \in Position /\ position'.tick <= position'.time
        /\ position'.exec = position.exec + 1
  BY <1>1, <1>2 DEF Callback, CallbackPosition, Position, DurableType
<1>6. DurableType'
  BY <1>1, <1>5 DEF DurableType, Callback, Consume
<1>7. IsFiniteSet(work')
  BY FS_Subset DEF Callback, Consume
<1>8. Len(history') = Len(history) + 1
  BY <1>1 DEF Callback, DurableType
<1> QED
  BY <1>4, <1>5, <1>6, <1>7, <1>8 DEF SequenceCountsExecutions

\* schedule() adds one item; a refused callback may discard the engine.
LEMMA ScheduleCounts ==
    ASSUME CountInv, NEW w \in Workers, NEW item \in Item, Schedule(w, item)
    PROVE  CountInv'
<1> USE DEF CountInv
<1>1. LocalType'
  <2>1. CASE UNCHANGED ephemeral
    BY <2>1 DEF ephemeral, LocalType
  <2>2. CASE UNCHANGED <<mode, clock, backendNow, target, seen>>
               /\ queue' = [queue EXCEPT ![w] = @ \cup {item}]
    BY <2>2 DEF LocalType
  <2>3. CASE Raise(w, backendNow[w], queue[w])
    BY <2>3, RaiseType DEF LocalType
  <2> QED
    BY <2>1, <2>2, <2>3 DEF Schedule
<1>2. DurableType'
  BY ConstantAssumption DEF DurableType, Schedule
<1>3. IsFiniteSet(work')
  BY FS_AddElement DEF Schedule
<1> QED
  BY <1>1, <1>2, <1>3 DEF SequenceCountsExecutions, Schedule

LEMMA CountStep == CountInv /\ [Next]_vars => CountInv'
<1> SUFFICES ASSUME CountInv, [Next]_vars PROVE CountInv'
  OBVIOUS
<1> USE DEF CountInv
<1>0. ASSUME UNCHANGED durable, LocalType' PROVE CountInv'
  BY <1>0 DEF durable, DurableType, SequenceCountsExecutions
<1>1. ASSUME NEW w \in Workers, Stop(w) PROVE CountInv'
  BY <1>0, <1>1, DiscardType DEF Stop
<1>2. ASSUME NEW w \in Workers, Build(w) \/ Rebuild(w) PROVE CountInv'
  <2>1. [now |-> position.time, tick |-> position.tick] \in Clock
    BY DEF DurableType, Position, Clock
  <2>2. position.time \in Time
    BY DEF DurableType, Position
  <2>3. LocalType'
    BY <1>2, <2>1, <2>2 DEF Build, Rebuild, LocalType, DurableType, Mode
  <2> QED
    BY <1>0, <1>2, <2>3 DEF Build, Rebuild
<1>3. ASSUME NEW w \in Workers, RebuildRefused(w) PROVE CountInv'
  BY <1>0, <1>3, RaiseType DEF RebuildRefused, LocalType
<1>4. ASSUME NEW w \in Workers, NEW item \in Item, Schedule(w, item) PROVE CountInv'
  BY <1>4, ScheduleCounts
<1>5. ASSUME NEW w \in Workers, NEW i \in work, Cancel(w, i) PROVE CountInv'
  <2>1. LocalType'
    BY <1>5 DEF Cancel, ephemeral, LocalType
  <2>2. DurableType'
    BY <1>5 DEF Cancel, DurableType
  <2>3. IsFiniteSet(work')
    BY <1>5, FS_Subset DEF Cancel
  <2> QED
    BY <1>5, <2>1, <2>2, <2>3 DEF Cancel, SequenceCountsExecutions
<1>6. ASSUME NEW w \in Workers, NEW t \in 0..MaxTime, RunUntil(w, t) PROVE CountInv'
  BY <1>0, <1>6, Bounds DEF RunUntil, LocalType
<1>7. ASSUME NEW w \in Workers, NEW i \in queue[w], CallbackStale(w, i) PROVE CountInv'
  <2>1. i.due \in Time
    BY <1>7, Bounds DEF LocalType, Item
  <2> QED
    BY <1>0, <1>7, <2>1 DEF CallbackStale, LocalType
<1>8. ASSUME NEW w \in Workers, NEW i \in queue[w], Callback(w, i) PROVE CountInv'
  BY <1>8, CallbackCounts
<1>9. ASSUME NEW w \in Workers, NEW i \in queue[w], CallbackFails(w, i) PROVE CountInv'
  <2>1. i.due \in Time /\ queue[w] \ {i} \in SUBSET Item
    BY <1>9, Bounds DEF LocalType, Item
  <2> QED
    BY <1>0, <1>9, <2>1, RaiseType DEF CallbackFails
<1>10. ASSUME NEW w \in Workers, FinishRun(w) PROVE CountInv'
  BY <1>0, <1>10 DEF FinishRun, LocalType, Mode
<1>11. ASSUME NEW w \in Workers, TickRead(w) PROVE CountInv'
  BY <1>0, <1>11 DEF TickRead, LocalType, DurableType
<1>12. ASSUME NEW w \in Workers, Tick(w) PROVE CountInv'
  <2>1. /\ clock[w] \in Clock /\ clock[w].now <= MaxTime /\ clock[w].tick <= clock[w].now
    BY <1>12 DEF Tick, TickTransaction, LocalType
  <2>2. [now |-> TickEnd(w), tick |-> clock[w].tick + 1] \in Clock
    BY <2>1, TickInBounds DEF Clock
  <2>3. LocalType'
    BY <1>12, <2>1, <2>2, TickInBounds DEF Tick, LocalType, Mode
  <2> QED
    BY <1>12, <2>3, TickTransactionType, TickTransactionCounts DEF Tick
<1>13. ASSUME NEW w \in Workers, TickBackwards(w) PROVE CountInv'
  <2>1. /\ clock[w] \in Clock /\ clock[w].now <= MaxTime /\ clock[w].tick <= clock[w].now
    BY <1>13 DEF TickBackwards, TickTransaction, LocalType
  <2>2. [now |-> TickEnd(w), tick |-> clock[w].tick + 1] \in Clock
    BY <2>1, TickInBounds DEF Clock
  <2>3. LocalType'
    <3>1. CASE Discard(w)
      BY <3>1, DiscardType
    <3>2. CASE ~DiscardOnError
      BY <1>13, <2>1, <2>2, <3>2, TickInBounds DEF TickBackwards, LocalType
    <3> QED
      BY <1>13, <3>1, <3>2 DEF TickBackwards
  <2> QED
    BY <1>13, <2>3, TickTransactionType, TickTransactionCounts DEF TickBackwards
<1>14. ASSUME NEW w \in Workers, TickFails(w) PROVE CountInv'
  BY <1>0, <1>14, RaiseType DEF TickFails, LocalType
<1>15. CASE UNCHANGED vars
  BY <1>0, <1>15 DEF vars, ephemeral, LocalType
<1> QED
  BY <1>1, <1>2, <1>3, <1>4, <1>5, <1>6, <1>7, <1>8, <1>9, <1>10, <1>11, <1>12,
     <1>13, <1>14, <1>15 DEF Next, Run, AdvanceTick

\* Every reachable state is typed, for any number of workers.
THEOREM TypeCorrect == Spec => []TypeOK
<1>1. CountInv => TypeOK
  BY TypeSplit DEF CountInv
<1> QED
  BY CountInit, CountStep, <1>1, PTL DEF Spec

\* execution_sequence counts the committed executions for any number of
\* workers, although a tick adds to a position it read before its transaction.
THEOREM ExecutionsCounted == Spec => []SequenceCountsExecutions
<1>1. CountInv => SequenceCountsExecutions
  BY DEF CountInv
<1> QED
  BY CountInit, CountStep, <1>1, PTL DEF Spec

-----------------------------------------------------------------------------
(***************************************************************************)
(* One worker, whose engine is discarded when it raises                    *)
(***************************************************************************)

\* What no step of the worker may do to logical time, tick and sequence.
Forward ==
    /\ position'.time >= position.time
    /\ position'.tick >= position.tick
    /\ position'.exec >= position.exec

\* The numbers that the comparisons of the runtime are about.
LEMMA Numbers ==
    ASSUME CountInv
    PROVE  /\ position.time \in Nat /\ position.tick \in Nat /\ position.exec \in Nat
           /\ \A i \in work : i \in Item /\ i.due \in Nat /\ i.due <= MaxTime
           /\ \A w \in Workers :
                 /\ backendNow[w] \in Nat /\ clock[w].now \in Nat /\ clock[w].tick \in Nat
                 /\ target[w] # None => target[w] \in Nat
                 /\ \A i \in queue[w] : i \in Item /\ i.due \in Nat
<1>1. \A i \in Item : i.due \in Nat /\ i.due <= MaxTime
  BY ConstantAssumption DEF Item
<1>2. position.time \in Time /\ position.tick \in 0..(MaxTime + 1) /\ position.exec \in Nat
  BY DEF CountInv, DurableType, Position
<1>3. position.time \in Nat /\ position.tick \in Nat
  BY <1>2, ConstantAssumption DEF Time
<1>4. \A w \in Workers : clock[w].now \in Time /\ clock[w].tick \in 0..(MaxTime + 1)
  BY DEF CountInv, LocalType, Clock
<1>5. \A w \in Workers : clock[w].now \in Nat /\ clock[w].tick \in Nat
  BY <1>4, ConstantAssumption DEF Time
<1>6. \A w \in Workers :
         backendNow[w] \in Nat /\ (target[w] # None => target[w] \in Nat)
  <2>1. \A w \in Workers : backendNow[w] \in Time /\ (target[w] # None => target[w] \in Time)
    BY DEF CountInv, LocalType
  <2> QED
    BY <2>1, ConstantAssumption DEF Time
<1> QED
  BY <1>1, <1>2, <1>3, <1>5, <1>6 DEF CountInv, LocalType, DurableType

\* A step that leaves the durable state alone keeps the rest of the boundary.
LEMMA DurableKept ==
    ASSUME CountInv, EveryPositionRecoverable, UNCHANGED durable
    PROVE  EveryPositionRecoverable' /\ Forward
BY Numbers DEF durable, EveryPositionRecoverable, Forward

\* A discarded engine is in step with any durable state.
LEMMA DiscardInStep ==
    ASSUME LocalType, NEW w \in Workers, Discard(w)
    PROVE  InStep(w)'
BY DEF Discard, InStep, LocalType

\* A live callback is the earliest pending item, so none is passed over.
LEMMA CallbackInStep ==
    ASSUME CountInv, EveryPositionRecoverable, NEW w \in Workers, InStep(w),
           NEW i \in queue[w], Callback(w, i)
    PROVE  InStep(w)' /\ EveryPositionRecoverable' /\ Forward
<1>1. i \in work /\ i.due \in Nat /\ i.due >= clock[w].now /\ target[w] # None
        /\ i.due <= target[w] /\ \A j \in queue[w] : ~Before(j, i)
  BY Numbers DEF Callback, IsNext
<1>2. mode[w] = "live"
  <2>1. mode[w] # "catchup"
    BY <1>1, Numbers DEF InStep
  <2> QED
    BY <1>1, <2>1 DEF InStep, CountInv, LocalType, Mode
<1>3. \A j \in queue[w] : j.due >= i.due
  BY <1>1, Numbers DEF Before
<1>4. position' = [time |-> i.due, exec |-> position.exec + 1, tick |-> clock[w].tick]
  BY DEF Callback, CallbackPosition
<1>5. clock[w].now = position.time /\ clock[w].tick = position.tick
  BY <1>2 DEF InStep
<1>6. Forward
  BY <1>1, <1>4, <1>5, Numbers DEF Forward
<1>7. EveryPositionRecoverable'
  BY <1>2, <1>3, <1>4 DEF EveryPositionRecoverable, Callback, Consume, InStep
<1>8. clock'[w].now = i.due /\ clock'[w].tick = clock[w].tick
  <2>1. clock[w] \in Clock
    BY DEF CountInv, LocalType
  <2>2. clock'[w] = [clock[w] EXCEPT !.now = i.due]
    BY DEF Callback, CountInv, LocalType
  <2> QED
    BY <2>1, <2>2 DEF Clock
<1>9. /\ mode'[w] = "live" /\ target'[w] = target[w] /\ seen'[w] = None
      /\ backendNow'[w] = i.due
      /\ queue'[w] = queue[w] \ {i} /\ work' = work \ {i}
  BY <1>1, <1>2 DEF Callback, Consume, CountInv, LocalType, InStep
<1>10. InStep(w)'
  BY <1>1, <1>2, <1>3, <1>4, <1>5, <1>8, <1>9, Numbers DEF InStep
<1> QED
  BY <1>6, <1>7, <1>10

\* A tick runs everything due by its end, so what is left is due later.
LEMMA TickForward ==
    ASSUME CountInv, NEW w \in Workers, InStep(w), mode[w] # "down", TickTransaction(w)
    PROVE  /\ Forward
           /\ \A i \in work' : i.due > position'.time /\ i.due >= position'.time
           /\ work' \subseteq work
           /\ position'.time = TickEnd(w) /\ position'.tick = clock[w].tick + 1
<1> DEFINE ran == DueBy(TickEnd(w))
<1>1. /\ clock[w] \in Clock /\ clock[w].now <= MaxTime /\ clock[w].tick <= clock[w].now
      /\ clock[w].now = position.time /\ clock[w].tick = position.tick /\ seen[w] = position
  BY DEF CountInv, LocalType, InStep, TickTransaction
<1>2. TickEnd(w) \in Nat /\ TickEnd(w) > clock[w].now
  BY <1>1, TickInBounds, Bounds
<1>3. Cardinality(ran) \in Nat
  BY FS_Subset, FS_CardinalityType DEF DueBy, CountInv
<1>4. position' = [time |-> TickEnd(w), exec |-> position.exec + Cardinality(ran),
                   tick |-> clock[w].tick + 1]
  BY <1>1 DEF TickTransaction, TickPosition
<1>5. Forward
  BY <1>1, <1>2, <1>3, <1>4, Numbers DEF Forward
<1>6. work' = work \ ran
  BY DEF TickTransaction, Consume
<1> QED
  BY <1>2, <1>4, <1>5, <1>6, Numbers DEF DueBy

\* Every step of the only worker keeps its engine in step with what is durable.
LEMMA RuntimeStep ==
    ASSUME NEW w, Workers = {w}, DiscardOnError,
           CountInv, EveryPositionRecoverable, InStep(w), [Next]_vars
    PROVE  InStep(w)' /\ EveryPositionRecoverable' /\ Forward
<1> DEFINE Goal == InStep(w)' /\ EveryPositionRecoverable' /\ Forward
<1> USE DEF CountInv
<1>0. w \in Workers
  OBVIOUS
<1>1. ASSUME UNCHANGED durable, InStep(w)' PROVE Goal
  BY <1>1, DurableKept
<1>2. ASSUME UNCHANGED durable, Discard(w) PROVE Goal
  BY <1>0, <1>1, <1>2, DiscardInStep
<1>3. ASSUME NEW t, NEW q, Raise(w, t, q) PROVE Discard(w)
  BY <1>3 DEF Raise
<1>4. CASE Stop(w)
  BY <1>2, <1>4 DEF Stop
<1>5. CASE Build(w)
  BY <1>1, <1>5 DEF Build, InStep, LocalType, durable
<1>6. CASE Rebuild(w)
  <2>1. /\ mode'[w] = "live" /\ target'[w] = None /\ seen'[w] = None
        /\ backendNow'[w] = position.time /\ queue'[w] = work
        /\ clock'[w] = [now |-> position.time, tick |-> position.tick]
        /\ UNCHANGED durable
    BY <1>6 DEF Rebuild, InStep, LocalType
  <2>2. InStep(w)'
    BY <2>1, Numbers DEF InStep, durable, EveryPositionRecoverable
  <2> QED
    BY <1>1, <2>1, <2>2
<1>7. CASE RebuildRefused(w)
  BY <1>2, <1>3, <1>7 DEF RebuildRefused
<1>8. ASSUME NEW item \in Item, Schedule(w, item) PROVE Goal
  <2>1. UNCHANGED position /\ work' = work \cup {item}
    BY <1>8 DEF Schedule
  <2>2. item.due \in Nat /\ item.due >= position.time
    <3>1. item.due \in Nat
      BY ConstantAssumption DEF Item
    <3>2. CASE mode[w] = "live"
      BY <1>8, <3>1, <3>2, Numbers DEF Schedule, Earliest, InStep
    <3>3. CASE mode[w] = "built"
      BY <1>8, <3>1, <3>3, Numbers DEF Schedule, Earliest, InStep
    <3> QED
      BY <1>8, <3>2, <3>3 DEF Schedule
  <2>3. EveryPositionRecoverable' /\ Forward
    BY <2>1, <2>2, Numbers DEF EveryPositionRecoverable, Forward
  <2>4. InStep(w)'
    <3>1. CASE Discard(w)
      BY <1>0, <3>1, DiscardInStep
    <3>2. CASE UNCHANGED ephemeral /\ mode[w] = "built"
      BY <2>1, <3>2 DEF ephemeral, InStep
    <3>3. CASE /\ mode[w] = "live"
               /\ queue' = [queue EXCEPT ![w] = @ \cup {item}]
               /\ UNCHANGED <<mode, clock, backendNow, target, seen>>
      <4>1. queue'[w] = queue[w] \cup {item}
        BY <3>3 DEF LocalType
      <4>2. item.due >= backendNow[w]
        BY <1>8, <3>3 DEF Schedule, Earliest
      <4>3. \A i \in queue'[w] : i.due >= backendNow'[w]
        BY <3>3, <4>1, <4>2 DEF InStep
      <4> QED
        BY <2>1, <3>3, <4>1, <4>3 DEF InStep
    <3> QED
      BY <1>3, <1>8, <3>1, <3>2, <3>3 DEF Schedule
  <2> QED
    BY <2>3, <2>4
<1>9. ASSUME NEW i \in work, Cancel(w, i) PROVE Goal
  <2>1. UNCHANGED <<position, mode, clock, backendNow, queue, target, seen>>
          /\ work' \subseteq work
    BY <1>9 DEF Cancel, ephemeral
  <2> QED
    BY <2>1, Numbers DEF InStep, EveryPositionRecoverable, Forward
<1>10. ASSUME NEW t \in 0..MaxTime, RunUntil(w, t) PROVE Goal
  BY <1>0, <1>1, <1>10 DEF RunUntil, InStep, LocalType, durable
<1>11. ASSUME NEW i \in queue[w], CallbackStale(w, i) PROVE Goal
  <2>1. /\ i.due \in Nat /\ i.due <= target[w] /\ target[w] # None /\ i \notin work
        /\ UNCHANGED <<durable, mode, clock, target, seen>>
        /\ \A j \in queue[w] : ~Before(j, i)
    BY <1>11, Numbers DEF CallbackStale, IsNext
  <2>2. backendNow'[w] = i.due /\ queue'[w] = queue[w] \ {i}
    BY <1>0, <1>11 DEF CallbackStale, LocalType
  <2>3. mode[w] = "live" =>
           i.due >= position.time /\ \A j \in queue[w] : j.due >= i.due
    BY <1>0, <2>1, Numbers DEF InStep, Before
  <2>4. InStep(w)'
    BY <2>1, <2>2, <2>3, Numbers DEF InStep, durable
  <2> QED
    BY <1>1, <2>1, <2>4
<1>12. ASSUME NEW i \in queue[w], Callback(w, i) PROVE Goal
  BY <1>0, <1>12, CallbackInStep
<1>13. ASSUME NEW i \in queue[w], CallbackFails(w, i) PROVE Goal
  BY <1>2, <1>3, <1>13 DEF CallbackFails
<1>14. CASE FinishRun(w)
  <2>1. /\ target[w] # None /\ target[w] \in Nat
        /\ \A i \in queue[w] : i.due >= target[w]
        /\ UNCHANGED <<durable, clock, queue, seen>>
    BY <1>0, <1>14, Numbers DEF FinishRun
  <2>2. backendNow'[w] = target[w] /\ target'[w] = None /\ mode'[w] = "live"
    BY <1>0, <1>14 DEF FinishRun, LocalType
  <2>3. mode[w] \in {"live", "catchup"} /\ target[w] >= position.time
    BY <1>0, <2>1, Numbers DEF InStep, LocalType, Mode
  <2>4. InStep(w)'
    BY <2>1, <2>2, <2>3 DEF InStep, durable
  <2> QED
    BY <1>1, <2>1, <2>4
<1>15. CASE TickRead(w)
  BY <1>0, <1>1, <1>15 DEF TickRead, InStep, LocalType, durable
<1>16. CASE Tick(w)
  <2>1. /\ Forward
        /\ \A i \in work' : i.due > position'.time /\ i.due >= position'.time
        /\ work' \subseteq work
        /\ position'.time = TickEnd(w) /\ position'.tick = clock[w].tick + 1
    BY <1>0, <1>16, TickForward DEF Tick
  <2>2. EveryPositionRecoverable'
    BY <2>1 DEF EveryPositionRecoverable
  <2>3. clock'[w].now = TickEnd(w) /\ clock'[w].tick = clock[w].tick + 1
    BY <1>0, <1>16 DEF Tick, LocalType
  <2>4. InStep(w)'
    BY <1>0, <1>16, <2>1, <2>3 DEF Tick, InStep, LocalType
  <2> QED
    BY <2>1, <2>2, <2>4
<1>17. CASE TickBackwards(w)
  <2>1. Forward /\ \A i \in work' : i.due >= position'.time
    BY <1>0, <1>17, TickForward DEF TickBackwards
  <2>2. EveryPositionRecoverable'
    BY <2>1 DEF EveryPositionRecoverable
  <2>3. InStep(w)'
    BY <1>0, <1>17, DiscardInStep DEF TickBackwards
  <2> QED
    BY <2>1, <2>2, <2>3
<1>18. CASE TickFails(w)
  BY <1>2, <1>3, <1>18 DEF TickFails
<1>19. CASE UNCHANGED vars
  BY <1>1, <1>19 DEF vars, durable, ephemeral, InStep
<1> QED
  BY <1>4, <1>5, <1>6, <1>7, <1>8, <1>9, <1>10, <1>11, <1>12, <1>13, <1>14, <1>15,
     <1>16, <1>17, <1>18, <1>19 DEF Next, Run, AdvanceTick

LEMMA RuntimeInvariant ==
    ASSUME NEW w, Workers = {w}, DiscardOnError
    PROVE  Spec => [](CountInv /\ EveryPositionRecoverable /\ InStep(w))
<1>1. Init => CountInv /\ EveryPositionRecoverable /\ InStep(w)
  BY CountInit DEF Init, EveryPositionRecoverable, InStep
<1>2. CountInv /\ EveryPositionRecoverable /\ InStep(w) /\ [Next]_vars
        => (CountInv /\ EveryPositionRecoverable /\ InStep(w))'
  BY CountStep, RuntimeStep
<1> QED
  BY <1>1, <1>2, PTL DEF Spec

\* Every position the runtime of one worker persists is a valid recovery
\* boundary, whether a tick or a live callback committed it: rebuild_backend
\* never refuses pending work as due before it.
THEOREM PositionsRecoverable ==
    ASSUME NEW w, Workers = {w}, DiscardOnError
    PROVE  Spec => []EveryPositionRecoverable
BY RuntimeInvariant, PTL

\* Logical time, tick and execution sequence of one worker never go back,
\* through ticks, live callbacks, failures and rebuilds.
THEOREM PositionNeverRegresses ==
    ASSUME NEW w, Workers = {w}, DiscardOnError
    PROVE  Spec => PositionMonotonic
<1>1. CountInv /\ EveryPositionRecoverable /\ InStep(w) /\ [Next]_vars
        => [ /\ position'.time >= position.time
             /\ position'.tick >= position.tick
             /\ position'.exec >= position.exec ]_vars
  BY RuntimeStep DEF Forward
<1> QED
  BY <1>1, RuntimeInvariant, PTL DEF Spec, PositionMonotonic

-----------------------------------------------------------------------------
(***************************************************************************)
(* Any number of workers: nothing is lost or run twice                     *)
(***************************************************************************)

\* What a transaction takes out of the pending work it adds to the history or
\* to the withdrawn items.
LEMMA TakenOut ==
    ASSUME IsFiniteSet(work), NEW ran \in SUBSET work
    PROVE  /\ Cardinality(work) \in Nat /\ Cardinality(ran) \in Nat
           /\ Cardinality(work \ ran) = Cardinality(work) - Cardinality(ran)
<1>1. IsFiniteSet(ran) /\ IsFiniteSet(work \ ran)
  BY FS_Subset
<1>2. Cardinality(work) \in Nat /\ Cardinality(ran) \in Nat /\ Cardinality(work \ ran) \in Nat
  BY <1>1, FS_CardinalityType
<1>3. Cardinality(ran \cup (work \ ran)) =
         Cardinality(ran) + Cardinality(work \ ran) - Cardinality(ran \cap (work \ ran))
  BY <1>1, FS_Union
<1>4. ran \cup (work \ ran) = work /\ ran \cap (work \ ran) = {}
  OBVIOUS
<1> QED
  BY <1>2, <1>3, <1>4, FS_EmptySet

LEMMA TickBalances ==
    ASSUME CountInv, NothingLostOrRepeated, NEW w \in Workers, TickTransaction(w)
    PROVE  NothingLostOrRepeated'
<1> DEFINE ran == DueBy(TickEnd(w))
<1>1. ran \in SUBSET work
  BY DEF DueBy
<1>2. work' = work \ ran /\ accepted' = accepted /\ withdrawn' = withdrawn
  BY DEF TickTransaction, Consume
<1>3. PICK s \in InOrder(ran) : history' = history \o s
  BY DEF TickTransaction
<1>4. Cardinality(work) \in Nat /\ Cardinality(ran) \in Nat
        /\ Cardinality(work') = Cardinality(work) - Cardinality(ran)
  BY <1>1, <1>2, TakenOut DEF CountInv
<1>5. s \in Seq(Item) /\ Len(s) = Cardinality(ran)
  <2>1. s \in [1..Cardinality(ran) -> Item]
    BY <1>3 DEF InOrder, DueBy, CountInv, DurableType
  <2> QED
    BY <1>4, <2>1
<1>6. history \in Seq(Item) /\ withdrawn \in Nat /\ accepted \in Nat
  BY ConstantAssumption DEF CountInv, DurableType
<1>7. Len(history') = Len(history) + Cardinality(ran)
  <2>1. Len(history \o s) = Len(history) + Len(s)
    BY <1>5, <1>6
  <2> QED
    BY <1>3, <1>5, <2>1
<1> QED
  BY <1>2, <1>4, <1>6, <1>7 DEF NothingLostOrRepeated

\* For any number of workers, whatever callbacks, ticks, failures and restarts
\* come between: an accepted item is pending, withdrawn or executed once.
THEOREM ExactlyOnce == Spec => []NothingLostOrRepeated
<1>1. Init => NothingLostOrRepeated
  BY FS_EmptySet DEF Init, NothingLostOrRepeated
<1>2. CountInv /\ NothingLostOrRepeated /\ [Next]_vars => NothingLostOrRepeated'
  <2> SUFFICES ASSUME CountInv, NothingLostOrRepeated, [Next]_vars
               PROVE  NothingLostOrRepeated'
    OBVIOUS
  <2>0. /\ history \in Seq(Item) /\ Len(history) \in Nat /\ withdrawn \in Nat
        /\ accepted \in Nat /\ IsFiniteSet(work) /\ Cardinality(work) \in Nat
    BY ConstantAssumption, FS_CardinalityType DEF CountInv, DurableType
  <2>1. ASSUME UNCHANGED durable PROVE NothingLostOrRepeated'
    BY <2>1 DEF durable, NothingLostOrRepeated
  <2>2. ASSUME NEW w \in Workers, NEW item \in Item, Schedule(w, item)
        PROVE  NothingLostOrRepeated'
    <3>1. /\ item \notin work /\ work' = work \cup {item}
          /\ accepted' = accepted + 1 /\ UNCHANGED <<history, withdrawn>>
      BY <2>2 DEF Schedule, Pending
    <3>2. Cardinality(work') = Cardinality(work) + 1
      BY <2>0, <3>1, FS_AddElement
    <3> QED
      BY <2>0, <3>1, <3>2 DEF NothingLostOrRepeated
  <2>3. ASSUME NEW w \in Workers, NEW i \in work, Cancel(w, i)
        PROVE  NothingLostOrRepeated'
    <3>1. /\ work' = work \ {i} /\ withdrawn' = withdrawn + 1
          /\ UNCHANGED <<history, accepted>>
      BY <2>3 DEF Cancel
    <3>2. Cardinality(work') = Cardinality(work) - 1
      BY <2>0, <3>1, FS_RemoveElement
    <3> QED
      BY <2>0, <3>1, <3>2 DEF NothingLostOrRepeated
  <2>4. ASSUME NEW w \in Workers, NEW i \in queue[w], Callback(w, i)
        PROVE  NothingLostOrRepeated'
    <3>1. /\ i \in work /\ work' = work \ {i} /\ history' = Append(history, i)
          /\ UNCHANGED <<accepted, withdrawn>>
      BY <2>4 DEF Callback, Consume
    <3>2. Cardinality(work') = Cardinality(work) - 1
      BY <2>0, <3>1, FS_RemoveElement
    <3>3. i \in Item
      BY <3>1 DEF CountInv, DurableType
    <3>4. Len(history') = Len(history) + 1
      BY <2>0, <3>1, <3>3
    <3> QED
      BY <2>0, <3>1, <3>2, <3>4 DEF NothingLostOrRepeated
  <2>5. ASSUME NEW w \in Workers, Tick(w) \/ TickBackwards(w) PROVE NothingLostOrRepeated'
    BY <2>5, TickBalances DEF Tick, TickBackwards
  <2>6. ASSUME NEW w \in Workers,
               \/ Stop(w) \/ Build(w) \/ Rebuild(w) \/ RebuildRefused(w)
               \/ \E t \in 0..MaxTime : RunUntil(w, t)
               \/ \E i \in queue[w] : CallbackStale(w, i) \/ CallbackFails(w, i)
               \/ FinishRun(w) \/ TickRead(w) \/ TickFails(w)
        PROVE  NothingLostOrRepeated'
    BY <2>1, <2>6
    DEF Stop, Build, Rebuild, RebuildRefused, RunUntil, CallbackStale, CallbackFails,
        FinishRun, TickRead, TickFails
  <2>7. CASE UNCHANGED vars
    BY <2>1, <2>7 DEF vars
  <2> QED
    BY <2>2, <2>3, <2>4, <2>5, <2>6, <2>7 DEF Next, Run, AdvanceTick
<1> QED
  BY <1>1, <1>2, CountInit, CountStep, PTL DEF Spec

-----------------------------------------------------------------------------
(***************************************************************************)
(* One worker implements the abstract scheduler                            *)
(***************************************************************************)

\* The abstract specification counts as the runtime does.
LEMMA SameCardinality == ASSUME NEW S PROVE Abstract!Cardinality(S) = Cardinality(S)
BY DEF Abstract!Cardinality, Cardinality

\* A committed tick runs everything due by its end, in order.
LEMMA TickAdvances ==
    ASSUME CountInv, EveryPositionRecoverable, NEW w \in Workers, InStep(w),
           mode[w] # "down", TickTransaction(w)
    PROVE  Abstract!Next
<1> DEFINE ran == DueBy(TickEnd(w))
           t == TickEnd(w)
<1>1. /\ clock[w] \in Clock /\ clock[w].now <= MaxTime /\ clock[w].tick <= clock[w].now
      /\ clock[w].now = position.time
  BY DEF CountInv, LocalType, InStep, TickTransaction
<1>2. t \in Time /\ t \in Nat /\ t >= position.time
  <2>1. t \in Time /\ t > clock[w].now
    BY <1>1, TickInBounds
  <2>2. t \in Nat
    BY <2>1, Bounds
  <2> QED
    BY <1>1, <2>1, <2>2, Numbers
<1>3. ran \in SUBSET work /\ \A i \in ran : position.time <= i.due /\ i.due <= t
  BY Numbers DEF DueBy, EveryPositionRecoverable
<1>4. \A i \in work \ ran : i.due >= t
  BY <1>2, Numbers DEF DueBy
<1>5. work' = work \ ran /\ position'.time = t /\ withdrawn' = withdrawn
  BY DEF TickTransaction, Consume, TickPosition
<1>6. PICK s \in InOrder(ran) : history' = history \o s
  BY DEF TickTransaction
<1>7. s \in [1..Cardinality(ran) -> ran]
        /\ \A j, k \in DOMAIN s : j < k => Before(s[j], s[k])
  BY <1>6 DEF InOrder
<1>8. ASSUME NEW i \in ran, NEW j \in ran, Before(i, j) PROVE i # j /\ i.due <= j.due
  <2>1. i \in Item /\ j \in Item
    BY <1>3 DEF CountInv, DurableType
  <2>2. /\ i.due \in Nat /\ j.due \in Nat /\ i.prio \in Nat /\ j.prio \in Nat
        /\ i.seq \in Nat /\ j.seq \in Nat
    <3>1. ASSUME NEW x \in Item PROVE x.due \in Nat /\ x.prio \in Nat /\ x.seq \in Nat
      <4>1. x.due \in 0..MaxTime /\ x.prio \in Priorities /\ x.seq \in 1..MaxSchedules
        BY DEF Item
      <4>2. x.due \in Nat /\ x.seq \in Nat
        BY <4>1, Bounds
      <4>3. x.prio \in Nat
        BY <4>1, ConstantAssumption, Zenon
      <4> QED
        BY <4>2, <4>3
    <3> QED
      BY <2>1, <3>1
  <2> QED
    BY <1>8, <2>2 DEF Before
<1>9. \A j, k \in DOMAIN s : j < k => s[j] # s[k] /\ s[j].due <= s[k].due
  BY <1>7, <1>8
<1>10. Abstract!Advance(ran, t)
  BY <1>2, <1>3, <1>4, <1>5, <1>6, <1>7, <1>9, SameCardinality DEF Abstract!Advance
<1> QED
  BY <1>2, <1>3, <1>10 DEF Abstract!Next

\* A live callback runs the earliest pending item, at its due time.
LEMMA CallbackAdvances ==
    ASSUME CountInv, EveryPositionRecoverable, NEW w \in Workers, InStep(w),
           NEW i \in queue[w], Callback(w, i)
    PROVE  Abstract!Next
<1>1. /\ i \in work /\ i.due \in Nat /\ i.due \in Time /\ i \in Item
      /\ work' = work \ {i} /\ history' = Append(history, i)
      /\ position'.time = i.due /\ withdrawn' = withdrawn
  BY Numbers, Bounds DEF Callback, Consume, CallbackPosition, Item, CountInv, DurableType
<1>2. i.due >= position.time
  BY <1>1, Numbers DEF EveryPositionRecoverable
<1>3. \A j \in work \ {i} : j.due >= i.due
  BY <1>1, CallbackInStep DEF EveryPositionRecoverable
<1> DEFINE order == <<i>>
<1>4. order \in [1..Cardinality({i}) -> {i}]
        /\ \A j, k \in DOMAIN order : j < k => order[j] # order[k] /\ order[j].due <= order[k].due
  <2>1. Cardinality({i}) = 1
    BY FS_Singleton
  <2>2. order \in [1..1 -> {i}] /\ \A j, k \in DOMAIN order : ~(j < k)
    OBVIOUS
  <2> QED
    BY <2>1, <2>2
<1>5. history' = history \o order
  <2>1. history \in Seq(Item)
    BY DEF CountInv, DurableType
  <2> QED
    BY <1>1, <2>1
<1>6. \E s \in [1..Abstract!Cardinality({i}) -> {i}] :
         /\ \A j, k \in DOMAIN s : j < k => s[j] # s[k] /\ s[j].due <= s[k].due
         /\ history' = history \o s
  BY <1>4, <1>5, SameCardinality
<1>7. Abstract!Advance({i}, i.due)
  <2>1. {i} \subseteq work /\ \A j \in {i} : position.time <= j.due /\ j.due <= i.due
    BY <1>1, <1>2, Numbers
  <2> QED
    BY <1>1, <1>2, <1>3, <1>6, <2>1 DEF Abstract!Advance
<1> QED
  BY <1>1, <1>7 DEF Abstract!Next

\* The runtime of one worker implements the abstract scheduler: whatever backends
\* are built, lost and rebuilt, accepted work runs exactly once, in the order of
\* its due time, and logical time never passes work that has not run.
THEOREM RuntimeImplements ==
    ASSUME NEW w, Workers = {w}, DiscardOnError
    PROVE  Spec => ImplementsScheduledWork
<1>1. Init => Abstract!Init
  BY DEF Init, Abstract!Init
<1>2. CountInv /\ EveryPositionRecoverable /\ InStep(w) /\ [Next]_vars
        => [Abstract!Next]_(Abstract!vars)
  <2> SUFFICES ASSUME CountInv, EveryPositionRecoverable, InStep(w), [Next]_vars
               PROVE  Abstract!Next \/ UNCHANGED Abstract!vars
    OBVIOUS
  <2>0. w \in Workers
    OBVIOUS
  <2>1. ASSUME UNCHANGED durable PROVE UNCHANGED Abstract!vars
    BY <2>1 DEF durable, Abstract!vars
  <2>2. ASSUME NEW item \in Item, Schedule(w, item) PROVE Abstract!Next
    <3>1. /\ item \notin work /\ work' = work \cup {item}
          /\ UNCHANGED <<position, history, withdrawn>>
      BY <2>2 DEF Schedule, Pending
    <3>2. EveryPositionRecoverable'
      BY RuntimeStep
    <3>3. item.due >= position.time
      BY <3>1, <3>2 DEF EveryPositionRecoverable
    <3>4. Abstract!Accept(item)
      BY <3>1, <3>3 DEF Abstract!Accept
    <3> QED
      BY <3>4 DEF Abstract!Next
  <2>3. ASSUME NEW i \in work, Cancel(w, i) PROVE Abstract!Next
    <3>1. Abstract!Withdraw(i)
      BY <2>3 DEF Cancel, Abstract!Withdraw
    <3>2. i \in Item
      BY DEF CountInv, DurableType
    <3> QED
      BY <3>1, <3>2 DEF Abstract!Next
  <2>4. ASSUME NEW i \in queue[w], Callback(w, i) PROVE Abstract!Next
    BY <2>0, <2>4, CallbackAdvances
  <2>5. CASE Tick(w) \/ TickBackwards(w)
    BY <2>0, <2>5, TickAdvances DEF Tick, TickBackwards
  <2>6. CASE \/ Stop(w) \/ Build(w) \/ Rebuild(w) \/ RebuildRefused(w)
             \/ \E t \in 0..MaxTime : RunUntil(w, t)
             \/ \E i \in queue[w] : CallbackStale(w, i) \/ CallbackFails(w, i)
             \/ FinishRun(w) \/ TickRead(w) \/ TickFails(w)
    BY <2>1, <2>6
    DEF Stop, Build, Rebuild, RebuildRefused, RunUntil, CallbackStale, CallbackFails,
        FinishRun, TickRead, TickFails
  <2>7. CASE UNCHANGED vars
    BY <2>1, <2>7 DEF vars
  <2> QED
    BY <2>2, <2>3, <2>4, <2>5, <2>6, <2>7 DEF Next, Run, AdvanceTick
<1> QED
  BY <1>1, <1>2, RuntimeInvariant, PTL DEF Spec, ImplementsScheduledWork, Abstract!Spec

=============================================================================
