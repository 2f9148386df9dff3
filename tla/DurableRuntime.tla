--------------------------- MODULE DurableRuntime ---------------------------
(***************************************************************************)
(* The durable runtime of one owner: DurableScheduler and RuntimeRebuilder *)
(* (sose/core/durable.py), Engine.dispatch_scheduled, advance_tick and     *)
(* rebuild_backend (sose/core/engine.py), and the event queue of the SimPy *)
(* backend (sose/backends/simpy.py).                                       *)
(*                                                                         *)
(* Pending work and the simulation position are durable; a worker's clock, *)
(* backend and queue are not.  Every write transaction of an owner is      *)
(* serialized (advisory lock, BEGIN IMMEDIATE), so a transaction is one    *)
(* step; what is read outside a transaction is a step of its own.  A       *)
(* ScheduledWork and its Command are saved and deleted together and are    *)
(* one item here; its entity, events and scenario state are left out.      *)
(*                                                                         *)
(* The start of the simulation is time 0, and a missing position is the    *)
(* position [time |-> 0, exec |-> 0, tick |-> 0], which is never saved.    *)
(***************************************************************************)
EXTENDS Naturals, Sequences, FiniteSets

CONSTANTS
    Workers,        \* processes that run an engine of this owner
    Commands,       \* command ids; work_id is a hash of the command id
    Priorities,     \* priorities of scheduled work, the lower the earlier
    MaxTime,        \* bound: the last due time, the last start of a tick
    TickStep,       \* SimulationClock.step
    MaxSchedules,   \* bound on the calls of schedule() that succeed
    DiscardOnError, \* TRUE: an engine that raised is thrown away, as run_tick
                    \* does; FALSE: its caller catches the error and goes on
    None

ASSUME ConstantAssumption ==
    /\ Priorities \subseteq Nat
    /\ MaxTime \in Nat
    /\ TickStep \in Nat \ {0}
    /\ MaxSchedules \in Nat
    /\ DiscardOnError \in BOOLEAN

Time == 0..(MaxTime + TickStep)

Item == [cmd : Commands, due : 0..MaxTime, prio : Priorities, seq : 1..MaxSchedules]

\* SimulationPosition; committed_sequence always equals execution_sequence.
Position == [time : Time, exec : Nat, tick : 0..(MaxTime + 1)]

Clock == [now : Time, tick : 0..(MaxTime + 1)]

VARIABLES
    work,           \* the persisted ScheduledWork with its Command
    position,       \* the persisted SimulationPosition
    committedTick,  \* ticks committed: the persisted committed_tick + 1
    history,        \* the items whose transition is committed, in order
    accepted,       \* how many calls of schedule() committed
    withdrawn,      \* how many items cancel() deleted
    mode,           \* what runtime each worker has
    clock,          \* context.clock
    backendNow,     \* backend.now
    queue,          \* the callbacks of durable work in the backend
    target,         \* the instant run_until() runs to, or None
    seen            \* the position advance_tick() read, or None

durable == <<work, position, committedTick, history, accepted, withdrawn>>
ephemeral == <<mode, clock, backendNow, queue, target, seen>>
vars == <<durable, ephemeral>>

\* No engine; an engine without backend; one with a rebuilt backend; one whose
\* backend catches up with a tick.
Mode == {"down", "built", "live", "catchup"}

TypeOK ==
    /\ work \subseteq Item
    /\ position \in Position
    /\ committedTick \in 0..(MaxTime + 1)
    /\ history \in Seq(Item)
    /\ accepted \in 0..MaxSchedules
    /\ withdrawn \in Nat
    /\ mode \in [Workers -> Mode]
    /\ clock \in [Workers -> Clock]
    /\ backendNow \in [Workers -> Time]
    /\ queue \in [Workers -> SUBSET Item]
    /\ target \in [Workers -> Time \cup {None}]
    /\ seen \in [Workers -> Position \cup {None}]

Init ==
    /\ work = {}
    /\ position = [time |-> 0, exec |-> 0, tick |-> 0]
    /\ committedTick = 0
    /\ history = <<>>
    /\ accepted = 0
    /\ withdrawn = 0
    /\ mode = [w \in Workers |-> "down"]
    /\ clock = [w \in Workers |-> [now |-> 0, tick |-> 0]]
    /\ backendNow = [w \in Workers |-> 0]
    /\ queue = [w \in Workers |-> {}]
    /\ target = [w \in Workers |-> None]
    /\ seen = [w \in Workers |-> None]

-----------------------------------------------------------------------------
(***************************************************************************)
(* A worker's engine                                                       *)
(***************************************************************************)

\* The engine and its backend are gone: nothing of them survives.
Discard(w) ==
    /\ mode' = [mode EXCEPT ![w] = "down"]
    /\ clock' = [clock EXCEPT ![w] = [now |-> 0, tick |-> 0]]
    /\ backendNow' = [backendNow EXCEPT ![w] = 0]
    /\ queue' = [queue EXCEPT ![w] = {}]
    /\ target' = [target EXCEPT ![w] = None]
    /\ seen' = [seen EXCEPT ![w] = None]

\* An operation raises.  The engine has restored its clock; the callbacks that
\* the backend keeps are q, and the time it reached is t.
Raise(w, t, q) ==
    \/ /\ DiscardOnError
       /\ Discard(w)
    \/ /\ ~DiscardOnError
       /\ mode' = [mode EXCEPT ![w] = IF @ = "catchup" THEN "live" ELSE @]
       /\ backendNow' = [backendNow EXCEPT ![w] = t]
       /\ queue' = [queue EXCEPT ![w] = q]
       /\ target' = [target EXCEPT ![w] = None]
       /\ seen' = [seen EXCEPT ![w] = None]
       /\ UNCHANGED clock

\* The run ends or the process dies, at any point of it.
Stop(w) ==
    /\ mode[w] # "down"
    /\ Discard(w)
    /\ UNCHANGED durable

\* build_runtime at the position that was read.
Build(w) ==
    /\ mode[w] = "down"
    /\ mode' = [mode EXCEPT ![w] = "built"]
    /\ clock' = [clock EXCEPT ![w] = [now |-> position.time, tick |-> position.tick]]
    /\ UNCHANGED <<durable, backendNow, queue, target, seen>>

Recoverable(w) ==
    /\ clock[w].now = position.time
    /\ \A i \in work : i.due >= position.time

\* rebuild_backend with a fresh backend at the clock's time.
Rebuild(w) ==
    /\ mode[w] = "built"
    /\ seen[w] = None
    /\ Recoverable(w)
    /\ mode' = [mode EXCEPT ![w] = "live"]
    /\ clock' = [clock EXCEPT ![w] = [now |-> position.time, tick |-> position.tick]]
    /\ backendNow' = [backendNow EXCEPT ![w] = position.time]
    /\ queue' = [queue EXCEPT ![w] = work]
    /\ UNCHANGED <<durable, target, seen>>

\* The backend's time is not the boundary, or work is due before it.
RebuildRefused(w) ==
    /\ mode[w] = "built"
    /\ seen[w] = None
    /\ ~Recoverable(w)
    /\ Raise(w, backendNow[w], queue[w])
    /\ UNCHANGED durable

-----------------------------------------------------------------------------
(***************************************************************************)
(* DurableScheduler                                                        *)
(***************************************************************************)

Pending(S, c) == \E i \in S : i.cmd = c

\* One more than the largest sequence of pending work.
NextSequence(S, n) ==
    /\ \A i \in S : i.seq < n
    /\ n = 1 \/ \E i \in S : i.seq = n - 1

\* schedule() checks the backend's time; without a backend it checks nothing
\* and the caller schedules from the clock on.
EarliestUnchecked(w) == 0
Earliest(w) == IF mode[w] = "live" THEN backendNow[w] ELSE clock[w].now

\* Persist, then enqueue.  The backend refuses a work_id it still holds, after
\* the transaction has committed.
Schedule(w, item) ==
    /\ mode[w] \in {"built", "live"}
    /\ seen[w] = None
    /\ accepted < MaxSchedules
    /\ ~Pending(work, item.cmd)
    /\ item.due >= Earliest(w)
    /\ NextSequence(work, item.seq)
    /\ work' = work \cup {item}
    /\ accepted' = accepted + 1
    /\ \/ /\ mode[w] = "built"
          /\ UNCHANGED ephemeral
       \/ /\ mode[w] = "live"
          /\ ~Pending(queue[w], item.cmd)
          /\ queue' = [queue EXCEPT ![w] = @ \cup {item}]
          /\ UNCHANGED <<mode, clock, backendNow, target, seen>>
       \/ /\ mode[w] = "live"
          /\ Pending(queue[w], item.cmd)
          /\ Raise(w, backendNow[w], queue[w])
    /\ UNCHANGED <<position, committedTick, history, withdrawn>>

\* Deletes the durable item; the backend keeps its callback.
Cancel(w, i) ==
    /\ mode[w] \in {"built", "live"}
    /\ seen[w] = None
    /\ i \in work
    /\ work' = work \ {i}
    /\ withdrawn' = withdrawn + 1
    /\ UNCHANGED <<position, committedTick, history, accepted, ephemeral>>

-----------------------------------------------------------------------------
(***************************************************************************)
(* Live execution: backend.run_until and Engine.dispatch_scheduled         *)
(***************************************************************************)

\* ScheduledWork is ordered by due time, priority and sequence.
Before(i, j) ==
    \/ i.due < j.due
    \/ i.due = j.due /\ i.prio < j.prio
    \/ i.due = j.due /\ i.prio = j.prio /\ i.seq < j.seq

RunUntil(w, t) ==
    /\ mode[w] = "live"
    /\ target[w] = None
    /\ seen[w] = None
    /\ t >= backendNow[w]
    /\ target' = [target EXCEPT ![w] = t]
    /\ UNCHANGED <<durable, mode, clock, backendNow, queue, seen>>

\* i is the callback the backend runs next.
IsNext(w, i) ==
    /\ target[w] # None
    /\ i \in queue[w]
    /\ i.due <= target[w]
    /\ \A j \in queue[w] : ~Before(j, i)

\* Work that is no longer stored as it was: dispatch_scheduled returns False.
CallbackStale(w, i) ==
    /\ IsNext(w, i)
    /\ i \notin work
    /\ backendNow' = [backendNow EXCEPT ![w] = i.due]
    /\ queue' = [queue EXCEPT ![w] = @ \ {i}]
    /\ UNCHANGED <<durable, mode, clock, target, seen>>

\* Executed work and its command are deleted with the transition's commit.
ConsumeNothing(S, ran) == S
Consume(S, ran) == S \ ran

\* The position that the execution of one callback commits.
CallbackPositionNoTick(w, i) ==
    [time |-> i.due, exec |-> position.exec + 1, tick |-> 0]
CallbackPosition(w, i) ==
    [time |-> i.due, exec |-> position.exec + 1, tick |-> clock[w].tick]

\* Transition, deletion of the work and new position are one transaction.
Callback(w, i) ==
    /\ IsNext(w, i)
    /\ i \in work
    /\ i.due >= clock[w].now
    /\ work' = Consume(work, {i})
    /\ history' = Append(history, i)
    /\ position' = CallbackPosition(w, i)
    /\ clock' = [clock EXCEPT ![w].now = i.due]
    /\ backendNow' = [backendNow EXCEPT ![w] = i.due]
    /\ queue' = [queue EXCEPT ![w] = @ \ {i}]
    /\ UNCHANGED <<committedTick, accepted, withdrawn, mode, target, seen>>

\* The work is before the clock, or its transition fails: the transaction
\* rolls back, run_until() is left and the backend has lost the callback.
CallbackFails(w, i) ==
    /\ IsNext(w, i)
    /\ i \in work
    /\ Raise(w, i.due, queue[w] \ {i})
    /\ UNCHANGED durable

FinishRun(w) ==
    /\ target[w] # None
    /\ \A i \in queue[w] : i.due > target[w]
    /\ backendNow' = [backendNow EXCEPT ![w] = target[w]]
    /\ target' = [target EXCEPT ![w] = None]
    /\ mode' = [mode EXCEPT ![w] = "live"]
    /\ UNCHANGED <<durable, clock, queue, seen>>

-----------------------------------------------------------------------------
(***************************************************************************)
(* Engine.advance_tick, and the run_until that follows it                  *)
(***************************************************************************)

\* The position is read before the transaction.
TickRead(w) ==
    /\ mode[w] \in {"built", "live"}
    /\ target[w] = None
    /\ seen[w] = None
    /\ clock[w].now <= MaxTime
    /\ seen' = [seen EXCEPT ![w] = position]
    /\ UNCHANGED <<durable, mode, clock, backendNow, queue, target>>

TickEnd(w) == clock[w].now + TickStep

DueBy(t) == {i \in work : i.due <= t}

\* The sequences that list a set of items in their order.
InOrder(S) ==
    {s \in [1..Cardinality(S) -> S] :
        \A j, k \in DOMAIN s : j < k => Before(s[j], s[k])}

\* The position must still be the one advance_tick() read.
AdmittedAlways(w) == TRUE
Admitted(w) == seen[w] = position

\* The position that a tick commits, counting from the one that was read.
TickPositionUncounted(w, ran) ==
    [time |-> TickEnd(w), exec |-> seen[w].exec, tick |-> clock[w].tick + 1]
TickPosition(w, ran) ==
    [time |-> TickEnd(w),
     exec |-> seen[w].exec + Cardinality(ran),
     tick |-> clock[w].tick + 1]

\* One transaction runs everything due by the end of the tick.
TickTransaction(w) ==
    LET ran == DueBy(TickEnd(w))
    IN /\ seen[w] # None
       /\ Admitted(w)
       /\ \A i \in ran : i.due >= clock[w].now
       /\ work' = Consume(work, ran)
       /\ \E s \in InOrder(ran) : history' = history \o s
       /\ committedTick' = clock[w].tick + 1
       /\ position' = TickPosition(w, ran)
       /\ UNCHANGED <<accepted, withdrawn>>

\* The clock moves, and the backend, if there is one, catches up with it.
Tick(w) ==
    /\ TickTransaction(w)
    /\ clock' = [clock EXCEPT ![w] = [now |-> TickEnd(w), tick |-> @.tick + 1]]
    /\ seen' = [seen EXCEPT ![w] = None]
    /\ \/ /\ mode[w] = "built"
          /\ UNCHANGED <<mode, target>>
       \/ /\ mode[w] = "live"
          /\ backendNow[w] <= TickEnd(w)
          /\ mode' = [mode EXCEPT ![w] = "catchup"]
          /\ target' = [target EXCEPT ![w] = TickEnd(w)]
    /\ UNCHANGED <<backendNow, queue>>

\* The backend was run past the end of the tick: run_until() raises, after the
\* tick has been committed.
TickBackwards(w) ==
    /\ mode[w] = "live"
    /\ backendNow[w] > TickEnd(w)
    /\ TickTransaction(w)
    /\ \/ DiscardOnError /\ Discard(w)
       \/ /\ ~DiscardOnError
          /\ clock' = [clock EXCEPT ![w] = [now |-> TickEnd(w), tick |-> @.tick + 1]]
          /\ seen' = [seen EXCEPT ![w] = None]
          /\ UNCHANGED <<mode, backendNow, queue, target>>

\* The position moved since it was read, an item is due before the clock, or
\* a transition fails: the transaction rolls back and the clock is restored.
TickFails(w) ==
    /\ seen[w] # None
    /\ \/ ~Admitted(w)
       \/ DueBy(TickEnd(w)) # {}
    /\ Raise(w, backendNow[w], queue[w])
    /\ UNCHANGED durable

-----------------------------------------------------------------------------

Run(w) ==
    \/ \E i \in queue[w] : CallbackStale(w, i) \/ Callback(w, i) \/ CallbackFails(w, i)
    \/ FinishRun(w)

AdvanceTick(w) == TickRead(w) \/ Tick(w) \/ TickBackwards(w) \/ TickFails(w)

Next ==
    \E w \in Workers :
        \/ Stop(w) \/ Build(w) \/ Rebuild(w) \/ RebuildRefused(w)
        \/ \E item \in Item : Schedule(w, item)
        \/ \E i \in work : Cancel(w, i)
        \/ \E t \in 0..MaxTime : RunUntil(w, t)
        \/ Run(w)
        \/ AdvanceTick(w)

Spec == Init /\ [][Next]_vars

(***************************************************************************)
(* Fairness: the job is triggered again and again, so an engine is built,  *)
(* run_until() goes on to its end, and ticks are started and, sooner or    *)
(* later, one does not fail.                                               *)
(***************************************************************************)
FairSpec ==
    /\ Spec
    /\ \A w \in Workers :
          /\ WF_vars(Build(w))
          /\ WF_vars(Run(w))
          /\ SF_vars(TickRead(w))
          /\ SF_vars(Tick(w) \/ TickBackwards(w))

-----------------------------------------------------------------------------
(***************************************************************************)
(* Properties                                                              *)
(***************************************************************************)

\* execution_sequence counts the committed executions, although advance_tick
\* computes it from a position it read before its transaction.
SequenceCountsExecutions == position.exec = Len(history)

\* Work is neither lost nor run twice: what schedule() accepted is withdrawn,
\* executed or still pending, whatever callbacks, ticks, failures and restarts
\* of any worker came between.
NothingLostOrRepeated == accepted = withdrawn + Len(history) + Cardinality(work)

\* Every persisted position is a recovery boundary: rebuild_backend never finds
\* work due before it.
EveryPositionRecoverable == \A i \in work : i.due >= position.time

\* Logical time, the tick and the execution sequence never go back.
PositionMonotonic ==
    [][ /\ position'.time >= position.time
        /\ position'.tick >= position.tick
        /\ position'.exec >= position.exec ]_vars

\* A tick takes at least one unit of time, so ticks stay within the time bound.
TicksBounded ==
    /\ position.tick <= position.time
    /\ \A w \in Workers :
          /\ clock[w].tick <= clock[w].now
          /\ seen[w] # None => clock[w].now <= MaxTime

\* The runtime of one worker whose engine is discarded when it raises: clock and
\* queue agree with what is durable, and the backend never lags behind.
InStep(w) ==
    /\ mode[w] = "down" =>
          queue[w] = {} /\ target[w] = None /\ seen[w] = None
    /\ mode[w] = "built" => target[w] = None
    /\ mode[w] # "down" =>
          clock[w].now = position.time /\ clock[w].tick = position.tick
    /\ seen[w] # None => seen[w] = position /\ target[w] = None /\ mode[w] # "catchup"
    /\ mode[w] \in {"live", "catchup"} => work \subseteq queue[w]
    /\ mode[w] = "live" =>
          /\ backendNow[w] >= position.time
          /\ \A i \in queue[w] : i.due >= backendNow[w]
          /\ target[w] # None => target[w] >= backendNow[w]
    /\ mode[w] = "catchup" =>
          target[w] = position.time /\ \A i \in work : i.due > position.time

\* Inductive when there is one worker and DiscardOnError.
RuntimeInv ==
    /\ TypeOK
    /\ TicksBounded
    /\ EveryPositionRecoverable
    /\ \A w \in Workers : InStep(w)

\* A pending command is executed or cancelled in the end.
EventuallyDone == \A c \in Commands : Pending(work, c) ~> ~Pending(work, c)

\* The runtime of one worker implements the abstract scheduler.
Abstract == INSTANCE ScheduledWorkSpec WITH
    Items <- Item, Time <- Time, pending <- work, now <- position.time, log <- history

ImplementsScheduledWork == Abstract!Spec

=============================================================================
