-------------------------- MODULE DurableContainers --------------------------
(***************************************************************************)
(* DurableContainerManager (sose/core/containers.py) on the SimPy backend: *)
(* the level, the pending operations and their results are persisted.      *)
(* Amounts are whole units; the rest is as in DurableStores.               *)
(***************************************************************************)
EXTENDS Naturals, Sequences, FiniteSets, SequencesExt

CONSTANTS
    ContainerOps,        \* request ids
    Amounts,             \* amounts an operation may have
    ContainerCapacity,   \* ContainerDefinition.capacity
    InitialLevel,        \* ContainerDefinition.initial
    ContainerMaxCrashes  \* bound on the number of crashes

ASSUME ContainerAssumption ==
    /\ ContainerCapacity \in Nat /\ InitialLevel \in 0..ContainerCapacity
    /\ Amounts \subseteq Nat /\ ContainerMaxCrashes \in Nat

VARIABLES
    level,       \* ContainerState.level
    intents,     \* ContainerOperationIntent, in the order of sequence
    completed,   \* ContainerOperationResult
    contUp,      \* a process with a backend is running
    contTodo,    \* the intents its rebuild still has to submit
    liveLevel,   \* backend: SimPy's level
    putters,     \* backend: puts that wait
    getters,     \* backend: gets that wait
    contEvents,  \* backend: operations that took effect, callback to come
    contCrashes

contDurable == <<level, intents, completed>>
contBackend == <<liveLevel, putters, getters, contEvents>>
contVars == <<contDurable, contUp, contTodo, contBackend, contCrashes>>

Operation == [id : ContainerOps, kind : {"put", "get"}, amount : Amounts]

ContTypeOK ==
    /\ level \in 0..ContainerCapacity
    /\ intents \in Seq(Operation) /\ contTodo \in Seq(Operation)
    /\ completed \subseteq Operation
    /\ contUp \in BOOLEAN
    /\ liveLevel \in 0..ContainerCapacity
    /\ putters \in Seq(Operation) /\ getters \in Seq(Operation) /\ contEvents \in Seq(Operation)
    /\ contCrashes \in 0..ContainerMaxCrashes

ContInit ==
    /\ level = InitialLevel /\ intents = <<>> /\ completed = {}
    /\ contUp = FALSE /\ contTodo = <<>>
    /\ liveLevel = 0 /\ putters = <<>> /\ getters = <<>> /\ contEvents = <<>>
    /\ contCrashes = 0

-----------------------------------------------------------------------------
Fits(o, n) == IF o.kind = "put" THEN n + o.amount <= ContainerCapacity ELSE o.amount <= n
After(o, n) == IF o.kind = "put" THEN n + o.amount ELSE n - o.amount

\* The operations of q, one after the other, are feasible and take the level
\* from n to m.
Leads(q, n, m) ==
    \E L \in [0..Len(q) -> 0..ContainerCapacity] :
        /\ L[0] = n /\ L[Len(q)] = m
        /\ \A i \in 1..Len(q) : Fits(q[i], L[i - 1]) /\ L[i] = After(q[i], L[i - 1])

\* A trigger serves a queue from its head while the head is feasible.
ServeQueue(kind, ps, gs, evs) ==
    LET waiting == IF kind = "put" THEN ps ELSE gs IN
    \E k \in 0..Len(waiting) :
        LET served == SubSeq(waiting, 1, k)
            rest == SubSeq(waiting, k + 1, Len(waiting))
        IN /\ liveLevel' \in 0..ContainerCapacity
           /\ Leads(served, liveLevel, liveLevel')
           /\ rest # <<>> => ~Fits(Head(rest), liveLevel')
           /\ putters' = IF kind = "put" THEN rest ELSE ps
           /\ getters' = IF kind = "put" THEN gs ELSE rest
           /\ contEvents' = evs \o served

SubmitOperation(o) ==
    IF o.kind = "put"
    THEN ServeQueue("put", Append(putters, o), getters, contEvents)
    ELSE ServeQueue("get", putters, Append(getters, o), contEvents)

ContServing == contUp /\ contTodo = <<>>

\* put and get: the intent is persisted, then the backend is asked.
RequestOperation(o) ==
    /\ ContServing
    /\ \A x \in completed \cup ToSet(intents) : x.id # o.id
    /\ intents' = Append(intents, o)
    /\ SubmitOperation(o)
    /\ UNCHANGED <<level, completed, contUp, contTodo, contCrashes>>

\* An event tries the other queue first; then commit applies the operation to
\* the durable level, which it checks against the bounds.
CommitOperation ==
    /\ ContServing /\ contEvents # <<>>
    /\ LET o == Head(contEvents) IN
          /\ ServeQueue(IF o.kind = "put" THEN "get" ELSE "put", putters, getters, Tail(contEvents))
          /\ o \in ToSet(intents) /\ Fits(o, level)
          /\ level' = After(o, level)
          /\ intents' = RemoveAt(intents, CHOOSE i \in DOMAIN intents : intents[i] = o)
          /\ completed' = completed \cup {o}
    /\ UNCHANGED <<contUp, contTodo, contCrashes>>

ContainerCrash ==
    /\ contUp
    /\ contCrashes < ContainerMaxCrashes
    /\ contCrashes' = contCrashes + 1
    /\ contUp' = FALSE /\ contTodo' = <<>>
    /\ liveLevel' = 0 /\ putters' = <<>> /\ getters' = <<>> /\ contEvents' = <<>>
    /\ UNCHANGED contDurable

\* Mutant of RebuildContainer: from the initial level.
RebuildFromInitial ==
    /\ ~contUp
    /\ contUp' = TRUE
    /\ liveLevel' = InitialLevel
    /\ contTodo' = intents
    /\ UNCHANGED <<contDurable, putters, getters, contEvents, contCrashes>>

\* rebuild_backend: the durable level, then what is pending by sequence.
RebuildContainer ==
    /\ ~contUp
    /\ contUp' = TRUE
    /\ liveLevel' = level
    /\ contTodo' = intents
    /\ UNCHANGED <<contDurable, putters, getters, contEvents, contCrashes>>

SubmitIntent ==
    /\ contTodo # <<>>
    /\ SubmitOperation(Head(contTodo))
    /\ contTodo' = Tail(contTodo)
    /\ UNCHANGED <<contDurable, contUp, contCrashes>>

ContNext ==
    \/ \E o \in Operation : RequestOperation(o)
    \/ CommitOperation \/ RebuildContainer \/ SubmitIntent
    \/ ContainerCrash

ContSpec == ContInit /\ [][ContNext]_contVars

-----------------------------------------------------------------------------
(***************************************************************************)
(* Properties                                                              *)
(***************************************************************************)

\* What the backend completes can be committed: in the order of its events the
\* durable level stays within the bounds ("backend completed infeasible
\* container operation" is never raised) and ends at the backend's level.  When
\* it has nothing left to do, every pending operation waits in one of its queues,
\* and the first of each queue waits because it does not fit.
ServesExactlyWhatFits ==
    /\ ContServing => Leads(contEvents, level, liveLevel)
    /\ ContServing /\ contEvents = <<>> =>
            /\ ToSet(intents) = ToSet(putters \o getters)
            /\ putters # <<>> => ~Fits(Head(putters), level)
            /\ getters # <<>> => ~Fits(Head(getters), level)
=============================================================================
