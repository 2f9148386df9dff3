---------------------------- MODULE DurableStores ----------------------------
(***************************************************************************)
(* DurableStoreManager (sose/core/stores.py) on the SimPy backend: items,  *)
(* put intents, get requests and get results are persisted, and the SimPy  *)
(* store that decides who gets what is rebuilt from them after a crash.    *)
(*                                                                         *)
(* One store and one process at a time.  A crash between the transaction   *)
(* of an operation and its call of the backend leaves what a crash after   *)
(* the call leaves, so the two are one step; an event of the backend does  *)
(* at most one transaction.                                                *)
(***************************************************************************)
EXTENDS Integers, Sequences, FiniteSets, SequencesExt

CONSTANTS
    StoreItems,      \* item ids
    StoreGets,       \* ids of get requests
    ItemPriority,    \* the priority of each item, smaller first
    StoreKinds,      \* kinds of store to consider: "fifo", "priority", "filter"
    StoreFilters,    \* the sets of items that the registered filters accept
    StoreCapacity,   \* StoreDefinition.capacity
    StoreMaxCrashes  \* bound on the number of crashes

\* Ids are unique over items and gets; a capacity of None is one that suffices
\* for all items.
ASSUME StoreAssumption ==
    /\ IsFiniteSet(StoreItems) /\ IsFiniteSet(StoreGets) /\ StoreItems \cap StoreGets = {}
    /\ ItemPriority \in [StoreItems -> Int]
    /\ StoreKinds \subseteq {"fifo", "priority", "filter"}
    /\ StoreFilters \subseteq SUBSET StoreItems
    /\ StoreCapacity \in Nat \ {0} /\ StoreMaxCrashes \in Nat

VARIABLES
    storeKind,   \* StoreDefinition.kind
    itemPhase,   \* "new", "intent", "item" or "consumed"
    getPhase,    \* "new", "pending" or "done"
    filterOf,    \* filter_key of a get: the items it accepts
    selection,   \* StoreGetResult.item of a get that is done
    sequence,    \* the durable sequence of items and gets, 0 before
    storeUp,     \* a process with a backend is running
    todo,        \* what its rebuild still has to submit
    inStore,     \* backend: the items, in the order of the SimPy store
    putQueue,    \* backend: puts that wait for capacity
    getQueue,    \* backend: gets that wait for an item
    storeEvents, \* backend: events not yet processed
    storeCrashes

storeDurable == <<itemPhase, getPhase, filterOf, selection, sequence>>
storeBackend == <<inStore, putQueue, getQueue, storeEvents>>
storeVars == <<storeKind, storeDurable, storeUp, todo, storeBackend, storeCrashes>>

StoreTypeOK ==
    /\ itemPhase \in [StoreItems -> {"new", "intent", "item", "consumed"}]
    /\ getPhase \in [StoreGets -> {"new", "pending", "done"}]
    /\ filterOf \in [StoreGets -> SUBSET StoreItems]
    /\ selection \in [StoreGets -> StoreItems \cup {"none"}]
    /\ sequence \in [StoreItems \cup StoreGets -> 0..Cardinality(StoreItems \cup StoreGets)]
    /\ inStore \in Seq(StoreItems) /\ putQueue \in Seq(StoreItems) /\ getQueue \in Seq(StoreGets)
    /\ storeCrashes \in 0..StoreMaxCrashes

StoreInit ==
    /\ storeKind \in StoreKinds
    /\ itemPhase = [i \in StoreItems |-> "new"]
    /\ getPhase = [g \in StoreGets |-> "new"]
    /\ filterOf = [g \in StoreGets |-> StoreItems]
    /\ selection = [g \in StoreGets |-> "none"]
    /\ sequence = [x \in StoreItems \cup StoreGets |-> 0]
    /\ storeUp = FALSE /\ todo = <<>>
    /\ inStore = <<>> /\ putQueue = <<>> /\ getQueue = <<>> /\ storeEvents = <<>>
    /\ storeCrashes = 0

-----------------------------------------------------------------------------
(***************************************************************************)
(* The SimPy store                                                         *)
(***************************************************************************)

PutEvent(i) == <<"put", i, "none">>
GetEvent(g, i) == <<"get", g, i>>

Enter(items, i) ==
    IF storeKind = "priority"
    THEN InsertAt(items, Cardinality({k \in DOMAIN items : ItemPriority[items[k]] <= ItemPriority[i]}) + 1, i)
    ELSE Append(items, i)

\* Mutant of TriggerPut: one more than the capacity.
TriggerPutOver(b) ==
    IF b.puts # <<>> /\ Len(b.items) <= StoreCapacity
    THEN [b EXCEPT !.puts = Tail(@), !.items = Enter(@, Head(b.puts)),
                   !.events = Append(@, PutEvent(Head(b.puts)))]
    ELSE b

\* A trigger serves the first put of the queue, if there is room.
TriggerPut(b) ==
    IF b.puts # <<>> /\ Len(b.items) < StoreCapacity
    THEN [b EXCEPT !.puts = Tail(@), !.items = Enter(@, Head(b.puts)),
                   !.events = Append(@, PutEvent(Head(b.puts)))]
    ELSE b

\* Where the items are that a get accepts.  It takes the first of them.
Matches(filters, g, items) == {k \in DOMAIN items : items[k] \in filters[g]}

ServeGet(filters, b, g) ==
    LET k == Min(Matches(filters, g, b.items)) IN
    [b EXCEPT !.items = RemoveAt(@, k),
              !.gets = RemoveAt(@, CHOOSE j \in DOMAIN @ : @[j] = g),
              !.events = Append(@, GetEvent(g, b.items[k]))]

TryGet(filters, b, g) ==
    IF Matches(filters, g, b.items) # {} THEN ServeGet(filters, b, g) ELSE b

\* The backend after the first k gets of a filter store's queue were tried.
TriedGets(filters, b) ==
    LET after[k \in 0..Len(b.gets)] ==
            IF k = 0 THEN b ELSE TryGet(filters, after[k - 1], b.gets[k])
    IN after

\* A trigger serves the first get of the queue; a filter store goes on through
\* the whole queue.
TriggerGet(filters, b) ==
    IF storeKind = "filter" THEN TriedGets(filters, b)[Len(b.gets)]
    ELSE IF b.gets # <<>> THEN TryGet(filters, b, Head(b.gets))
    ELSE b

Backend(events) == [items |-> inStore, puts |-> putQueue, gets |-> getQueue, events |-> events]
SetBackend(b) ==
    /\ inStore' = b.items /\ putQueue' = b.puts
    /\ getQueue' = b.gets /\ storeEvents' = b.events

PutStore(i) == SetBackend(TriggerPut([Backend(storeEvents) EXCEPT !.puts = Append(@, i)]))
GetStore(filters, g) ==
    SetBackend(TriggerGet(filters, [Backend(storeEvents) EXCEPT !.gets = Append(@, g)]))

-----------------------------------------------------------------------------
(***************************************************************************)
(* Operations and callbacks                                                *)
(***************************************************************************)

Serving == storeUp /\ todo = <<>>
Live(i) == itemPhase[i] \in {"intent", "item"}

\* Mutant of NextSequence: a number is left out.
NextSequenceSkips ==
    2 + Max({0} \cup {sequence[i] : i \in {x \in StoreItems : Live(x)}}
                \cup {sequence[g] : g \in StoreGets})

\* The sequence of a consumed item is no longer counted.
NextSequence ==
    1 + Max({0} \cup {sequence[i] : i \in {x \in StoreItems : Live(x)}}
                \cup {sequence[g] : g \in StoreGets})

\* put and ensure_put: an item that exists or was consumed is not put again.
Put(i) ==
    /\ Serving
    /\ itemPhase[i] = "new"
    /\ itemPhase' = [itemPhase EXCEPT ![i] = "intent"]
    /\ sequence' = [sequence EXCEPT ![i] = NextSequence]
    /\ PutStore(i)
    /\ UNCHANGED <<storeKind, getPhase, filterOf, selection, storeUp, todo, storeCrashes>>

\* get and ensure_selection: a request that is pending or done is not repeated.
Get(g, accepted) ==
    /\ Serving
    /\ getPhase[g] = "new"
    /\ accepted = StoreItems \/ storeKind = "filter"
    /\ getPhase' = [getPhase EXCEPT ![g] = "pending"]
    /\ filterOf' = [filterOf EXCEPT ![g] = accepted]
    /\ sequence' = [sequence EXCEPT ![g] = NextSequence]
    /\ GetStore(filterOf', g)
    /\ UNCHANGED <<storeKind, itemPhase, selection, storeUp, todo, storeCrashes>>

\* Mutant of CommitPut: nobody is woken.
CommitPutSilently ==
    /\ Serving
    /\ storeEvents # <<>> /\ Head(storeEvents)[1] = "put"
    /\ SetBackend(Backend(Tail(storeEvents)))
    /\ LET i == Head(storeEvents)[2] IN
          itemPhase' = [itemPhase EXCEPT ![i] = IF @ = "intent" THEN "item" ELSE @]
    /\ UNCHANGED <<storeKind, getPhase, filterOf, selection, sequence, storeUp, todo, storeCrashes>>

\* A put event wakes a get first; then commit_put turns the intent into an item.
CommitPut ==
    /\ Serving
    /\ storeEvents # <<>> /\ Head(storeEvents)[1] = "put"
    /\ SetBackend(TriggerGet(filterOf, Backend(Tail(storeEvents))))
    /\ LET i == Head(storeEvents)[2] IN
          itemPhase' = [itemPhase EXCEPT ![i] = IF @ = "intent" THEN "item" ELSE @]
    /\ UNCHANGED <<storeKind, getPhase, filterOf, selection, sequence, storeUp, todo, storeCrashes>>

\* A get event wakes a put first; then commit_get consumes the item or its
\* intent and saves the result.
CommitGet ==
    /\ Serving
    /\ storeEvents # <<>> /\ Head(storeEvents)[1] = "get"
    /\ SetBackend(TriggerPut(Backend(Tail(storeEvents))))
    /\ LET g == Head(storeEvents)[2]
           i == Head(storeEvents)[3] IN
          /\ getPhase[g] = "pending" /\ Live(i)
          /\ itemPhase' = [itemPhase EXCEPT ![i] = "consumed"]
          /\ getPhase' = [getPhase EXCEPT ![g] = "done"]
          /\ selection' = [selection EXCEPT ![g] = i]
    /\ UNCHANGED <<storeKind, filterOf, sequence, storeUp, todo, storeCrashes>>

StoreCrash ==
    /\ storeUp
    /\ storeCrashes < StoreMaxCrashes
    /\ storeCrashes' = storeCrashes + 1
    /\ storeUp' = FALSE /\ todo' = <<>>
    /\ inStore' = <<>> /\ putQueue' = <<>> /\ getQueue' = <<>> /\ storeEvents' = <<>>
    /\ UNCHANGED <<storeKind, storeDurable>>

\* The members of S in the order that R, a set of pairs, gives them.
Ordered(S, R) ==
    [k \in 1..Cardinality(S) |-> CHOOSE x \in S : Cardinality({y \in S : <<y, x>> \in R}) = k - 1]

\* Mutant of InSequence: the order in which the records happen to be read.
InSequenceUnsorted(S) == SetToSeq(S)
InSequence(S) == Ordered(S, {p \in S \X S : sequence[p[1]] < sequence[p[2]]})

\* The order in which items are put back.
OrderedItems ==
    LET items == {i \in StoreItems : itemPhase[i] = "item"} IN
    IF storeKind = "priority"
    THEN Ordered(items, {p \in items \X items :
             \/ ItemPriority[p[1]] < ItemPriority[p[2]]
             \/ ItemPriority[p[1]] = ItemPriority[p[2]] /\ sequence[p[1]] < sequence[p[2]]})
    ELSE InSequence(items)

\* rebuild_backend: validation, then items, then what is pending by sequence.
BeginRebuild ==
    /\ ~storeUp
    /\ Cardinality({i \in StoreItems : itemPhase[i] = "item"}) <= StoreCapacity
    /\ storeUp' = TRUE
    /\ todo' = OrderedItems \o InSequence({i \in StoreItems : itemPhase[i] = "intent"}
                                          \cup {g \in StoreGets : getPhase[g] = "pending"})
    /\ UNCHANGED <<storeKind, storeDurable, storeBackend, storeCrashes>>

SubmitNext ==
    /\ todo # <<>>
    /\ IF Head(todo) \in StoreItems THEN PutStore(Head(todo)) ELSE GetStore(filterOf, Head(todo))
    /\ todo' = Tail(todo)
    /\ UNCHANGED <<storeKind, storeDurable, storeUp, storeCrashes>>

StoreServe == CommitPut \/ CommitGet \/ BeginRebuild \/ SubmitNext

StoreNext ==
    \/ \E i \in StoreItems : Put(i)
    \/ \E g \in StoreGets, accepted \in StoreFilters : Get(g, accepted)
    \/ StoreServe
    \/ StoreCrash

StoreSpec == StoreInit /\ [][StoreNext]_storeVars /\ WF_storeVars(StoreServe)

-----------------------------------------------------------------------------
(***************************************************************************)
(* Properties                                                              *)
(***************************************************************************)

\* A fifo store serves the oldest get with the oldest item: what is delivered
\* overtakes nothing that is still live, also after a rebuild, although the
\* sequence numbers of consumed items are given out again.
FifoDelivery ==
    [][storeKind = "fifo" =>
          \A h \in StoreGets :
              getPhase[h] = "pending" /\ getPhase'[h] = "done" =>
                  /\ \A g \in StoreGets : getPhase[g] = "pending" => sequence[h] <= sequence[g]
                  /\ \A i \in StoreItems :
                        Live(i) => sequence[selection'[h]] <= sequence[i]]_storeVars

\* The durable items never exceed the capacity, which would make every later
\* rebuild raise: a put that waits in the backend is committed only after the
\* get that made room for it.  And the backend never wakes too few: when it has
\* nothing left to do, no get waits beside an item it accepts, no put waits
\* beside free capacity, and what waits in memory is pending in the database.
NothingStuck ==
    /\ Cardinality({i \in StoreItems : itemPhase[i] = "item"}) <= StoreCapacity
    /\ Serving /\ storeEvents = <<>> =>
          /\ \A i \in StoreItems, g \in StoreGets :
                itemPhase[i] = "item" /\ getPhase[g] = "pending" => i \notin filterOf[g]
          /\ putQueue # <<>> => Len(inStore) = StoreCapacity
          /\ \A i \in StoreItems :
                /\ itemPhase[i] = "intent" <=> i \in ToSet(putQueue)
                /\ itemPhase[i] = "item" <=> i \in ToSet(inStore)

\* A get that may take anything is served in the end when there are at least as
\* many items as gets.
GetsServed ==
    \A g \in StoreGets :
        getPhase[g] = "pending" /\ filterOf[g] = StoreItems
            /\ (\A i \in StoreItems : itemPhase[i] # "new") ~> getPhase[g] = "done"
=============================================================================
