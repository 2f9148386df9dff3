-------------------------- MODULE CanonicalProblems --------------------------
(***************************************************************************)
(* The canonical coordination problems (sose/examples/canonical) as        *)
(* domains: dining philosophers, readers and writers, sleeping barber, job *)
(* shop and producer/consumer.  Every tick binds one action durably before *)
(* it acts (resolve_tick_action), so that a tick whose call was cut off    *)
(* does the same when it is repeated.  Here the contention is inside of    *)
(* the domain: a request is an <<owner, resource>>, granted in the order   *)
(* of the requests as far as the capacity of the resource goes.            *)
(***************************************************************************)
EXTENDS ProcessRuntime, SequencesExt

CONSTANTS
    Philosophers, Readers, Writers, Customers, Chairs, Jobs, Machines, Items, BufferSize

\* The persisted case; data: the problem, the action bound to the current
\* tick, the demands in order, what the call has still to do, the markers in
\* the stores, and the owners that lost a reservation in the current tick.
CanonicalCaseChart == {<<"ready", "advance", "active">>, <<"active", "finish", "completed">>}
Chart == [e \in {"case"} |-> CanonicalCaseChart]
NoAction == <<"none">>

SeedCase(problem) ==
    Start([e \in {"case"} |-> "ready"],
          [problem |-> problem, action |-> NoAction, queue |-> <<>>, todo |-> <<>>,
           items |-> {}, acted |-> {}], {})

Problems ==
    {"dining_philosophers", "readers_writers", "sleeping_barber", "job_shop", "producer_consumer"}
Init == \E problem \in Problems : SeedCase(problem)

Problem == data.problem
At(s) == state.case = s

-----------------------------------------------------------------------------
(* Resources and stores *)

Capacity(resource) ==
    CASE resource[1] = "reader_slots" -> Readers
      [] resource[1] = "buffer" -> BufferSize
      [] OTHER -> 1

Buffer == <<"buffer", 0>>

Asked(r) == r \in held \/ r \in Range(data.queue)

\* run_until(now): every demand is granted that the capacity allows.
Granted(users, queue) ==
    FoldLeft(LAMBDA done, r :
                IF Cardinality({h \in done.users : h[2] = r[2]}) < Capacity(r[2])
                THEN [done EXCEPT !.users = @ \cup {r}]
                ELSE [done EXCEPT !.queue = Append(@, r)],
             [users |-> users, queue |-> <<>>], queue)

Stay(next) == Goto(next) /\ UNCHANGED <<state, work, waiting>>
Rest == [data EXCEPT !.todo = Tail(@)]

Settle(d, next) ==
    LET after == Granted(held, d.queue)
    IN  held' = after.users /\ data' = [d EXCEPT !.queue = after.queue] /\ Stay(next)

\* ensure_requested, and ensure_put into the bounded buffer.
Request(r) ==
    LET after == Granted(held, IF Asked(r) THEN data.queue ELSE Append(data.queue, r))
    IN  /\ held' = after.users
        /\ data' = [Rest EXCEPT !.queue = after.queue]
        /\ Stay("work")

\* release gives the capacity back; the demand behind it is granted when the
\* backend runs again.
Release(r) ==
    /\ held' = held \ {r}
    /\ data' = IF r \in held THEN [Rest EXCEPT !.acted = @ \cup {r[1]}] ELSE Rest
    /\ Stay("work")

\* ensure_put into an unbounded store.
EnsurePut(item) ==
    /\ data' = [Rest EXCEPT !.items = @ \cup {item}]
    /\ Stay("work") /\ UNCHANGED held

\* ensure_selection: the first item of the buffer, once per consumer, and the
\* next pending put takes its place.
EnsureSelection(c) ==
    LET buffered == {h[1] : h \in held}
        first == CHOOSE i \in buffered : \A j \in buffered : i <= j
        after == Granted(held \ {<<first, Buffer>>}, data.queue)
        served == \E m \in data.items : m[1] = c
    IN  IF served THEN data' = Rest /\ Stay("work") /\ UNCHANGED held
        ELSE /\ held' = after.users
             /\ data' = [Rest EXCEPT !.queue = after.queue, !.items = @ \cup {<<c, first>>}]
             /\ Stay("work")

-----------------------------------------------------------------------------
(* The actions of the problems *)

Least(a, b) == IF a < b THEN a ELSE b
Greatest(a, b) == IF a < b THEN b ELSE a
Count(n) == [i \in 1..n |-> i - 1]
Each(n, Op(_)) == [i \in 1..n |-> Op(i - 1)]
RequestAll(n, Op(_)) == Each(n, LAMBDA i : <<"request", Op(i)>>)
Held(n, Op(_)) == SelectSeq(Each(n, Op), LAMBDA r : r \in held)

\* The action on the first of the candidates, if there is one.
OnFirst(kind, s) == IF s = <<>> THEN <<"nobody">> ELSE <<kind, Head(s)>>

\* Dining philosophers.  _fork_pair: the forks are globally ordered.
FirstFork(p) == <<p, <<"fork", Least(p, (p + 1) % Philosophers)>>>>
SecondFork(p) == <<p, <<"fork", Greatest(p, (p + 1) % Philosophers)>>>>
AskForks == RequestAll(Philosophers, FirstFork)

\* _active_candidate: the first philosopher with a fork.
Eater ==
    OnFirst("eat", SelectSeq(Count(Philosophers),
                             LAMBDA p : {FirstFork(p), SecondFork(p)} \cap held # {}))

\* _release_philosopher_if_holding: the second fork is asked for, and a
\* philosopher with both gives them back.
Eat(p) ==
    CASE FirstFork(p) \in held /\ ~Asked(SecondFork(p)) ->
            <<<<"request", SecondFork(p)>>, <<"eat", p>>>>
      [] {FirstFork(p), SecondFork(p)} \subseteq held ->
            <<<<"release", FirstFork(p)>>, <<"release", SecondFork(p)>>>>
      [] FirstFork(p) \notin held /\ SecondFork(p) \in held -> <<<<"release", SecondFork(p)>>>>
      [] OTHER -> <<>>

\* Readers and writers.  The gate keeps the writers out until the readers left.
WriterGate == <<"writer_gate", 0>>
Gate(i) == <<<<"cohort", i>>, WriterGate>>
Writer(i) == <<<<"writer", i>>, WriterGate>>
Reader(i) == <<<<"reader", i>>, <<"reader_slots", 0>>>>
SeedReaderWriterDemands ==
    RequestAll(1, Gate) \o RequestAll(Readers, Reader) \o RequestAll(Writers, Writer)
Leaver == OnFirst("leave", Held(Readers, Reader) \o Held(1, Gate) \o Held(Writers, Writer))

\* Sleeping barber.  Who finds no chair goes away.
Customer(i) == <<i, <<"barber", 0>>>>
Accepted == Least(Customers, Chairs + 1)
AdmitCustomers ==
    Each(Customers - Accepted, LAMBDA i : <<"put", <<"abandoned", i + Accepted>>>>)
    \o RequestAll(Accepted, Customer)
Shaved == OnFirst("leave", Held(Customers, Customer))

\* Job shop.  _route: two operations, on two machines.
Operation(j, o) == <<<<j, o>>, <<"machine", (j + o) % Machines>>>>
AskMachines == RequestAll(Jobs, LAMBDA j : Operation(j, 0))
JobShopCandidate ==
    LET running == Held(2 * Jobs, LAMBDA k : Operation(k \div 2, k % 2))
    IN  IF running # <<>> THEN OnFirst("operate", running)
        ELSE IF \A j \in 0..(Jobs - 1) : <<j, 1>> \in data.items THEN <<"finish">>
        ELSE <<"admit-successors">>
ReleaseCompletedOperation(r) == <<<<"put", r[1]>>, <<"release", r>>>>
AdmitSuccessors ==
    LET admitted == SelectSeq(Count(Jobs), LAMBDA j :
                       <<j, 0>> \in data.items /\ <<j, 1>> \notin data.items /\ ~Asked(Operation(j, 1)))
    IN  [k \in 1..Len(admitted) |-> <<"request", Operation(admitted[k], 1)>>]

\* Producer and consumer.
Produce == RequestAll(Items, LAMBDA i : <<i, Buffer>>)
Consume == Each(Items, LAMBDA i : <<"select", i>>)

ReadyPlan ==
    CASE Problem = "dining_philosophers" -> AskForks
      [] Problem = "readers_writers" -> SeedReaderWriterDemands
      [] Problem = "sleeping_barber" -> AdmitCustomers
      [] Problem = "job_shop" -> AskMachines
      [] OTHER -> Produce

ActiveCandidate ==
    CASE Problem = "dining_philosophers" -> Eater
      [] Problem = "readers_writers" -> Leaver
      [] Problem = "sleeping_barber" -> Shaved
      [] Problem = "job_shop" -> JobShopCandidate
      [] OTHER -> <<"consume">>

Candidate ==
    CASE At("ready") -> <<"ready">> [] At("active") -> ActiveCandidate [] OTHER -> <<"noop">>

ActivePlan(action) ==
    CASE action[1] = "eat" -> <<action, <<"drained">>>>
      [] action[1] = "leave" -> <<<<"release", action[2]>>, <<"drained">>>>
      [] action[1] = "nobody" -> <<<<"drained">>>>
      [] action[1] = "operate" -> ReleaseCompletedOperation(action[2])
      [] action[1] = "admit-successors" -> AdmitSuccessors
      [] action[1] = "finish" -> <<<<"event", "finish">>>>
      [] OTHER -> Append(Consume, <<"drained">>)

\* The guards on the state of the case: a bound action may be repeated after
\* the transition that it ended with.
Plan(action) ==
    CASE action = <<"ready">> ->
            IF At("ready") THEN Append(ReadyPlan, <<"event", "advance">>) ELSE <<>>
      [] action = <<"noop">> -> <<>>
      [] OTHER -> IF At("active") THEN ActivePlan(action) ELSE <<>>

\* What ends the case: no demand and no reservation, or all items consumed.
Drained ==
    IF Problem = "producer_consumer" THEN Cardinality(data.items) = Items
    ELSE held = {} /\ data.queue = <<>>

-----------------------------------------------------------------------------
(* A call *)

\* The tick runs the backend; resolve_tick_action finds the action that is
\* bound to the tick already, or binds the candidate.
ResolveTickAction ==
    \/ /\ Call /\ data.action = NoAction
       /\ Settle([data EXCEPT !.acted = {}], "resolve")
    \/ pc = "resolve" /\ Record([data EXCEPT !.action = Candidate], "plan")
    \/ Call /\ data.action # NoAction /\ (Skip("plan") \/ Settle(data, "plan"))
    \/ pc = "plan" /\ Record([data EXCEPT !.todo = Plan(data.action)], "work")

Transition(event) ==
    /\ state' = [state EXCEPT !.case = Moved(CanonicalCaseChart, @, event)]
    /\ data' = Rest
    /\ Goto("work") /\ UNCHANGED <<work, requests>>

\* One durable step of the action.
Act ==
    /\ pc = "work" /\ data.todo # <<>>
    /\ LET op == Head(data.todo)
       IN  \/ op[1] = "request" /\ Request(op[2])
           \/ op[1] = "release" /\ Release(op[2])
           \/ op[1] = "put" /\ EnsurePut(op[2])
           \/ op[1] = "select" /\ EnsureSelection(op[2])
           \/ op[1] = "event" /\ Transition(op[2])
           \/ op[1] = "eat" /\ Record([data EXCEPT !.todo = Eat(op[2]) \o Tail(@)], "work")
           \/ op[1] = "drained"
              /\ Record([data EXCEPT !.todo = IF Drained THEN <<<<"event", "finish">>>> ELSE <<>>], "work")

\* The call returns and the trigger completes: the next call is for another
\* tick.
Ends == pc = "work" /\ data.todo = <<>> /\ Record([data EXCEPT !.action = NoAction], "idle")

ReconcileTick == ResolveTickAction \/ Act \/ Ends

\* The first philosopher with a fork waits for one that another philosopher
\* holds: no tick comes to that other one.  The problem's specification expects
\* that all demand drains; with three or more participants it does not.
Circling ==
    /\ Problem = "dining_philosophers" /\ At("active")
    /\ \E p \in 0..(Philosophers - 1) :
          /\ Eater = <<"eat", p>>
          /\ \E q \in (p + 1)..(Philosophers - 1) : <<q, SecondFork(p)[2]>> \in held

Completed == At("completed")
Finished == Completed \/ Circling

-----------------------------------------------------------------------------
\* resolve_tick_action: however often a tick is cut off and repeated it takes
\* at most one participant off its resource.  The problems' own conditions
\* hold through it: no resource above its capacity, no reader with a writer,
\* the second operation of a job after the first, items consumed once and in
\* the order in which they were produced.
Causality ==
    /\ Cardinality(data.acted) <= 1
    /\ \A h \in held : Cardinality({g \in held : g[2] = h[2]}) <= Capacity(h[2])
    /\ Problem = "readers_writers" =>
          ~\E g, h \in held : g[1][1] = "reader" /\ h[1][1] = "writer"
    /\ Problem = "job_shop" =>
          \A j \in 0..(Jobs - 1) :
             Asked(Operation(j, 1)) \/ <<j, 1>> \in data.items => <<j, 0>> \in data.items
    /\ Problem = "sleeping_barber" =>
          \A m \in data.items : ~Asked(Customer(m[2])) /\ m[2] >= Chairs + 1
    /\ Problem = "producer_consumer" => \A m \in data.items : m[1] = m[2]

\* The case completes only when every demand and every reservation is gone.
CapacityReturned == Completed => held = {} /\ data.queue = <<>>
=============================================================================
