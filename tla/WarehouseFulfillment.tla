------------------------ MODULE WarehouseFulfillment ------------------------
(***************************************************************************)
(* The warehouse fulfillment domain (sose/examples/warehouse_fulfillment): *)
(* an order is allocated over lots "A" and "B" and picked, packed and      *)
(* shipped by service tasks.  The composed variants, whose stock another   *)
(* domain owns, are left out.                                              *)
(***************************************************************************)
EXTENDS ProcessRuntime, Integers, TLC

Lots == {"A", "B"}
Tasks == <<"pick A", "pick B", "pack", "ship">>
TaskSet == {Tasks[i] : i \in 1..4}
PickOf(l) == "pick " \o l
Requested == 10
OnHand == [A |-> 6, B |-> 5]
Corrections == {-2, 1}    \* the corrections of lot B that are tried, one at most

FulfillmentOrderChart ==
    {<<"requested", "allocate", "allocated">>, <<"allocated", "start_pick", "picking">>,
     <<"picking", "pack", "packed">>, <<"packed", "ship", "shipped">>,
     <<"requested", "cancel", "cancelled">>, <<"allocated", "cancel", "cancelled">>}

AllocationChart ==
    {<<"committed", "pick", "picked">>, <<"picked", "ship", "shipped">>,
     <<"committed", "release", "released">>}

InventoryOccurrenceChart == {<<"captured", "commit", "committed">>}

FulfillmentServiceTaskChart ==
    {<<"queued", "start", "in_progress">>, <<"in_progress", "complete", "completed">>}

AllocationOf(l) == "allocation " \o l
OccurrenceOf(t) == "occurrence " \o t

Chart ==
    [e \in {"order"} |-> FulfillmentOrderChart]
    @@ [e \in {AllocationOf(l) : l \in Lots} |-> AllocationChart]
    @@ [e \in {OccurrenceOf(t) : t \in TaskSet \cup {"correction"}} |-> InventoryOccurrenceChart]
    @@ [e \in TaskSet |-> FulfillmentServiceTaskChart]

On(e, event, next) == Dispatch(Chart, e, event, next)

Init ==
    Start([e \in DOMAIN Chart |-> IF e = "order" THEN "requested" ELSE "absent"],
          [onHand |-> OnHand, allocated |-> [l \in Lots |-> 0], quantity |-> [l \in Lots |-> 0],
           correction |-> 0, applied |-> {}, released |-> {}], {})

\* A transaction that saves entities and attributes together.
Save(s, d, next) ==
    /\ state' = s /\ data' = d
    /\ Goto(next)
    /\ UNCHANGED <<work, requests>>

\* Lot A holds the requested article and is taken first.
AllocationPlan ==
    LET fromA == IF data.onHand.A < Requested THEN data.onHand.A ELSE Requested
    IN  [A |-> fromA, B |-> Requested - fromA]

\* The allocations are saved before the order moves.
AllocateOrder ==
    \/ /\ Call /\ state.order = "requested" /\ state[AllocationOf("A")] = "absent"
       /\ AllocationPlan.B <= data.onHand.B
       /\ Save([e \in DOMAIN state |->
                  IF e \in {AllocationOf(l) : l \in Lots} THEN "committed" ELSE state[e]],
               [data EXCEPT !.allocated = AllocationPlan, !.quantity = AllocationPlan], "allocate")
    \/ /\ pc \in {"idle", "allocate"} /\ state.order = "requested"
       /\ state[AllocationOf("A")] # "absent"
       /\ On("order", "allocate", "services")

\* The occurrence and the balances change in one transaction, once.
PickAllocation(l, next) ==
    \/ /\ pc = "apply " \o PickOf(l) /\ PickOf(l) \notin data.applied
       /\ IF state[OccurrenceOf(PickOf(l))] = "absent"
          THEN Save([state EXCEPT ![OccurrenceOf(PickOf(l))] = "captured"],
                    [data EXCEPT !.onHand[l] = @ - data.quantity[l],
                                 !.allocated[l] = @ - data.quantity[l]], "commit " \o PickOf(l))
          ELSE Skip("commit " \o PickOf(l))
    \/ /\ pc = "commit " \o PickOf(l)
       /\ On(OccurrenceOf(PickOf(l)), "commit", "pick " \o PickOf(l))
    \/ pc = "pick " \o PickOf(l) /\ On(AllocationOf(l), "pick", next)

PackOrder(next) ==
    \/ /\ pc = "apply pack" /\ "pack" \notin data.applied
       /\ IF state[OccurrenceOf("pack")] = "absent"
          THEN Create(OccurrenceOf("pack"), "captured", "commit pack") ELSE Skip("commit pack")
    \/ pc = "commit pack" /\ On(OccurrenceOf("pack"), "commit", "pack order")
    \/ pc = "pack order" /\ On("order", "pack", next)

ShipOrder(next) ==
    \/ /\ pc = "apply ship" /\ "ship" \notin data.applied
       /\ IF \E l \in Lots : state[AllocationOf(l)] = "picked"
          THEN \E l \in Lots : /\ state[AllocationOf(l)] = "picked"
                               /\ On(AllocationOf(l), "ship", "apply ship")
          ELSE IF state[OccurrenceOf("ship")] = "absent"
               THEN Create(OccurrenceOf("ship"), "captured", "commit ship")
               ELSE Skip("commit ship")
    \/ pc = "commit ship" /\ On(OccurrenceOf("ship"), "commit", "ship order")
    \/ pc = "ship order" /\ On("order", "ship", next)

EnsureServiceTask(t) ==
    /\ pc = "ensure " \o t
    /\ IF state[t] = "absent" THEN Create(t, "queued", "start " \o t)
       ELSE Skip((IF state[t] = "completed" THEN "apply " ELSE "start ") \o t)

StartServiceTask(t, next) ==
    \/ pc = "start " \o t /\ EnsureRequested(t, "acquired " \o t, next)
    \/ pc = "acquired " \o t /\ On(t, "start", "plan " \o t)
    \/ /\ pc = "plan " \o t
       /\ IF Pending(t, "complete") THEN Skip(next) ELSE Schedule(<<<<t, "complete">>>>, next)

\* The business step, then the flag, the capacity and its flag.
ApplyCompletedServiceTask(t, next) ==
    \/ pc = "applied " \o t
       /\ Record([data EXCEPT !.applied = @ \cup {t}], "apply " \o t)
    \/ pc = "apply " \o t /\ t \in data.applied
       /\ IF t \in data.released THEN Skip(next) ELSE Withdraw(t, "released " \o t)
    \/ pc = "released " \o t /\ Record([data EXCEPT !.released = @ \cup {t}], next)

\* Where the call goes from task i to the next one that it takes up.
Eligible(t) ==
    CASE t \in {"pick A", "pick B"} -> state.order = "picking"
      [] t = "pack" -> \/ state.order = "picking"
                          /\ \A l \in Lots : state[AllocationOf(l)] = "picked"
                       \/ state.pack = "completed"
      [] OTHER -> state.order = "packed" \/ state.ship = "completed"

ReconcileServiceTask(i) ==
    LET t == Tasks[i]
        next == IF i = 4 THEN "idle" ELSE "task " \o Tasks[i + 1]
    IN  \/ pc = "task " \o t /\ Skip(IF Eligible(t) THEN "ensure " \o t ELSE next)
        \/ EnsureServiceTask(t)
        \/ StartServiceTask(t, next)
        \/ ApplyCompletedServiceTask(t, next)

\* A shipped order is not visited again.
ReconcileFulfillmentServices ==
    \/ /\ pc \in {"idle", "services"} /\ state.order \in {"allocated", "picking", "packed"}
       /\ On("order", "start_pick", "task pick A")
    \/ \E i \in 1..4 : ReconcileServiceTask(i)
    \/ \E l \in Lots : PickAllocation(l, "applied " \o PickOf(l))
    \/ PackOrder("applied pack")
    \/ ShipOrder("applied ship")

\* Called by the operator.
CorrectLotBalance ==
    \/ \E delta \in Corrections :
          /\ Call /\ Disturbed /\ state[OccurrenceOf("correction")] = "absent"
          /\ data.onHand.B + delta >= data.allocated.B
          /\ Save([state EXCEPT ![OccurrenceOf("correction")] = "captured"],
                  [data EXCEPT !.onHand.B = @ + delta, !.correction = delta], "correct")
    \/ /\ pc \in {"idle", "correct"} /\ state[OccurrenceOf("correction")] = "captured"
       /\ On(OccurrenceOf("correction"), "commit", "idle")

ReconcileTick == AllocateOrder \/ ReconcileFulfillmentServices \/ CorrectLotBalance

\* Shipped, or the stock does not suffice.
Finished ==
    \/ state.order = "shipped"
    \/ state.order = "requested" /\ data.onHand.A + data.onHand.B < Requested

-----------------------------------------------------------------------------
\* The balances of a lot follow from the persisted evidence however often
\* allocate_order, pick_allocation and the corrections are cut off and
\* repeated: what is allocated is on hand, a pick moves stock once, an order
\* is packed and shipped only with every allocation and occurrence (WH-01 to
\* WH-08).
Causality ==
    /\ \A l \in Lots :
          LET moved == IF state[OccurrenceOf(PickOf(l))] = "absent" THEN 0 ELSE data.quantity[l]
          IN  /\ data.onHand[l] = OnHand[l] - moved + (IF l = "B" THEN data.correction ELSE 0)
              /\ data.allocated[l] = data.quantity[l] - moved
              /\ data.allocated[l] <= data.onHand[l]
    /\ data.quantity.A + data.quantity.B \in {0, Requested}
    /\ state.order \in {"packed", "shipped"} =>
          \A l \in Lots : state[AllocationOf(l)] \in {"picked", "shipped"}
    /\ state.order = "shipped" =>
          \A t \in TaskSet : state[OccurrenceOf(t)] = "committed"

\* A shipped order released the service capacity of every task
\* (_release_service_capacity).
CapacityReturned == Returned(state.order = "shipped", TaskSet)
=============================================================================
