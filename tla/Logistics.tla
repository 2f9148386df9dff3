------------------------------ MODULE Logistics ------------------------------
(* The logistics domain (sose/examples/logistics). *)
EXTENDS ProcessRuntime

Delays ==
    {<<"pickup_scheduled", "delayed_pickup">>, <<"picked_up", "delayed_after_pickup">>,
     <<"at_origin_hub", "delayed_origin_hub">>, <<"in_transfer", "delayed_transfer">>,
     <<"at_destination_hub", "delayed_destination_hub">>,
     <<"out_for_delivery", "delayed_delivery">>}

ShipmentChart ==
    {<<"created", "schedule_pickup", "pickup_scheduled">>,
     <<"pickup_scheduled", "pickup", "picked_up">>,
     <<"picked_up", "arrive_origin_hub", "at_origin_hub">>,
     <<"at_origin_hub", "dispatch_transfer", "in_transfer">>,
     <<"in_transfer", "arrive_destination_hub", "at_destination_hub">>,
     <<"at_destination_hub", "dispatch_delivery", "out_for_delivery">>,
     <<"out_for_delivery", "deliver", "delivered">>,
     <<"out_for_delivery", "return_to_sender", "returned">>,
     <<"delayed_delivery", "return_to_sender", "returned">>}
    \cup {<<d[1], "delay", d[2]>> : d \in Delays}
    \cup {<<d[2], "resume", d[1]>> : d \in Delays}
    \cup UNION {{<<s, "mark_lost", "lost">>, <<s, "mark_damaged", "damaged">>} :
                  s \in UNION {{d[1], d[2]} : d \in Delays} \ {"pickup_scheduled", "delayed_pickup"}}

DeliveryAttemptChart ==
    {<<"pending", "dispatch", "out_for_delivery">>, <<"out_for_delivery", "deliver", "delivered">>,
     <<"out_for_delivery", "fail", "failed">>}

Attempts == {"attempt1", "attempt2"}
Chart == [e \in Attempts \cup {"shipment"} |->
            IF e = "shipment" THEN ShipmentChart ELSE DeliveryAttemptChart]

On(e, event, next) == Dispatch(Chart, e, event, next)

\* data: the items put into and taken from the queues of the two hubs, and
\* the attempt that the call is about.
Init ==
    Start([e \in DOMAIN Chart |-> IF e = "shipment" THEN "created" ELSE "absent"],
          [items |-> {}, attempt |-> "attempt1"], {<<<<"shipment", "schedule_pickup">>>>})

Note(item, next) == Record([data EXCEPT !.items = @ \cup {item}], next)
At(s) == state.shipment = s

\* A call goes through the stages in order; each acts on the state it finds.
ReconcilePickup ==
    \/ Call /\ At("delayed_pickup") /\ On("shipment", "resume", "pickup")
    \/ pc \in {"idle", "pickup"} /\ At("pickup_scheduled")
       /\ \/ Call /\ Disturbed /\ On("shipment", "delay", "idle")
          \/ EnsureRequested("pickup_courier", "picked", "idle")
    \/ pc = "picked" /\ On("shipment", "pickup", "withdrawPickup")
    \/ pc = "withdrawPickup" /\ Withdraw("pickup_courier", "origin")

ReconcileOriginHub ==
    \/ pc \in {"idle", "origin"} /\ At("picked_up")
       /\ EnsureRequested("origin_dock", "enqueue", "idle")
    \/ pc = "enqueue" /\ Note("origin", "arriveOrigin")
    \/ pc = "arriveOrigin" /\ On("shipment", "arrive_origin_hub", "withdrawOrigin")
    \/ pc = "withdrawOrigin" /\ Withdraw("origin_dock", "transfer")

\* The queue operations have fixed ids: a repeated one changes nothing.
ReconcileTransfer ==
    \/ pc \in {"idle", "transfer"} /\ At("at_origin_hub")
       /\ EnsureRequested("transfer_vehicle", "dequeueOrigin", "idle")
    \/ pc = "dequeueOrigin" /\ Note("origin_taken", "depart")
    \/ pc = "depart" /\ On("shipment", "dispatch_transfer", "transfer")
    \/ pc \in {"idle", "transfer"} /\ At("in_transfer")
       /\ EnsureRequested("destination_dock", "enqueueDestination", "idle")
    \/ pc = "enqueueDestination" /\ Note("destination", "arriveDestination")
    \/ pc = "arriveDestination" /\ On("shipment", "arrive_destination_hub", "withdrawDock")
    \/ pc = "withdrawDock" /\ Withdraw("destination_dock", "withdrawVehicle")
    \/ pc = "withdrawVehicle" /\ Withdraw("transfer_vehicle", "dispatch")

\* The tick is about the first attempt; the operator repeats with the second.
DispatchStage ==
    \/ pc \in {"idle", "dispatch"} /\ At("at_destination_hub") /\ Skip("attempt")
    \/ Call /\ At("out_for_delivery") /\ state.attempt1 = "failed" /\ data.attempt = "attempt1"
       /\ Record([data EXCEPT !.attempt = "attempt2"], "attempt")

EnsureDeliveryAttempt ==
    /\ pc = "attempt"
    /\ IF state[data.attempt] = "absent" THEN Create(data.attempt, "pending", "courier")
       ELSE Skip("courier")

DeliveryCourier == IF data.attempt = "attempt1" THEN "courier1" ELSE "courier2"

\* The tick does not come back to a shipment delayed at the destination hub.
ReconcileDeliveryDispatch ==
    \/ DispatchStage
    \/ EnsureDeliveryAttempt
    \/ pc = "courier" /\ Disturbed /\ At("at_destination_hub") /\ On("shipment", "delay", "idle")
    \/ pc = "courier" /\ EnsureRequested(DeliveryCourier, "dequeueDestination", "idle")
    \/ pc = "dequeueDestination"
       /\ IF At("at_destination_hub") THEN Note("destination_taken", "leave") ELSE Skip("send")
    \/ pc = "leave" /\ On("shipment", "dispatch_delivery", "send")
    \/ pc = "send" /\ On(data.attempt, "dispatch", "deliver")

\* Called with an attempt in another state, it raises.
Underway == At("out_for_delivery") /\ state[data.attempt] = "out_for_delivery"

ReconcileDeliverySuccess ==
    \/ pc \in {"idle", "deliver"} /\ Underway /\ On(data.attempt, "deliver", "delivered")
    \/ pc = "delivered" /\ On("shipment", "deliver", "withdrawCourier")
    \/ pc = "withdrawCourier" /\ Withdraw(DeliveryCourier, "idle")

\* Called by the operator.
ReconcileDeliveryFailure ==
    \/ Call /\ Disturbed /\ Underway /\ data.attempt = "attempt1"
       /\ On(data.attempt, "fail", "failed")
    \/ pc = "failed" /\ On("shipment", "delay", "retry")
    \/ pc = "retry" /\ Schedule(<<<<"shipment", "resume">>>>, "withdrawCourier")

ReconcileTick ==
    \/ ReconcilePickup \/ ReconcileOriginHub \/ ReconcileTransfer
    \/ ReconcileDeliveryDispatch \/ ReconcileDeliverySuccess \/ ReconcileDeliveryFailure

\* Delivered; or left where no call takes it further.
Delivered == At("delivered")
Finished ==
    \/ Delivered
    \/ At("delayed_destination_hub")
    \/ At("out_for_delivery") /\ ~Underway /\ crashes > 0
    \/ At("delayed_delivery") /\ work = {}

-----------------------------------------------------------------------------
\* Capacity and the hub's queue come before each movement, a delivery only by
\* an attempt that delivered, a second attempt only after the first failed
\* (LOG-03 to LOG-05).
Causality ==
    /\ At("at_origin_hub") => "origin" \in data.items
    /\ At("in_transfer") => "transfer_vehicle" \in held /\ "origin_taken" \in data.items
    /\ At("at_destination_hub") => "destination" \in data.items
    /\ At("out_for_delivery") => "destination_taken" \in data.items
    /\ Delivered => \E a \in Attempts : state[a] = "delivered"
    /\ state.attempt2 # "absent" => state.attempt1 = "failed"
    /\ \A a \in Attempts : state[a] = "out_for_delivery" =>
          (IF a = "attempt1" THEN "courier1" ELSE "courier2") \in held

\* A delivered shipment gave back couriers, docks and vehicle at every stage
\* it passed (reconcile_pickup to reconcile_delivery_success).
CapacityReturned ==
    Returned(Delivered, {"pickup_courier", "origin_dock", "transfer_vehicle",
                         "destination_dock", "courier1", "courier2"})
=============================================================================
