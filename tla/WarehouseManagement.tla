------------------------- MODULE WarehouseManagement -------------------------
(***************************************************************************)
(* The warehouse management domain (sose/examples/warehouse_management): a *)
(* transfer between two sites, and the stock operations that other         *)
(* processes call by a reference of their own.  Docks and forklifts are    *)
(* entities, so their capacity is in the state and not in `held`.          *)
(***************************************************************************)
EXTENDS ProcessRuntime

DockChart ==
    {<<"available", "reserve", "reserved">>, <<"reserved", "occupy", "occupied">>,
     <<"occupied", "release", "available">>, <<"reserved", "release", "available">>}

TruckChart ==
    {<<"scheduled", "depart_origin", "in_transit">>, <<"in_transit", "wait_for_dock", "waiting_dock">>,
     <<"in_transit", "dock", "docked">>, <<"waiting_dock", "dock", "docked">>,
     <<"docked", "release", "released">>}

ForkliftChart == {<<"available", "assign", "assigned">>, <<"assigned", "release", "available">>}

ShipmentChart ==
    {<<"planned", "start_transit", "in_transit">>, <<"in_transit", "arrive", "arrived">>,
     <<"arrived", "delay", "delayed">>, <<"delayed", "resume", "arrived">>,
     <<"arrived", "dock", "docked">>, <<"docked", "start_handling", "handling">>,
     <<"handling", "complete", "completed">>}

Docks == {"dock1", "dock2"}
Forklifts == {"forklift1", "forklift2"}
Chart == [e \in Docks \cup Forklifts \cup {"truck", "shipment"} |->
            CASE e \in Docks -> DockChart [] e \in Forklifts -> ForkliftChart
              [] e = "truck" -> TruckChart [] OTHER -> ShipmentChart]

On(e, event, next) == Dispatch(Chart, e, event, next)

\* data: the two stocks, in transfer quantities, what other processes did to
\* the first one, and the attributes of the shipment.
Init ==
    \E docks \in {{"dock1"}, Docks} : \E onHand \in 0..2 :
       Start([e \in DOMAIN Chart |->
                CASE e \in Docks -> IF e \in docks THEN "available" ELSE "absent"
                  [] e \in Forklifts -> "available"
                  [] e = "truck" -> "scheduled" [] OTHER -> "planned"],
             [seeded |-> onHand, onHand |-> onHand, reserved |-> 0, destination |-> 0,
              external |-> "none", receipt |-> FALSE, stockReserved |-> FALSE, stockMoved |-> FALSE,
              dock |-> "none", forklift |-> "none", released |-> FALSE], {})

At(s) == state.shipment = s
Truck(s) == state.truck = s
Available(pool) == {e \in pool : state[e] = "available"}
First(pool, first, second) == IF first \in pool THEN first ELSE second

\* Called by other processes between two ticks; a repeated reference changes
\* nothing, so each is modelled once.
ReceiveExternalReplenishment ==
    Call /\ Disturbed /\ ~data.receipt
    /\ Record([data EXCEPT !.onHand = @ + 1, !.receipt = TRUE], "idle")

ReserveExternalStock ==
    Call /\ Disturbed /\ data.external = "none" /\ data.onHand - data.reserved >= 1
    /\ Record([data EXCEPT !.reserved = @ + 1, !.external = "reserved"], "idle")

ConsumeExternalReservation ==
    Call /\ Disturbed /\ data.external = "reserved" /\ data.reserved >= 1 /\ data.onHand >= 1
    /\ Record([data EXCEPT !.onHand = @ - 1, !.reserved = @ - 1, !.external = "consumed"], "idle")

\* The reservation of the stock and the shipment are saved together.
StartTransfer ==
    \/ /\ Call /\ At("planned") /\ ~data.stockReserved /\ data.onHand - data.reserved >= 1
       /\ Record([data EXCEPT !.reserved = @ + 1, !.stockReserved = TRUE], "start")
    \/ Call /\ At("planned") /\ data.stockReserved /\ Skip("start")
    \/ pc = "start" /\ On("shipment", "start_transit", "depart")
    \/ Call /\ At("in_transit") /\ Truck("scheduled") /\ Skip("depart")
    \/ pc = "depart" /\ On("truck", "depart_origin", "idle")

AvailableDock == First(Available(Docks), "dock1", "dock2")

\* Without a free dock the truck and the shipment wait; with one it is taken
\* before the shipment says which one it has.
ArriveTruck ==
    \/ Call /\ At("in_transit") /\ ~Truck("scheduled") /\ On("shipment", "arrive", "arrived")
    \/ Call /\ (At("arrived") \/ (At("delayed") /\ Available(Docks) # {})) /\ Skip("arrived")
    \/ /\ pc = "arrived" /\ Available(Docks) = {}
       /\ IF Truck("in_transit") THEN On("truck", "wait_for_dock", "delay") ELSE Skip("delay")
    \/ pc = "delay" /\ On("shipment", "delay", "idle")
    \/ pc = "arrived" /\ Available(Docks) # {} /\ On("shipment", "resume", "reserve")
    \/ pc = "reserve" /\ On(AvailableDock, "reserve", "occupy " \o AvailableDock)
    \/ \E d \in Docks :
          \/ pc = "occupy " \o d /\ On(d, "occupy", "dockTruck " \o d)
          \/ pc = "dockTruck " \o d /\ On("truck", "dock", "dockShipment " \o d)
          \/ pc = "dockShipment " \o d /\ On("shipment", "dock", "assigned " \o d)
          \/ pc = "assigned " \o d /\ Record([data EXCEPT !.dock = d], "idle")

AvailableForklift == First(Available(Forklifts), "forklift1", "forklift2")

AssignForklift ==
    \/ Call /\ At("docked") /\ Available(Forklifts) # {}
       /\ On(AvailableForklift, "assign", "handle " \o AvailableForklift)
    \/ \E f \in Forklifts :
          \/ pc = "handle " \o f /\ On("shipment", "start_handling", "assigned " \o f)
          \/ pc = "assigned " \o f /\ Record([data EXCEPT !.forklift = f], "idle")

\* Without both assignments it raises, in every later tick too.
Owned == data.dock # "none" /\ data.forklift # "none"

CompleteUnload ==
    \/ Call /\ At("handling") /\ Owned /\ ~data.stockMoved /\ data.reserved >= 1 /\ data.onHand >= 1
       /\ Record([data EXCEPT !.reserved = @ - 1, !.onHand = @ - 1, !.destination = @ + 1,
                              !.stockMoved = TRUE], "complete")
    \/ Call /\ At("handling") /\ Owned /\ data.stockMoved /\ Skip("complete")
    \/ pc = "complete" /\ On("shipment", "complete", "release")

ReleaseCompletedResources ==
    \/ Call /\ At("completed") /\ ~data.released /\ Owned /\ Skip("release")
    \/ pc = "release" /\ On(data.forklift, "release", "releaseDock")
    \/ pc = "releaseDock" /\ On(data.dock, "release", "releaseTruck")
    \/ pc = "releaseTruck" /\ On("truck", "release", "releaseDone")
    \/ pc = "releaseDone"
       /\ IF /\ state[data.forklift] = "available" /\ state[data.dock] = "available"
             /\ Truck("released")
          THEN Record([data EXCEPT !.released = TRUE], "idle") ELSE Skip("idle")

ReconcileTick ==
    \/ StartTransfer \/ ArriveTruck \/ AssignForklift
    \/ CompleteUnload \/ ReleaseCompletedResources
    \/ ReceiveExternalReplenishment \/ ReserveExternalStock \/ ConsumeExternalReservation

\* What stops a transfer for good: no stock, the only dock taken by a call that
\* was cut off, or an assignment that was not saved.
Short == At("planned") /\ ~data.stockReserved /\ data.onHand - data.reserved < 1
Finished ==
    \/ data.released
    \/ Short
    \/ /\ crashes > 0 /\ pc = "idle"
       /\ \/ At("delayed") /\ Available(Docks) = {}
          \/ At("handling") /\ ~Owned

-----------------------------------------------------------------------------
\* complete_unload and the external stock operations: whatever is cut off and
\* repeated, stock is neither created nor lost, what is reserved is on hand and
\* belongs to the transfer or to the other process, stock moves exactly once,
\* and a shipment is unloaded only from a truck that docked.
Causality ==
    /\ data.onHand + data.destination + (IF data.external = "consumed" THEN 1 ELSE 0)
          = data.seeded + (IF data.receipt THEN 1 ELSE 0)
    /\ data.reserved = (IF data.stockReserved /\ ~data.stockMoved THEN 1 ELSE 0)
                       + (IF data.external = "reserved" THEN 1 ELSE 0)
    /\ data.reserved <= data.onHand
    /\ At("completed") => data.stockMoved /\ data.destination = 1
    /\ At("docked") \/ At("handling") \/ At("completed") => Truck("docked") \/ Truck("released")
    /\ Truck("released") => At("completed")
    /\ ~At("planned") => data.stockReserved

\* _release_completed_resources: a transfer that ends without an interruption
\* leaves every dock and every forklift free.
CapacityReturned ==
    crashes = 0 /\ pc = "idle" /\ (At("completed") \/ At("planned") \/ At("delayed")) =>
       \A e \in Docks \cup Forklifts : state[e] \in {"available", "absent"}
=============================================================================
