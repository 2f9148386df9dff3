---------------------------- MODULE ProcureToPay ----------------------------
(* The procure-to-pay domain (sose/examples/p2p). *)
EXTENDS ProcessRuntime

RequisitionChart ==
    {<<"requested", "approve", "approved">>, <<"requested", "reject", "rejected">>,
     <<"approved", "order", "ordered">>}

PurchaseOrderChart ==
    {<<"created", "submit", "submitted">>, <<"submitted", "confirm", "confirmed">>,
     <<"confirmed", "dispatch", "in_transit">>, <<"delayed", "dispatch", "in_transit">>,
     <<"confirmed", "mark_delayed", "delayed">>, <<"in_transit", "mark_delayed", "delayed">>,
     <<"in_transit", "receive", "received">>, <<"received", "close", "closed">>}
    \cup {<<s, "cancel", "cancelled">> : s \in {"created", "submitted", "confirmed"}}

ReceiptChart ==
    {<<"pending", "begin_receiving", "receiving">>, <<"receiving", "mark_partial", "partial">>,
     <<"receiving", "inspect", "inspected">>, <<"partial", "inspect", "inspected">>,
     <<"inspected", "stock", "stocked">>}
    \cup {<<s, "reject", "rejected">> : s \in {"receiving", "partial", "inspected"}}

MaterialDemandChart ==
    {<<"open", "wait_for_inventory", "waiting_inventory">>,
     <<"open", "backorder", "backordered">>, <<"waiting_inventory", "backorder", "backordered">>,
     <<"allocated", "consume", "consumed">>}
    \cup {<<s, "allocate", "allocated">> : s \in {"open", "waiting_inventory", "backordered"}}
    \cup {<<s, "cancel", "cancelled">> : s \in {"open", "waiting_inventory", "backordered"}}

Chart == [requisition |-> RequisitionChart, po |-> PurchaseOrderChart,
          receipt |-> ReceiptChart, demand |-> MaterialDemandChart]

On(e, event, next) == Dispatch(Chart, e, event, next)

\* schedule_procurement_cycle: "receive" falls due after the supplier's lead time.
ProcurementCycle ==
    <<<<"requisition", "approve">>, <<"requisition", "order">>, <<"po", "submit">>,
      <<"po", "confirm">>, <<"po", "dispatch">>, <<"po", "receive">>, <<"po", "close">>>>

Init ==
    Start([requisition |-> "requested", po |-> "created", receipt |-> "pending",
           demand |-> "open"], {}, {ProcurementCycle})

Delivered == state.po \in {"received", "closed"}

\* What reconcile_receiving_resources returns to after a dock was granted or
\* when receiving had begun in an earlier call.
ApplyPreinspectionTransitions ==
    \/ pc = "receive" /\ state.receipt = "pending" /\ On("receipt", "begin_receiving", "receive")
    \/ /\ pc \in {"idle", "receive"} /\ Delivered /\ Disturbed
       /\ state.receipt = "receiving"
       /\ \/ On("receipt", "reject", "withdrawDock")
          \/ On("receipt", "mark_partial", "receive")
    \/ pc = "withdrawDock" /\ Withdraw("receiving_dock", "idle")

ReconcileReceivingResources ==
    \/ /\ Call /\ Delivered /\ state.receipt = "pending"
       /\ EnsureRequested("receiving_dock", "receive", "idle")
    \/ ApplyPreinspectionTransitions
    \/ /\ pc \in {"idle", "receive"} /\ Delivered
       /\ state.receipt \in {"receiving", "partial"}
       /\ EnsureRequested("inspector", "inspect", "idle")
    \/ pc = "inspect" /\ On("receipt", "inspect", "finalize")
    \/ pc = "finalize" /\ Withdraw("inspector", "withdrawDock")

\* Every effect is a Store or Container operation under a fixed request id:
\* it is submitted unless its intent or its result is persisted.
ReconcileStocking ==
    \/ Call /\ Delivered /\ state.receipt = "inspected" /\ Record(data \cup {"lot"}, "stock")
    \/ pc = "stock" /\ Record(data \cup {"inventory"}, "stocked")
    \/ pc = "stocked" /\ On("receipt", "stock", "idle")

\* auto_consume_inventory.
ReconcileConsumption ==
    \/ /\ Call /\ Delivered /\ state.receipt = "stocked" /\ state.demand # "consumed"
       /\ Record(data \cup {"lot_taken"}, "withdrawn")
    \/ pc = "withdrawn" /\ Record(data \cup {"inventory_taken"}, "allocate")
    \/ /\ pc = "allocate"
       /\ \/ /\ state.demand \in {"open", "waiting_inventory", "backordered"}
             /\ On("demand", "allocate", "allocate")
          \/ state.demand = "allocated" /\ On("demand", "consume", "idle")

ReconcileTick == ReconcileReceivingResources \/ ReconcileStocking \/ ReconcileConsumption

Rejected == state.receipt = "rejected"
Finished == state.demand = "consumed"

-----------------------------------------------------------------------------
\* reconcile_receiving_resources receives nothing before the supplier
\* delivers, reconcile_stocking makes no inventory before the inspection, and
\* reconcile_consumption moves the demand only with the inventory taken.
Causality ==
    /\ state.receipt # "pending" => Delivered
    /\ data # {} => state.receipt \in {"inspected", "stocked"}
    /\ state.demand # "open" => data = {"lot", "inventory", "lot_taken", "inventory_taken"}
    /\ state.receipt = "stocked" => {"lot", "inventory"} \subseteq data

\* A consumed demand leaves neither the dock nor the inspector reserved
\* (_finalize_receiving_result).
CapacityReturned == Returned(Finished, {"receiving_dock", "inspector"})
=============================================================================
