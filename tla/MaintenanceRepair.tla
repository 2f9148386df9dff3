-------------------------- MODULE MaintenanceRepair --------------------------
(* The maintenance, repair and operations domain (sose/examples/mro). *)
EXTENDS ProcessRuntime

MaxEmergencies == 2    \* bound on the preemptions of one work order

WorkOrderChart ==
    {<<"planned", "release", "released">>,
     <<"released", "wait_for_material", "waiting_material">>,
     <<"waiting_resource", "wait_for_material", "waiting_material">>,
     <<"released", "wait_for_resource", "waiting_resource">>,
     <<"waiting_material", "material_ready", "released">>,
     <<"waiting_resource", "resource_ready", "released">>,
     <<"released", "start", "in_progress">>, <<"in_progress", "interrupt", "interrupted">>,
     <<"interrupted", "resume", "in_progress">>, <<"in_progress", "complete", "completed">>,
     <<"completed", "close", "closed">>}
    \cup {<<s, "cancel", "cancelled">> :
            s \in {"planned", "released", "waiting_material", "waiting_resource"}}

PartDemandChart ==
    {<<"open", "wait", "waiting_inventory">>, <<"open", "allocate", "allocated">>,
     <<"waiting_inventory", "allocate", "allocated">>, <<"allocated", "consume", "consumed">>,
     <<"open", "cancel", "cancelled">>, <<"waiting_inventory", "cancel", "cancelled">>}

Chart == [wo |-> WorkOrderChart, demand |-> PartDemandChart]

On(e, event, next) == Dispatch(Chart, e, event, next)

\* data.facts: Store and Container effects; data.preemptions: the preemption
\* results; data.displaced: the active emergency is the one of the last result.
Init ==
    Start([wo |-> "planned", demand |-> "open"],
          [facts |-> {}, preemptions |-> 0, displaced |-> FALSE],
          {<<<<"wo", "release">>>>})

Note(facts, next) == Record([data EXCEPT !.facts = facts], next)

\* The lot is put again when it is not in the store, the quantity only once.
SeedSpareParts ==
    \/ Call /\ Disturbed /\ Skip("start")
    \/ Call /\ Note(data.facts \cup {"lot"}, "seed")
    \/ /\ pc = "seed"
       /\ Note(data.facts \cup (IF "seeded" \in data.facts THEN {} ELSE {"seeded", "quantity"}),
               "start")

PartIssueStarted == data.facts \cap {"lot_taken", "quantity_taken"} # {}
PartIssueComplete == {"lot_taken", "quantity_taken"} \subseteq data.facts
MaterialInStock == {"lot", "quantity"} \subseteq data.facts

Waits == state.wo \in {"planned", "released", "waiting_material", "waiting_resource"}

\* Capacity is released only by a work order that waits for resources.
ReconcileMaterialShortage ==
    \/ /\ pc = "start" /\ Waits /\ ~PartIssueComplete
       /\ ~MaterialInStock \/ Disturbed
       /\ IF state.wo = "waiting_resource" THEN Withdraw("technician", "shortBay")
          ELSE Skip("short")
    \/ pc = "shortBay" /\ Withdraw("bay", "short")
    \/ pc = "short" /\ On("wo", "wait_for_material", "shortDemand")
    \/ pc = "shortDemand" /\ On("demand", "wait", "emergency")

ReconcileMaterialAvailability ==
    \/ pc = "start" /\ Waits /\ PartIssueComplete /\ Skip("capacity")
    \/ /\ pc = "start" /\ Waits /\ ~PartIssueComplete /\ MaterialInStock
       /\ On("wo", "material_ready", "capacity")
    \/ ReconcileMaterialShortage

\* The callbacks that discard capacity granted to a terminal work order are
\* left out: they are lost in a crash, and without one cancellation withdraws.
ReconcileCapacity ==
    \/ pc = "capacity" /\ Disturbed /\ Skip("noCapacity")
    \/ pc = "capacity" /\ EnsureRequested("technician", "bay", "bay")
    \/ pc = "bay" /\ EnsureRequested("bay", "check", "check")
    \/ pc = "check" /\ Skip(IF {"technician", "bay"} \subseteq held THEN "ready" ELSE "noCapacity")

EnsurePartIssueRequests ==
    \/ /\ pc = "issue" /\ ~PartIssueComplete
       /\ Note(IF "lot_taken" \in data.facts THEN data.facts
               ELSE (data.facts \ {"lot"}) \cup {"lot_taken"}, "issueQuantity")
    \/ /\ pc = "issueQuantity"
       /\ Note((data.facts \ {"quantity"}) \cup {"quantity_taken"}, "progress")

DispatchPartDemandProgress ==
    /\ pc = "progress"
    /\ \/ state.demand \in {"open", "waiting_inventory"} /\ On("demand", "allocate", "progress")
       \/ state.demand \notin {"open", "waiting_inventory"} /\ On("demand", "consume", "begin")

\* The material was found in stock or issued by this call.
ReconcilePartIssue ==
    \/ EnsurePartIssueRequests
    \/ pc = "issue" /\ PartIssueComplete /\ Skip("progress")
    \/ DispatchPartDemandProgress

ReconcileStart ==
    \/ pc = "start" /\ ~Waits /\ Skip("emergency")
    \/ ReconcileMaterialAvailability
    \/ ReconcileCapacity
    \/ pc = "noCapacity" /\ On("wo", "wait_for_resource", "emergency")
    \/ pc = "ready" /\ On("wo", "resource_ready", "issue")
    \/ ReconcilePartIssue
    \/ pc = "begin" /\ On("wo", "start", "emergency")

\* The urgent request displaces the work order, or finds a free bay.
RequestEmergency ==
    /\ data.preemptions < MaxEmergencies
    /\ \/ /\ held' = (held \ {"bay"}) \cup {"bay-emergency"}
          /\ data' = [data EXCEPT !.preemptions = @ + 1, !.displaced = TRUE]
          /\ Goto("interrupt")
       \/ /\ held' = held \cup {"bay-emergency"}
          /\ UNCHANGED data
          /\ Goto("undo")
    /\ UNCHANGED <<state, work, waiting>>

\* Without its bay the work order is interrupted by the committed preemption.
ReconcileEmergencyInterrupt(interrupt) ==
    /\ state.wo = "in_progress"
    /\ IF "bay" \in held
       THEN IF "bay-emergency" \in held THEN Skip("undo") ELSE RequestEmergency
       ELSE IF "bay-emergency" \in held /\ data.displaced THEN Skip(interrupt) ELSE Skip("idle")

\* Within the scenario the call ends here; after it, the order resumes at once.
DispatchWorkOrderInterrupt ==
    \/ pc = "interrupt" /\ On("wo", "interrupt", "idle")
    \/ pc = "lateInterrupt" /\ On("wo", "interrupt", "resume")

\* The emergency is withdrawn before the bay is requested again.
ReconcileEmergencyResume ==
    \/ /\ pc = "resume" /\ state.wo = "interrupted" /\ "bay-emergency" \in held
       /\ held' = held \ {"bay-emergency"}
       /\ data' = [data EXCEPT !.displaced = FALSE]
       /\ Goto("again")
       /\ UNCHANGED <<state, work, waiting>>
    \/ /\ pc = "resume" /\ state.wo = "interrupted" /\ "bay-emergency" \notin held
       /\ Skip("again")
    \/ pc = "again" /\ EnsureRequested("bay", "resumed", "idle")
    \/ pc = "resumed" /\ On("wo", "resume", "idle")

ReconcileScenarioEmergency ==
    LET stale == "bay-emergency" \in held /\ data.preemptions > 0 /\ state.wo = "in_progress"
        resume == /\ state.wo = "interrupted"
                  /\ "bay-emergency" \in held \/ "bay" \in held \cup waiting
    IN
    \/ pc = "emergency" /\ Disturbed /\ ReconcileEmergencyInterrupt("interrupt")
    \/ pc = "emergency" /\ stale /\ ReconcileEmergencyInterrupt("lateInterrupt")
    \/ pc = "emergency" /\ resume /\ Skip("resume")
    \/ pc = "emergency" /\ (Disturbed \/ ~(stale \/ resume)) /\ Skip("idle")
    \/ pc = "undo" /\ Withdraw("bay-emergency", "idle")
    \/ DispatchWorkOrderInterrupt
    \/ ReconcileEmergencyResume

\* Called by the operator, between two ticks.
ReconcileComplete ==
    \/ Call /\ state.wo = "in_progress" /\ On("wo", "complete", "close")
    \/ pc \in {"idle", "close"} /\ state.wo = "completed" /\ On("wo", "close", "idle")

ReleaseCapacity ==
    \/ Call /\ state.wo = "closed" /\ "technician" \in held /\ Withdraw("technician", "releaseBay")
    \/ pc = "releaseBay" /\ Withdraw("bay", "idle")

ReconcileCancel ==
    \/ /\ Call /\ Disturbed /\ ~PartIssueStarted /\ Waits
       /\ IF state.wo = "planned" THEN CancelPending("wo", "release", "cancel")
          ELSE Skip("cancel")
    \/ pc = "cancel" /\ On("wo", "cancel", "cancelDemand")
    \/ pc = "cancelDemand" /\ On("demand", "cancel", "release")
    \/ pc = "release" /\ Withdraw("technician", "releaseBay")

ReconcileTick ==
    \/ SeedSpareParts \/ ReconcileStart \/ ReconcileScenarioEmergency
    \/ ReconcileComplete \/ ReleaseCapacity \/ ReconcileCancel

\* A cancellation cut off after it removed the release waits to be repeated.
Finished ==
    \/ state.wo \in {"in_progress", "closed", "cancelled"}
    \/ state.wo = "planned" /\ work = {}

-----------------------------------------------------------------------------
\* An active work order has its technician and the issued parts, and its bay
\* unless an emergency took it; reconcile_cancel never cancels one that
\* took a part (MRO-05, MRO-06, MRO-10).
Causality ==
    /\ state.wo = "in_progress" =>
          /\ PartIssueComplete
          /\ "technician" \in held
          /\ "bay" \in held \/ data.displaced
    /\ state.wo = "cancelled" => ~PartIssueStarted

\* A cancelled work order keeps no technician and no bay
\* (reconcile_cancel).
CapacityReturned == Returned(state.wo = "cancelled", {"technician", "bay"})
=============================================================================
