---------------------------- MODULE Manufacturing ----------------------------
(* The manufacturing domain (sose/examples/manufacturing). *)
EXTENDS ProcessRuntime

ProductionOrderChart ==
    {<<"planned", "release", "released">>,
     <<"released", "wait_for_material", "waiting_material">>,
     <<"waiting_material", "material_ready", "released">>,
     <<"released", "begin_setup", "setup">>, <<"setup", "start_production", "producing">>,
     <<"setup", "breakdown", "machine_down">>, <<"producing", "breakdown", "machine_down">>,
     <<"machine_down", "repair", "setup">>, <<"producing", "begin_inspection", "inspection">>,
     <<"inspection", "hold_quality", "quality_hold">>,
     <<"quality_hold", "rework_order", "rework">>, <<"rework", "resume_rework", "producing">>,
     <<"inspection", "complete", "completed">>}
    \cup {<<s, "cancel", "cancelled">> : s \in {"planned", "released", "waiting_material"}}

OperationChart ==
    {<<"pending", "ready", "ready_state">>, <<"ready_state", "start", "running">>,
     <<"ready_state", "block", "blocked">>, <<"running", "block", "blocked">>,
     <<"blocked", "unblock", "ready_state">>, <<"running", "finish", "done">>,
     <<"done", "rework", "ready_state">>}

Chart == [order |-> ProductionOrderChart, operation |-> OperationChart]

On(e, event, next) == Dispatch(Chart, e, event, next)

\* data: Store and Container effects, and the preemption result.
Init ==
    Start([order |-> "planned", operation |-> "pending"], {},
          {<<<<"order", "release">>, <<"operation", "ready">>>>})

Note(facts, next) == Record(data \cup facts, next)

\* The only machine is with the repair.
Blocked == IF "machine-repair" \in held THEN {"machine"} ELSE {}

BeforeSetup == state.order \in {"planned", "released", "waiting_material"}

\* auto_seed_material; the quantity is put once, the lot when it is missing.
SeedMaterial ==
    \/ Call /\ BeforeSetup /\ Disturbed /\ Skip("material")
    \/ Call /\ BeforeSetup /\ Note({"lot"}, "seed")
    \/ pc = "seed" /\ Note({"raw"}, "material")

\* has_lot is true of any stored item.
ReconcileMaterialAvailability ==
    LET available == {"lot", "raw"} \subseteq data
    IN
    \/ pc = "material" /\ state.order = "waiting_material" /\ available
       /\ On("order", "material_ready", "idle")
    \/ pc = "material" /\ state.order = "released" /\ ~available
       /\ On("order", "wait_for_material", "idle")
    \/ pc = "material" /\ state.order = "released" /\ available /\ Skip("setup")
    \/ /\ pc = "material"
       /\ state.order = "planned" \/ (state.order = "waiting_material" /\ ~available)
       /\ Skip("idle")

RequestMachine(granted, refused) ==
    IF "machine-repair" \in held
    THEN waiting' = waiting \cup {"machine"} /\ Goto(refused) /\ UNCHANGED <<entities, work, held>>
    ELSE EnsureRequested("machine", granted, refused)

ReconcileSetupResources ==
    \/ pc = "setup" /\ RequestMachine("operator", "operator")
    \/ pc = "operator" /\ EnsureRequested("operator", "granted", "idle")
    \/ pc = "granted" /\ "machine" \notin held /\ Skip("idle")
    \/ pc = "granted" /\ "machine" \in held /\ On("order", "begin_setup", "startOperation")
    \/ pc = "startOperation" /\ On("operation", "start", "idle")

ReleaseSetupResources ==
    \/ Call /\ state.order = "completed" /\ Withdraw("machine", "releaseOperator")
    \/ pc = "releaseOperator" /\ Withdraw("operator", "idle")

\* Each withdrawal is submitted unless it is requested or done already.
ReconcileMaterialIssue ==
    \/ Call /\ state.order = "setup"
       /\ Record((data \ {"lot"}) \cup {"lot_issued"}, "issueQuantity")
    \/ pc = "issueQuantity" /\ Record((data \ {"raw"}) \cup {"raw_issued"}, "issued")
    \/ pc = "issued" /\ On("order", "start_production", "idle")

\* The wip is put unless it is stored or was taken from the store.
ReconcileWipOutput ==
    \/ Call /\ state.order = "producing"
       /\ Note(IF "wip_taken" \in data THEN {} ELSE {"wip"}, "inspect")
    \/ pc = "inspect" /\ On("order", "begin_inspection", "finishOperation")
    \/ pc = "finishOperation" /\ On("operation", "finish", "idle")

ReconcileQualityPass ==
    \/ Call /\ state.order = "inspection" /\ Note({"finished_goods"}, "takeWip")
    \/ pc = "takeWip" /\ Record((data \ {"wip"}) \cup {"wip_taken"}, "complete")
    \/ pc = "complete" /\ On("order", "complete", "idle")

ReconcileQualityHold ==
    Call /\ state.order = "inspection" /\ Disturbed /\ On("order", "hold_quality", "idle")

\* Called by the operator.  Every breakdown of an order has the same request,
\* and a second preemption by it raises (ResultRaises of PreemptiveResources).
ReconcileBreakdown ==
    \/ /\ Call /\ Disturbed /\ "preempted" \notin data
       /\ IF "machine" \in held
          THEN held' = (held \ {"machine"}) \cup {"machine-repair"}
               /\ data' = data \cup {"preempted"} /\ Goto("down")
          ELSE held' = held \cup {"machine-repair"} /\ UNCHANGED data /\ Goto("idle")
       /\ UNCHANGED <<state, work, waiting>>
    \/ pc = "down" /\ On("order", "breakdown", "block")
    \/ pc = "block" /\ On("operation", "block", "idle")

\* Called by the operator.
ReconcileRepair ==
    \/ Call /\ "machine-repair" \in held /\ Withdraw("machine-repair", "machineAgain")
    \/ Call /\ state.order = "machine_down" /\ "machine-repair" \notin held /\ Skip("machineAgain")
    \/ pc = "machineAgain" /\ RequestMachine("repaired", "idle")
    \/ pc = "repaired" /\ On("order", "repair", "unblock")
    \/ pc = "unblock" /\ On("operation", "unblock", "startOperation")

\* Called by the operator.
ReconcileRework ==
    \/ Call /\ state.order = "quality_hold" /\ On("order", "rework_order", "rework")
    \/ pc \in {"idle", "rework"} /\ state.order = "rework"
       /\ On("order", "resume_rework", "reworkOperation")
    \/ pc = "reworkOperation" /\ On("operation", "rework", "startOperation")

ReconcileTick ==
    \/ SeedMaterial \/ ReconcileMaterialAvailability \/ ReconcileSetupResources
    \/ ReconcileMaterialIssue \/ ReconcileWipOutput \/ ReconcileQualityPass
    \/ ReconcileQualityHold \/ ReleaseSetupResources
    \/ ReconcileBreakdown \/ ReconcileRepair \/ ReconcileRework

\* The order completed and returned its capacity, or it waits for the operator.
Finished ==
    \/ state.order = "completed" /\ (held \cup waiting) \cap {"machine", "operator"} = {}
    \/ state.order \in {"machine_down", "quality_hold", "rework"}
    \/ "machine-repair" \in held

-----------------------------------------------------------------------------
\* Setup needs the operator and, unless it broke down, the machine;
\* production the issued material; inspection and completion the wip of this
\* order, taken once (MFG-01 to MFG-07).
Causality ==
    /\ state.order \in {"setup", "producing", "inspection"} =>
          "operator" \in held /\ ("machine" \in held \/ "preempted" \in data)
    /\ state.order \in {"producing", "inspection", "quality_hold", "rework", "completed"} =>
          {"lot_issued", "raw_issued"} \subseteq data
    /\ state.order \in {"inspection", "quality_hold", "rework"} =>
          data \cap {"wip", "wip_taken"} # {}
    /\ state.order = "completed" => {"finished_goods", "wip_taken"} \subseteq data
    /\ crashes = 0 /\ state.order = "quality_hold" => "finished_goods" \notin data
=============================================================================
