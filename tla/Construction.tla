---------------------------- MODULE Construction ----------------------------
(* The construction domain (sose/examples/construction). *)
EXTENDS ProcessRuntime, TLC

ActivityChart ==
    {<<"planned", "block_dependency", "blocked_dependency">>, <<"planned", "release", "ready">>,
     <<"blocked_dependency", "dependency_ready", "ready">>,
     <<"ready", "wait_material", "waiting_material">>,
     <<"waiting_material", "material_ready", "ready">>,
     <<"ready", "request_resources", "waiting_resource">>,
     <<"waiting_resource", "start", "executing">>, <<"executing", "finish_work", "inspection">>,
     <<"inspection", "accept", "measured">>, <<"inspection", "reject", "rework">>,
     <<"rework", "schedule_rework", "waiting_resource">>, <<"measured", "complete", "completed">>}
    \cup {<<s, "cancel", "cancelled">> : s \in {"planned", "blocked_dependency", "ready",
                                                "waiting_material", "waiting_resource"}}

InspectionChart ==
    {<<"pending", "begin", "inspecting">>, <<"inspecting", "pass_inspection", "passed">>,
     <<"inspecting", "fail_inspection", "failed">>, <<"pending", "void", "voided">>}

Inspections == {"first", "second"}
Chart == [predecessor |-> ActivityChart, activity |-> ActivityChart, measurement |-> {}]
         @@ [i \in Inspections |-> InspectionChart]

On(e, event, next) == Dispatch(Chart, e, event, next)

\* data.facts: Store and Container effects and the staged attribute;
\* data.cycle: the cycle of the current call's requests.
Init ==
    \E predecessor \in {"measured", "completed"} :
        Start([e \in DOMAIN Chart |->
                 CASE e = "predecessor" -> predecessor [] e = "activity" -> "planned"
                   [] OTHER -> "absent"],
              [facts |-> {}, cycle |-> "initial"], {})

At(s) == state.activity = s
Staged == "staged" \in data.facts
Note(facts, next) == Record([data EXCEPT !.facts = facts], next)

ReconcileDependency ==
    /\ Call
    /\ \/ /\ At("planned")
          /\ On("activity", IF state.predecessor = "completed" THEN "release"
                            ELSE "block_dependency", "idle")
       \/ /\ At("blocked_dependency") /\ state.predecessor = "completed"
          /\ On("activity", "dependency_ready", "idle")

\* Called by the operator.
CompletePredecessor ==
    Call /\ state.predecessor = "measured" /\ On("predecessor", "complete", "idle")

\* The lot is put again when it is not in the store, the quantity only once.
SeedMaterial ==
    \/ /\ Call /\ state.activity \in {"ready", "waiting_material"} /\ ~Staged
       /\ \/ Disturbed /\ Skip("available")
          \/ Note(data.facts \cup {"lot"}, "seedQuantity")
    \/ /\ pc = "seedQuantity"
       /\ Note(IF "seeded" \in data.facts THEN data.facts
               ELSE data.facts \cup {"seeded", "quantity"}, "available")

MaterialFeasible == {"lot", "quantity"} \subseteq data.facts

\* The scenario hides material that is there.
ReconcileMaterialAvailability ==
    /\ pc = "available"
    /\ \/ /\ Disturbed \/ ~MaterialFeasible
          /\ IF At("ready") THEN On("activity", "wait_material", "idle") ELSE Skip("idle")
       \/ /\ MaterialFeasible
          /\ IF At("waiting_material") THEN On("activity", "material_ready", "stage")
             ELSE Skip("stage")

\* Each request has a fixed id.  A call that finds the quantity taken, but not
\* the staged attribute, does not come here: the material is not feasible.
StageMaterial ==
    \/ /\ pc = "stage"
       /\ Note(IF "lot_taken" \in data.facts THEN data.facts
               ELSE (data.facts \ {"lot"}) \cup {"lot_taken"}, "stageQuantity")
    \/ /\ pc = "stageQuantity"
       /\ Note((data.facts \ {"quantity"}) \cup {"quantity_taken"}, "staged")
    \/ pc = "staged" /\ Note(data.facts \cup {"staged"}, "idle")

SchedulePlannedStart ==
    /\ Call /\ At("ready") /\ Staged
    /\ ~Pending("activity", "request_resources")
    /\ Schedule(<<<<"activity", "request_resources">>>>, "idle")

\* One crew and one set of equipment; the requests of a cycle have their ids.
Request(unit) == unit \o " " \o data.cycle
Others(unit) == {unit \o " initial", unit \o " rework"} \ {Request(unit)}

Acquire(unit, granted, refused) ==
    IF Others(unit) \cap (held \cup waiting) = {}
    THEN EnsureRequested(Request(unit), granted, refused)
    ELSE /\ waiting' = waiting \cup ({Request(unit)} \ held)
         /\ Goto(IF Request(unit) \in held THEN granted ELSE refused)
         /\ UNCHANGED <<entities, work, held>>

Blocked ==
    {r \in waiting : \E unit \in {"crew", "equipment"}, c \in {" initial", " rework"} :
        unit \o c # r /\ unit \o c \in held /\ r \in {unit \o " initial", unit \o " rework"}}

\* A waiting activity is always served as in its initial cycle.
AdvanceReworkIfNeeded ==
    \/ Call /\ At("waiting_resource") /\ Record([data EXCEPT !.cycle = "initial"], "site")
    \/ Call /\ At("rework") /\ Record([data EXCEPT !.cycle = "rework"], "again")
    \/ pc = "again" /\ On("activity", "schedule_rework", "site")

EnsureExecutionCapacity ==
    \/ pc = "site" /\ Acquire("crew", "equipment", "equipment")
    \/ pc = "equipment" /\ Acquire("equipment", "check", "check")
    \/ /\ pc = "check"
       /\ IF {Request("crew"), Request("equipment")} \subseteq held THEN Skip("start")
          ELSE /\ held' = held \ {Request("crew")}
               /\ Goto("giveBack")
               /\ UNCHANGED <<entities, work, waiting>>
    \/ /\ pc = "giveBack"
       /\ held' = held \ {Request("equipment")}
       /\ Goto("idle")
       /\ UNCHANGED <<entities, work, waiting>>

RequestExecutionResources ==
    \/ AdvanceReworkIfNeeded
    \/ pc = "site" /\ Disturbed /\ Withdraw(Request("crew"), "siteEquipment")
    \/ pc = "siteEquipment" /\ Withdraw(Request("equipment"), "idle")
    \/ EnsureExecutionCapacity
    \/ pc = "start" /\ On("activity", "start", "idle")

ExecutionCycle == IF state.first = "absent" THEN "initial" ELSE "rework"

FinishExecution ==
    \/ Call /\ At("executing") /\ Record([data EXCEPT !.cycle = ExecutionCycle], "finish")
    \/ pc = "finish" /\ On("activity", "finish_work", "finishCrew")
    \/ pc = "finishCrew" /\ Withdraw(Request("crew"), "finishEquipment")
    \/ pc = "finishEquipment" /\ Withdraw(Request("equipment"), "idle")

\* One inspector, requested per inspection.
Occurrence == IF state.first = "failed" THEN "second" ELSE "first"

EnsureInspection ==
    /\ Call /\ At("inspection")
    /\ IF state[Occurrence] = "absent" THEN Create(Occurrence, "pending", "inspect " \o Occurrence)
       ELSE Skip("inspect " \o Occurrence)

InspectorTaken(i) == \E j \in Inspections \ {i} : "inspector " \o j \in held \cup waiting

\* Raises when the outcome is not the one of the persisted inspection.
ReconcileInspection ==
    \/ EnsureInspection
    \/ \E i \in Inspections :
          \/ /\ pc = "inspect " \o i /\ ~InspectorTaken(i)
             /\ EnsureRequested("inspector " \o i, "begin " \o i, "idle")
          \/ pc = "inspect " \o i /\ InspectorTaken(i) /\ Skip("idle")
          \/ pc = "begin " \o i /\ On(i, "begin", "outcome " \o i)
          \/ pc = "outcome " \o i /\ On(i, "pass_inspection", "passed " \o i)
          \/ pc = "outcome " \o i /\ Disturbed /\ On(i, "fail_inspection", "failed " \o i)
          \/ /\ pc = "passed " \o i
             /\ IF state[i] = "passed" THEN On("activity", "accept", "inspected " \o i) ELSE Skip("idle")
          \/ /\ pc = "failed " \o i
             /\ IF state[i] = "failed" THEN On("activity", "reject", "inspected " \o i) ELSE Skip("idle")
          \/ pc = "inspected " \o i /\ Withdraw("inspector " \o i, "idle")

RecordMeasurement ==
    /\ Call /\ At("measured")
    /\ IF state.measurement = "absent" THEN Create("measurement", "recorded", "complete")
       ELSE Skip("complete")

CompleteActivity == pc = "complete" /\ On("activity", "complete", "idle")

ReconcileTick ==
    \/ ReconcileDependency \/ CompletePredecessor \/ SeedMaterial
    \/ ReconcileMaterialAvailability \/ StageMaterial \/ SchedulePlannedStart
    \/ RequestExecutionResources \/ FinishExecution \/ ReconcileInspection
    \/ RecordMeasurement \/ CompleteActivity

\* What keeps the activity from its end: the requests of another cycle, a
\* second failed inspection, an inspector left with the first one.
StuckInRework ==
    At("waiting_resource") /\ \E r \in {"crew rework", "equipment rework"} : r \in held \cup waiting
KeptOut ==
    \/ StuckInRework
    \/ At("inspection") /\ state.second = "failed"
    \/ crashes > 0 /\ (held # {} \/ (At("waiting_material") /\ "quantity_taken" \in data.facts))
Finished == At("completed") \/ KeptOut

-----------------------------------------------------------------------------
Execution == {"crew initial", "equipment initial", "crew rework", "equipment rework"}

\* A work package starts only after its predecessor, asks for crew and
\* equipment only with staged material, executes with both, and completes
\* only inspected and measured; a second inspection follows a failed one
\* (CONST-01 to CONST-07).
Causality ==
    /\ ~(At("planned") \/ At("blocked_dependency")) => state.predecessor = "completed"
    /\ (held \cup waiting) \cap Execution # {} => Staged
    /\ At("executing") => \E c \in {" initial", " rework"} :
          {"crew" \o c, "equipment" \o c} \subseteq held
    /\ At("measured") \/ At("completed") => \E i \in Inspections : state[i] = "passed"
    /\ At("completed") => state.measurement = "recorded"
    /\ state.second # "absent" => state.first = "failed"

\* A completed work package leaves no inspector reserved
\* (reconcile_inspection).
CapacityReturned ==
    Returned(At("completed"), {"inspector first", "inspector second"})
=============================================================================
