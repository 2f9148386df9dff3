------------------------------ MODULE Airports ------------------------------
(* The airport turnaround domain (sose/examples/airports). *)
EXTENDS ProcessRuntime

FlightTurnaroundChart ==
    {<<"scheduled", "arrive", "arrived">>, <<"arrived", "assign_gate", "gate_assigned">>,
     <<"gate_hold", "assign_gate", "gate_assigned">>, <<"arrived", "hold_gate", "gate_hold">>,
     <<"gate_assigned", "reallocate_gate", "gate_hold">>,
     <<"gate_assigned", "start_deboarding", "deboarding">>,
     <<"deboarding", "start_servicing", "servicing">>, <<"servicing", "service_ready", "boarding">>,
     <<"boarding", "baggage_delayed", "waiting_baggage">>,
     <<"waiting_baggage", "baggage_ready", "boarding">>,
     <<"boarding", "start_boarding", "waiting_slot">>, <<"waiting_slot", "slot_ready", "pushback">>,
     <<"pushback", "depart", "departed">>}

GateAssignmentChart ==
    {<<"planned", "reserve", "reserved">>, <<"reallocated", "reserve", "reserved">>,
     <<"reserved", "occupy", "occupied">>, <<"occupied", "release", "released">>,
     <<"reserved", "reallocate", "reallocated">>, <<"occupied", "reallocate", "reallocated">>}

GroundServiceTaskChart ==
    {<<"pending", "start", "in_progress">>, <<"in_progress", "complete", "completed">>}

BaggageFlowChart ==
    {<<"pending", "start", "transferring">>, <<"transferring", "mark_ready", "ready">>,
     <<"delayed", "mark_ready", "ready">>, <<"transferring", "delay", "delayed">>}

DepartureSlotChart ==
    {<<"planned", "schedule", "scheduled">>, <<"scheduled", "make_due", "due">>,
     <<"due", "delay", "delayed">>, <<"due", "consume", "consumed">>,
     <<"delayed", "consume", "consumed">>}

Chart == [turnaround |-> FlightTurnaroundChart, gate |-> GateAssignmentChart,
          task |-> GroundServiceTaskChart, baggage |-> BaggageFlowChart,
          slot |-> DepartureSlotChart]

On(e, event, next) == Dispatch(Chart, e, event, next)

\* data: the turnaround's item of departure_queue.
Init ==
    Start([turnaround |-> "scheduled", gate |-> "planned", task |-> "pending",
           baggage |-> "pending", slot |-> "planned"], "none", {})

ScheduleArrival ==
    /\ Call /\ state.turnaround = "scheduled"
    /\ IF Pending("turnaround", "arrive") THEN Skip("slot")
       ELSE Schedule(<<<<"turnaround", "arrive">>>>, "slot")

ScheduleDepartureSlot ==
    \/ pc = "slot" /\ On("slot", "schedule", "makeDue")
    \/ /\ pc = "makeDue"
       /\ IF state.slot = "scheduled" /\ ~Pending("slot", "make_due")
          THEN Schedule(<<<<"slot", "make_due">>>>, "idle") ELSE Skip("idle")

\* A refused or unavailable gate puts an arrived flight on hold.
ReconcileGate ==
    \/ /\ Call /\ state.turnaround \in {"arrived", "gate_hold"}
       /\ IF state.gate \in {"occupied", "released"} THEN On("turnaround", "assign_gate", "idle")
          ELSE IF state.gate = "reallocated" THEN Withdraw("gate", "ensureGate")
          ELSE Skip("ensureGate")
    \/ pc = "ensureGate" /\ Disturbed /\ Withdraw("gate", "hold")
    \/ pc = "ensureGate" /\ EnsureRequested("gate", "reserve", "hold")
    \/ pc = "hold" /\ On("turnaround", "hold_gate", "idle")
    \/ pc = "reserve" /\ On("gate", "reserve", "occupy")
    \/ pc = "occupy" /\ On("gate", "occupy", "assign")
    \/ pc = "assign" /\ On("turnaround", "assign_gate", "idle")

\* An operator moves the flight to another gate.
ReallocateGate ==
    \/ /\ Call /\ Disturbed /\ state.turnaround = "gate_assigned" /\ state.gate = "occupied"
       /\ On("turnaround", "reallocate_gate", "reallocate")
    \/ pc = "reallocate" /\ On("gate", "reallocate", "giveBack")
    \/ pc = "giveBack" /\ Withdraw("gate", "idle")

ReconcileGroundService ==
    \/ /\ Call /\ state.turnaround \in {"gate_assigned", "deboarding", "servicing"}
       /\ IF state.task = "completed" THEN Skip("freeTeam")
          ELSE On("turnaround", "start_deboarding", "servicing")
    \/ pc = "servicing" /\ On("turnaround", "start_servicing", "team")
    \/ pc = "team" /\ EnsureRequested("team", "startTask", "idle")
    \/ pc = "startTask" /\ On("task", "start", "completeTask")
    \/ pc = "completeTask" /\ On("task", "complete", "freeTeam")
    \/ pc = "freeTeam" /\ Withdraw("team", "serviceReady")
    \/ pc = "serviceReady" /\ On("turnaround", "service_ready", "idle")

\* The delay of the baggage and of the flight are two dispatches.
ReconcileBaggage ==
    \/ /\ Call /\ state.turnaround \in {"boarding", "waiting_baggage"}
       /\ state.turnaround = "boarding" => state.baggage # "ready"
       /\ IF state.baggage = "delayed" THEN On("turnaround", "baggage_delayed", "startBaggage")
          ELSE Skip("startBaggage")
    \/ pc = "startBaggage" /\ On("baggage", "start", "transfer")
    \/ /\ pc = "transfer" /\ state.baggage = "transferring" /\ Disturbed
       /\ On("baggage", "delay", "delayFlight")
    \/ pc = "delayFlight" /\ On("turnaround", "baggage_delayed", "idle")
    \/ pc = "transfer" /\ On("baggage", "mark_ready", "baggageReady")
    \/ pc = "baggageReady" /\ On("turnaround", "baggage_ready", "idle")

QueueDeparture ==
    \/ /\ Call /\ state.turnaround = "boarding" /\ state.baggage = "ready"
       /\ state.task = "completed"
       /\ On("turnaround", "start_boarding", "enqueue")
    \/ pc = "enqueue" /\ Record("queued", "idle")

EnsureDepartureCapacity ==
    \/ pc = "tug" /\ Disturbed /\ On("slot", "delay", "noTug")
    \/ pc = "noTug" /\ Withdraw("tug", "idle")
    \/ pc = "tug" /\ EnsureRequested("tug", "select", "idle")

\* Another flight may be at the head of the queue.
EnsureDepartureQueueSelection ==
    \/ pc = "select" /\ data = "none" /\ Withdraw("tug", "idle")
    \/ pc = "select" /\ data = "queued" /\ Disturbed /\ Withdraw("tug", "idle")
    \/ pc = "select" /\ data \in {"queued", "taken"} /\ Record("taken", "slotReady")

ProgressDepartureEntities ==
    \/ pc = "slotReady" /\ On("turnaround", "slot_ready", "consume")
    \/ pc = "consume" /\ On("slot", "consume", "depart")
    \/ pc = "depart" /\ On("turnaround", "depart", "departed")

ReconcileDepartedTurnaround ==
    \/ pc = "departed" /\ Withdraw("tug", "freeGate")
    \/ pc = "freeGate" /\ Withdraw("gate", "releaseGate")
    \/ pc = "releaseGate" /\ On("gate", "release", "idle")

\* A flight in pushback departs without looking at its slot again.
ReconcileDeparture ==
    \/ /\ Call /\ state.turnaround = "waiting_slot" /\ state.slot \in {"due", "delayed"}
       /\ Skip("tug")
    \/ Call /\ state.turnaround = "pushback" /\ On("turnaround", "depart", "departed")
    \/ EnsureDepartureCapacity \/ EnsureDepartureQueueSelection
    \/ ProgressDepartureEntities \/ ReconcileDepartedTurnaround

ReconcileTick ==
    \/ ScheduleArrival \/ ScheduleDepartureSlot \/ ReconcileGate \/ ReallocateGate
    \/ ReconcileGroundService \/ ReconcileBaggage \/ QueueDeparture \/ ReconcileDeparture

\* A crash between start_boarding and the put leaves a flight that is not queued.
Finished ==
    \/ state.turnaround = "departed"
    \/ crashes > 0 /\ state.turnaround = "waiting_slot" /\ data = "none"

-----------------------------------------------------------------------------
\* An aircraft is handled only at a gate that it occupies, waits for a slot
\* only with its services and baggage done, and is pushed back only with the
\* slot it took from the queue (AIR-01 to AIR-08).
Causality ==
    /\ state.turnaround \in {"gate_assigned", "deboarding", "servicing", "boarding",
                             "waiting_baggage", "waiting_slot", "pushback"} =>
          state.gate = "occupied" /\ "gate" \in held
    /\ state.turnaround \in {"waiting_slot", "pushback", "departed"} =>
          state.task = "completed" /\ state.baggage = "ready"
    /\ data # "none" => state.turnaround \in {"waiting_slot", "pushback", "departed"}
    /\ state.turnaround \in {"pushback", "departed"} => data = "taken"
    /\ state.slot = "consumed" => state.turnaround \in {"pushback", "departed"}
    /\ crashes = 0 /\ state.turnaround = "departed" => state.slot = "consumed"

\* A departed turnaround leaves gate, team and tug free
\* (_reconcile_departed_turnaround).
CapacityReturned == Returned(state.turnaround = "departed", {"gate", "team", "tug"})
=============================================================================
