------------------------------ MODULE Aviation ------------------------------
(* The aviation domain (sose/examples/aviation): two legs of one aircraft. *)
EXTENDS ProcessRuntime, TLC

AircraftChart ==
    {<<"available", "assign", "assigned">>, <<"released", "assign", "assigned">>,
     <<"assigned", "dispatch", "airborne">>, <<"airborne", "land", "inspection">>,
     <<"inspection", "release", "released">>, <<"inspection", "mark_aog", "aog">>,
     <<"aog", "start_maintenance", "maintenance">>,
     <<"maintenance", "finish_maintenance", "released">>}

FlightChart ==
    {<<"scheduled", "make_due", "due">>, <<"due", "delay", "delayed">>,
     <<"ready", "delay", "delayed">>, <<"delayed", "resume", "due">>,
     <<"due", "mark_ready", "ready">>, <<"ready", "depart", "airborne">>,
     <<"airborne", "land", "landed">>, <<"landed", "inspect", "inspection">>,
     <<"inspection", "release", "released">>, <<"airborne", "divert", "diverted">>}
    \cup {<<s, "cancel", "cancelled">> : s \in {"scheduled", "due", "delayed"}}

CrewAssignmentChart ==
    {<<"planned", "reserve", "reserved">>, <<"reserved", "activate", "active">>,
     <<"active", "release", "released">>,
     <<"planned", "cancel", "cancelled">>, <<"reserved", "cancel", "cancelled">>}

InspectionChart ==
    {<<"pending", "begin", "inspecting">>, <<"inspecting", "pass_inspection", "passed">>,
     <<"inspecting", "fail_inspection", "failed">>}

MaintenanceWorkOrderChart ==
    {<<"planned", "release", "released">>, <<"released", "wait_part", "waiting_part">>,
     <<"waiting_part", "part_ready", "released">>, <<"released", "wait_bay", "waiting_bay">>,
     <<"waiting_bay", "start", "in_progress">>, <<"in_progress", "interrupt", "interrupted">>,
     <<"interrupted", "resume", "in_progress">>, <<"in_progress", "complete", "completed">>}

PartDemandChart == {<<"open", "allocate", "allocated">>, <<"allocated", "issue", "issued">>}

Legs == {"leg1", "leg2"}
Crew == [leg1 |-> "crew1", leg2 |-> "crew2"]
Inspection == [leg1 |-> "inspection1", leg2 |-> "inspection2"]
WorkOrder == [leg1 |-> "work1", leg2 |-> "work2"]
Demand == [leg1 |-> "demand1", leg2 |-> "demand2"]

Chart == [e \in {"aircraft"} |-> AircraftChart]
         @@ [f \in Legs |-> FlightChart]
         @@ [c \in {Crew[f] : f \in Legs} |-> CrewAssignmentChart]
         @@ [i \in {Inspection[f] : f \in Legs} |-> InspectionChart]
         @@ [w \in {WorkOrder[f] : f \in Legs} |-> MaintenanceWorkOrderChart]
         @@ [d \in {Demand[f] : f \in Legs} |-> PartDemandChart]

On(e, event, next) == Dispatch(Chart, e, event, next)

\* data: the flight of the current call, the spare part in the store, the
\* issued parts, the work orders put into and picked from the queue.
Init ==
    Start([e \in DOMAIN Chart |->
             CASE e = "aircraft" -> "available" [] e \in Legs -> "scheduled"
               [] e \in {"crew1", "crew2"} -> "planned" [] OTHER -> "absent"],
          [leg |-> "leg1", part |-> FALSE, issued |-> {}, queued |-> {}, picked |-> {}], {})

leg == data.leg
crew == state[Crew[leg]]
inspection == state[Inspection[leg]]
order == state[WorkOrder[leg]]
demand == state[Demand[leg]]

ScheduleDeparture ==
    /\ Call
    /\ \E f \in Legs :
          /\ state[f] = "scheduled" /\ ~Pending(f, "make_due")
          /\ Schedule(<<<<f, "make_due">>>>, "idle")

\* What the tick has to do with a flight, or "nothing".
Branch(f) ==
    LET w == state[WorkOrder[f]] d == state[Demand[f]] IN
    CASE w # "absent" /\ d # "issued" -> "seed"
      [] w \in {"released", "waiting_bay"} -> "maintain"
      [] w = "in_progress" -> "complete"
      [] state[f] \in {"due", "delayed", "ready"} -> "depart"
      [] state[f] = "airborne" -> "land"
      [] state[f] = "inspection" -> "inspect"
      [] OTHER -> "nothing"

\* After the schedules, the first flight with something to do; auto_land may be off, which leaves
\* the other flight its turn.
ServeFlight ==
    /\ Call
    /\ \A f \in Legs : state[f] = "scheduled" => Pending(f, "make_due")
    /\ \E f \in Legs :
          /\ Branch(f) # "nothing"
          /\ f = "leg2" => Branch("leg1") = "nothing" \/ (Disturbed /\ Branch("leg1") = "land")
          /\ Record([data EXCEPT !.leg = f], Branch(f))

DeparturePrerequisitesReady ==
    /\ leg = "leg2" => state.leg1 = "released"
    /\ state.aircraft \in {"available", "released"}

HandleDepartureUnavailable ==
    \/ pc = "depart" /\ (Disturbed \/ ~DeparturePrerequisitesReady)
       /\ Withdraw("flight_crew " \o leg, "delay")
    \/ pc = "delay" /\ On(leg, "delay", "idle")

EnsureCrewReservation ==
    \/ pc = "reserve" /\ On(Crew[leg], "reserve", "crew")
    \/ pc = "crew" /\ EnsureRequested("flight_crew " \o leg, "activate", "idle")
    \/ pc = "activate" /\ On(Crew[leg], "activate", "ready")

\* The flight departs, then the aircraft.
ProgressDepartureDispatch ==
    \/ pc = "ready" /\ On(leg, "mark_ready", "assign")
    \/ pc = "assign" /\ On("aircraft", "assign", "takeoff")
    \/ pc = "takeoff" /\ On(leg, "depart", "dispatch")
    \/ pc = "dispatch" /\ On("aircraft", "dispatch", "idle")

ReconcileDeparture ==
    \/ HandleDepartureUnavailable
    \/ pc = "depart" /\ DeparturePrerequisitesReady /\ On(leg, "resume", "reserve")
    \/ EnsureCrewReservation
    \/ ProgressDepartureDispatch

\* Raises while the aircraft is not in the air.
LandFlight ==
    \/ pc = "land" /\ state.aircraft # "airborne" /\ Skip("idle")
    \/ pc = "land" /\ state.aircraft = "airborne" /\ On(leg, "land", "landAircraft")
    \/ pc = "landAircraft" /\ On("aircraft", "land", "releaseCrew")
    \/ pc = "releaseCrew" /\ On(Crew[leg], "release", "withdrawCrew")
    \/ pc = "withdrawCrew" /\ Withdraw("flight_crew " \o leg, "toInspection")
    \/ pc = "toInspection" /\ On(leg, "inspect", "newInspection")

EnsureInspection ==
    /\ pc \in {"newInspection", "inspect"}
    /\ LET next == IF pc = "inspect" THEN "team" ELSE "idle"
       IN  IF inspection = "absent" THEN Create(Inspection[leg], "pending", next) ELSE Skip(next)

ProgressInspectionUntilTerminal ==
    \/ pc = "team" /\ inspection \in {"passed", "failed"} /\ Skip("withdrawTeam")
    \/ /\ pc = "team" /\ inspection \notin {"passed", "failed"}
       /\ EnsureRequested("inspection_team " \o leg, "begin", "idle")
    \/ pc = "begin" /\ On(Inspection[leg], "begin", "verdict")
    \/ pc = "verdict" /\ On(Inspection[leg], "pass_inspection", "withdrawTeam")
    \/ pc = "verdict" /\ Disturbed /\ On(Inspection[leg], "fail_inspection", "withdrawTeam")

ReleaseAfterPassedInspection ==
    \/ pc = "inspected" /\ inspection = "passed" /\ On("aircraft", "release", "releaseFlight")
    \/ pc = "releaseFlight" /\ On(leg, "release", "idle")

ReconcileInspection ==
    \/ EnsureInspection
    \/ ProgressInspectionUntilTerminal
    \/ pc = "withdrawTeam" /\ Withdraw("inspection_team " \o leg, "inspected")
    \/ ReleaseAfterPassedInspection
    \/ pc = "inspected" /\ inspection = "failed" /\ On("aircraft", "mark_aog", "ensure")

EnsureMaintenance ==
    \/ pc \in {"ensure", "ensureIssue"} /\ order = "absent"
       /\ Create(WorkOrder[leg], "planned", pc)
    \/ pc \in {"ensure", "ensureIssue"} /\ order # "absent" /\ demand = "absent"
       /\ Create(Demand[leg], "open", pc)
    \/ pc \in {"ensure", "ensureIssue"} /\ order = "planned" /\ demand # "absent"
       /\ On(WorkOrder[leg], "release", pc)
    \/ pc \in {"ensure", "ensureIssue"} /\ order \notin {"absent", "planned"} /\ demand # "absent"
       /\ Record([data EXCEPT !.queued = @ \cup {leg}], IF pc = "ensure" THEN "idle" ELSE "waitPart")

\* The part is put again when it is not in the store.
SeedSparePart ==
    /\ pc = "seed"
    /\ \/ Disturbed /\ Skip("ensureIssue")
       \/ Record([data EXCEPT !.part = TRUE], "ensureIssue")

EnsurePartIssueSelection ==
    /\ pc = "select"
    /\ CASE leg \in data.issued -> Skip("allocate")
         [] leg \notin data.issued /\ data.part ->
              Record([data EXCEPT !.issued = @ \cup {leg}, !.part = FALSE], "allocate")
         [] OTHER -> Skip("idle")

\* The work order becomes ready in the call that issues the part.
ReconcilePartIssue ==
    \/ pc = "waitPart" /\ On(WorkOrder[leg], "wait_part", "select")
    \/ EnsurePartIssueSelection
    \/ pc = "allocate" /\ On(Demand[leg], "allocate", "issue")
    \/ pc = "issue" /\ On(Demand[leg], "issue", "partReady")
    \/ pc = "partReady" /\ On(WorkOrder[leg], "part_ready", "idle")

\* The only order in the queue is this one's.
ReconcileAogMaintenance ==
    \/ pc = "maintain" /\ On(WorkOrder[leg], "wait_bay", "pick")
    \/ pc = "pick" /\ Record([data EXCEPT !.picked = @ \cup {leg}], "bay")
    \/ pc = "bay" /\ EnsureRequested("maintenance_bay " \o leg, "start", "idle")
    \/ pc = "start" /\ On(WorkOrder[leg], "start", "maintenance")
    \/ pc = "maintenance" /\ On("aircraft", "start_maintenance", "idle")

\* Raises when the aircraft is not released by it.
CompleteAogMaintenance ==
    \/ pc = "complete" /\ On(WorkOrder[leg], "complete", "finish")
    \/ /\ pc = "finish"
       /\ IF state.aircraft = "maintenance" THEN On("aircraft", "finish_maintenance", "return")
          ELSE Skip("idle")
    \/ pc = "return" /\ On(leg, "release", "withdrawBay")
    \/ pc = "withdrawBay" /\ Withdraw("maintenance_bay " \o leg, "idle")

ReconcileTick ==
    \/ ScheduleDeparture \/ ServeFlight \/ ReconcileDeparture \/ LandFlight
    \/ ReconcileInspection \/ EnsureMaintenance \/ SeedSparePart
    \/ ReconcilePartIssue \/ ReconcileAogMaintenance \/ CompleteAogMaintenance

\* A crash left a flight where the tick has nothing to do with it, or raises.
CutOff ==
    \/ state.aircraft = "assigned"
    \/ \E f \in Legs :
          \/ state[f] = "landed"
          \/ state[WorkOrder[f]] = "waiting_part" /\ state[Demand[f]] = "issued"
          \/ state[WorkOrder[f]] = "completed" /\ state[f] # "released"

Finished ==
    \/ \A f \in Legs : state[f] = "released"
    \/ crashes > 0 /\ CutOff

-----------------------------------------------------------------------------
\* A leg of the rotation departs only after the leg before was released, with
\* its crew; an aircraft is released only by a passed inspection or a
\* completed work order, and maintenance holds a bay only for an issued part
\* (AVI-02 to AVI-09).
Causality ==
    /\ state.leg2 \in {"airborne", "landed", "inspection", "released"} => state.leg1 = "released"
    /\ \A f \in Legs :
          /\ state[f] = "airborne" => "flight_crew " \o f \in held
          /\ state[f] = "released" =>
                \/ state[Inspection[f]] = "passed" \/ state[WorkOrder[f]] = "completed"
          /\ "maintenance_bay " \o f \in held \cup waiting => state[Demand[f]] = "issued"
          /\ state[WorkOrder[f]] = "in_progress" => f \in data.picked /\ f \in data.issued
    /\ state.aircraft = "airborne" => \E f \in Legs : state[f] \in {"airborne", "landed"}

\* When both legs are released no crew, team or bay is reserved
\* (reconcile_departure, complete_aog_maintenance).
CapacityReturned ==
    Returned(\A f \in Legs : state[f] = "released",
             {r \o f : r \in {"flight_crew ", "inspection_team ", "maintenance_bay "}, f \in Legs})
=============================================================================
