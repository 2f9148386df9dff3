---------------------------- MODULE FieldService ----------------------------
(* The field service domain (sose/examples/field_service). *)
EXTENDS ProcessRuntime, TLC

WorkOrderChart ==
    {<<"ready", "schedule", "scheduled">>, <<"scheduled", "start", "in_progress">>,
     <<"scheduled", "require_reschedule", "reschedule_required">>,
     <<"in_progress", "require_reschedule", "reschedule_required">>,
     <<"reschedule_required", "reschedule", "scheduled">>, <<"in_progress", "complete", "completed">>}

AppointmentChart ==
    {<<"proposed", "confirm", "confirmed">>, <<"confirmed", "start", "in_progress">>,
     <<"in_progress", "complete", "completed">>,
     <<"in_progress", "no_access", "no_access_recorded">>,
     <<"confirmed", "miss", "missed">>, <<"in_progress", "miss", "no_access_recorded">>}

TechnicianChart == {<<"available", "assign", "assigned">>, <<"assigned", "release", "available">>}
VisitOccurrenceChart == {<<"captured", "commit", "committed">>}

\* Bound: two appointments, in the order of their ordinals.
Appointments == {"first", "second"}
Visit(a) == a \o " visit"
Chart == ("order" :> WorkOrderChart) @@ ("technician" :> TechnicianChart)
         @@ [a \in Appointments |-> AppointmentChart]
         @@ [v \in {Visit(a) : a \in Appointments} |-> VisitOccurrenceChart]

On(e, event, next) == Dispatch(Chart, e, event, next)

\* data.active: active_appointment_id; data.last: the appointment proposed
\* last; data.stock, data.part: the part is stored, and reserved for the order.
Init ==
    Start([e \in DOMAIN Chart |-> CASE e = "order" -> "ready" [] e = "technician" -> "available"
                                    [] OTHER -> "absent"],
          [active |-> "none", last |-> "none", stock |-> FALSE, part |-> FALSE], {})

SeedPartInventory ==
    /\ Call /\ state.order # "completed" /\ ~data.stock
    /\ Record([data EXCEPT !.stock = TRUE], "idle")

\* A work order without an active appointment gets a new one; one whose
\* appointment ended with its window keeps it and is not rescheduled here.
ProposeAppointment ==
    /\ Call /\ state.order \in {"ready", "reschedule_required"} /\ data.active = "none"
    /\ data.last # "second"
    /\ LET a == IF data.last = "none" THEN "first" ELSE "second"
       IN  /\ state' = [state EXCEPT ![a] = "proposed"]
           /\ data' = [data EXCEPT !.last = a]
    /\ Goto("book")
    /\ UNCHANGED <<work, requests>>

\* Without an eligible technician the call raises.
ConfirmAppointment ==
    \/ pc = "book" /\ Disturbed /\ Skip("idle")
    \/ pc = "book" /\ Record([data EXCEPT !.active = data.last], "confirm")
    \/ pc = "confirm" /\ On(data.active, "confirm", "scheduleOrder")
    \/ /\ pc = "scheduleOrder"
       /\ On("order", IF state.order = "ready" THEN "schedule" ELSE "reschedule", "startAt")

EnsureAppointmentBoundaries ==
    \/ pc = "startAt" /\ ScheduleLast(<<data.active, "start">>, "missAt")
    \/ pc = "missAt" /\ ScheduleLast(<<data.active, "miss">>, "rescheduleAt")
    \/ pc = "rescheduleAt" /\ ScheduleLast(<<"order", "require_reschedule">>, "idle")

\* The active appointment, while its window is open.
InWindow == data.active # "none" /\ state[data.active] = "in_progress"
Technician == "tech " \o data.active

ReserveRequiredPart ==
    /\ pc = "part"
    /\ \/ data.part /\ Skip("technician")
       \/ data.stock /\ Record([data EXCEPT !.part = TRUE, !.stock = FALSE], "technician")
       \/ ~data.part /\ ~data.stock /\ Skip("idle")

\* The reservation only covers the start: the technician's own state says
\* that he is busy until the end of the window.
ReconcileWorkStart ==
    \/ /\ Call /\ InWindow /\ state.order = "scheduled" /\ (data.stock \/ Disturbed)
       /\ Skip("part")
    \/ ReserveRequiredPart
    \/ pc = "technician" /\ EnsureRequested(Technician, "assign", "idle")
    \/ pc = "assign" /\ On("technician", "assign", "startOrder")
    \/ pc = "startOrder" /\ On("order", "start", "freeSlot")
    \/ pc = "freeSlot" /\ Withdraw(Technician, "releaseAt")
    \/ pc = "releaseAt" /\ ScheduleLast(<<"technician", "release">>, "idle")

ReleaseTechnician ==
    \/ pc = "withdraw" /\ Withdraw(Technician, "cancelRelease")
    \/ pc = "cancelRelease" /\ CancelPending("technician", "release", "release")
    \/ pc = "release" /\ On("technician", "release", "clear")

\* A visit that is already recorded is returned as it is.
RecordVisit ==
    \/ /\ Call /\ InWindow /\ state.order = "in_progress" /\ state[Visit(data.active)] = "absent"
       /\ \/ Create(Visit(data.active), "captured", "commit completed")
          \/ Disturbed /\ Create(Visit(data.active), "captured", "commit no access")
    \/ pc = "commit completed" /\ On(Visit(data.active), "commit", "cancelMiss completed")
    \/ pc = "commit no access" /\ On(Visit(data.active), "commit", "cancelMiss no access")
    \/ /\ pc = "cancelMiss completed"
       /\ CancelPending(data.active, "miss", "cancelReschedule completed")
    \/ /\ pc = "cancelMiss no access"
       /\ CancelPending(data.active, "miss", "cancelReschedule no access")
    \/ /\ pc = "cancelReschedule completed"
       /\ CancelPending("order", "require_reschedule", "complete")
    \/ /\ pc = "cancelReschedule no access"
       /\ CancelPending("order", "require_reschedule", "noAccess")
    \/ pc = "complete" /\ On(data.active, "complete", "completeOrder")
    \/ pc = "completeOrder" /\ On("order", "complete", "withdraw")
    \/ pc = "noAccess" /\ On(data.active, "no_access", "reschedule")
    \/ pc = "reschedule" /\ On("order", "require_reschedule", "withdraw")
    \/ ReleaseTechnician
    \/ pc = "clear" /\ Record([data EXCEPT !.active = "none"], "idle")

ReconcileTick ==
    \/ SeedPartInventory \/ ProposeAppointment \/ ConfirmAppointment
    \/ EnsureAppointmentBoundaries \/ ReconcileWorkStart \/ RecordVisit

\* The window ended without a visit: nothing clears active_appointment_id.
Expired ==
    /\ data.active # "none" /\ state[data.active] \in {"missed", "no_access_recorded"}
    /\ state.order = "reschedule_required"

OutOfAppointments ==
    data.last = "second" /\ data.active = "none" /\ state.order \in {"ready", "reschedule_required"}

\* A crash left an active appointment that no boundary and no call moves.
CutOff ==
    /\ data.active # "none" /\ work = {}
    /\ ~(InWindow /\ state.order = "scheduled")
    /\ ~(InWindow /\ state.order = "in_progress" /\ state[Visit(data.active)] = "absent")

Finished ==
    \/ state.order = "completed" \/ Expired \/ OutOfAppointments
    \/ crashes > 0 /\ CutOff

-----------------------------------------------------------------------------
\* Never two confirmed appointments, work only with the part, a technician
\* that is assigned is released by the schedule, and an order completes only
\* by a committed visit (FS-01 to FS-12).
Causality ==
    /\ \A a, b \in Appointments :
          {state[a], state[b]} \subseteq {"confirmed", "in_progress"} => a = b
    /\ state.order = "in_progress" => data.part
    /\ crashes = 0 /\ pc = "idle" /\ state.technician = "assigned" =>
          Pending("technician", "release")
    /\ state.order = "completed" => \E a \in Appointments : state[Visit(a)] = "committed"
    /\ state.second = "confirmed" => state.first \in {"proposed", "completed", "no_access_recorded"}

\* A completed order leaves no technician reserved (reconcile_work_start,
\* record_visit).
CapacityReturned ==
    Returned(state.order = "completed", {"tech " \o a : a \in Appointments})
=============================================================================
