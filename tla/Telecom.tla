------------------------------ MODULE Telecom ------------------------------
(* The telecommunications domain (sose/examples/telecom): fulfillment of an  *)
(* order, usage, and the incidents of the service.                           *)
EXTENDS ProcessRuntime, TLC

ProductOrderChart ==
    {<<"captured", "acknowledge", "acknowledged">>, <<"acknowledged", "start", "in_progress">>,
     <<"in_progress", "complete", "completed">>}

ServiceOrderChart ==
    {<<"pending", "accept", "accepted">>, <<"accepted", "start_provisioning", "provisioning">>,
     <<"provisioning", "complete", "completed">>}

SubscriptionServiceChart ==
    {<<"designed", "start_provisioning", "provisioning">>,
     <<"provisioning", "make_activation_ready", "activation_ready">>,
     <<"activation_ready", "activate", "active">>, <<"active", "suspend", "suspended">>,
     <<"suspended", "restore", "active">>}

UsageRecordChart == {<<"captured", "commit", "committed">>}

NetworkAlarmChart ==
    {<<"raised", "acknowledge", "acknowledged">>, <<"raised", "clear", "cleared">>,
     <<"acknowledged", "clear", "cleared">>}

TroubleTicketChart ==
    {<<"open", "acknowledge", "acknowledged">>, <<"open", "resolve", "resolved">>,
     <<"acknowledged", "resolve", "resolved">>, <<"resolved", "close", "closed">>}

\* Bound: two incidents.
Incidents == {"1", "2"}
Alarm(i) == "alarm" \o i
Ticket(i) == "ticket" \o i
Chart == [order |-> ProductOrderChart, serviceOrder |-> ServiceOrderChart,
          service |-> SubscriptionServiceChart, usage |-> UsageRecordChart,
          alarm1 |-> NetworkAlarmChart, alarm2 |-> NetworkAlarmChart,
          ticket1 |-> TroubleTicketChart, ticket2 |-> TroubleTicketChart]

On(e, event, next) == Dispatch(Chart, e, event, next)

\* data.open: open_incident_keys of the service; data.incident: the one this
\* call is about; data.operator: what is called besides the tick.
Init ==
    \E operator \in {"usage", "incidents"} :
       Start([e \in DOMAIN Chart |-> IF e = "order" THEN "captured" ELSE "absent"],
             [open |-> {}, incident |-> "1", operator |-> operator], {})

\* The service order and the service are saved in one transaction.
EnsureFulfillmentEntities ==
    \/ Call /\ state.order # "completed" /\ On("order", "acknowledge", "startOrder")
    \/ pc = "startOrder" /\ On("order", "start", "entities")
    \/ /\ pc = "entities"
       /\ state' = [state EXCEPT !.serviceOrder = IF @ = "absent" THEN "pending" ELSE @,
                                 !.service = IF @ = "absent" THEN "designed" ELSE @]
       /\ Goto("accept")
       /\ UNCHANGED <<data, work, requests>>
    \/ pc = "accept" /\ On("serviceOrder", "accept", "provision")

\* A service that an incident suspended before its order completed makes the
\* call raise.
ScheduleActivation ==
    \/ EnsureFulfillmentEntities
    \/ /\ pc = "provision"
       /\ IF state.service = "active" THEN Skip("activation")
          ELSE On("serviceOrder", "start_provisioning", "provisionService")
    \/ pc = "provisionService" /\ On("service", "start_provisioning", "readyAt")
    \/ /\ pc = "readyAt"
       /\ CASE state.service = "provisioning" /\ ~Pending("service", "make_activation_ready") ->
               Schedule(<<<<"service", "make_activation_ready">>>>, "activation")
            [] state.service = "suspended" -> Skip("idle")
            [] OTHER -> Skip("activation")

CompleteActivationIfActive ==
    \/ pc = "completeService" /\ On("serviceOrder", "complete", "completeOrder")
    \/ pc = "completeOrder" /\ On("order", "complete", "freeWorker")
    \/ pc = "freeWorker" /\ Withdraw("worker", "idle")

ReconcileActivation ==
    \/ /\ pc = "activation"
       /\ CASE state.service = "active" -> Skip("completeService")
            [] state.service = "activation_ready" ->
               \/ Disturbed /\ Withdraw("worker", "idle")
               \/ EnsureRequested("worker", "activate", "idle")
            [] OTHER -> Skip("idle")
    \/ pc = "activate" /\ On("service", "activate", "completeService")
    \/ CompleteActivationIfActive

RecordUsage ==
    \/ /\ Call /\ data.operator = "usage" /\ state.service = "active" /\ state.usage = "absent"
       /\ Create("usage", "captured", "commit")
    \/ Call /\ data.operator = "usage" /\ state.usage = "captured" /\ Skip("commit")
    \/ pc = "commit" /\ On("usage", "commit", "idle")

Incident == data.operator = "incidents" /\ pc = "idle"
Resolved(i) == state[Alarm(i)] = "cleared" /\ state[Ticket(i)] = "closed"

\* The alarm and its ticket are saved in one transaction.
RaiseServiceAlarm ==
    \/ /\ Incident /\ Disturbed /\ state.service \in {"active", "suspended"}
       /\ \E i \in Incidents :
             /\ state[Alarm(i)] \in {"absent", "raised"}
             /\ state' = [state EXCEPT ![Alarm(i)] = "raised",
                                       ![Ticket(i)] = IF @ = "absent" THEN "open" ELSE @]
             /\ data' = [data EXCEPT !.incident = i]
       /\ Goto("openIncident")
       /\ UNCHANGED <<work, requests>>
    \/ pc = "openIncident" /\ Record([data EXCEPT !.open = @ \cup {data.incident}], "suspend")
    \/ pc = "suspend" /\ On("service", "suspend", "idle")

AcknowledgeIncident ==
    \/ /\ Incident /\ Disturbed
       /\ \E i \in Incidents : /\ state[Alarm(i)] = "raised"
                               /\ Record([data EXCEPT !.incident = i], "ackAlarm")
    \/ pc = "ackAlarm" /\ On(Alarm(data.incident), "acknowledge", "ackTicket")
    \/ pc = "ackTicket" /\ On(Ticket(data.incident), "acknowledge", "idle")

RestoreService ==
    \/ /\ Incident
       /\ \E i \in Incidents : /\ state[Alarm(i)] # "absent" /\ (~Resolved(i) \/ i \in data.open)
                               /\ Record([data EXCEPT !.incident = i], "clear")
    \/ pc = "clear" /\ On(Alarm(data.incident), "clear", "resolve")
    \/ pc = "resolve" /\ On(Ticket(data.incident), "resolve", "close")
    \/ pc = "close" /\ On(Ticket(data.incident), "close", "drop")
    \/ pc = "drop" /\ Record([data EXCEPT !.open = @ \ {data.incident}], "restore")
    \/ /\ pc = "restore"
       /\ IF data.open = {} THEN On("service", "restore", "idle") ELSE Skip("idle")

ReconcileTick ==
    \/ ScheduleActivation \/ ReconcileActivation \/ RecordUsage \/ RaiseServiceAlarm
    \/ AcknowledgeIncident \/ RestoreService

\* After a crash between `activate` and `complete` an incident stops the order.
Finished == state.order = "completed" \/ (crashes > 0 /\ state.service = "suspended")

-----------------------------------------------------------------------------
\* Service is active only for an order in provisioning, an order completes
\* only with its service, a suspension lasts exactly while an incident is
\* open, and a ticket closes only with its alarm cleared (TEL-01 to TEL-13).
Causality ==
    /\ state.service \in {"active", "suspended"} => state.serviceOrder \in {"provisioning", "completed"}
    /\ state.order = "completed" =>
          state.serviceOrder = "completed" /\ state.service \in {"active", "suspended"}
    /\ pc = "completeService" /\ crashes = 0 => "worker" \in held
    /\ state.usage # "absent" => state.service \in {"active", "suspended"}
    /\ state.service = "suspended" =>
          data.open # {} \/ pc \in {"restore"} \/ crashes > 0
    /\ crashes = 0 /\ pc = "idle" => \A i \in Incidents :
          state[Alarm(i)] \notin {"absent", "cleared"} => state.service = "suspended"
    /\ \A i \in Incidents : state[Ticket(i)] = "closed" => state[Alarm(i)] = "cleared"

\* A completed order leaves no provisioning worker reserved
\* (_complete_activation_if_active).
CapacityReturned == Returned(state.order = "completed", {"worker"})
=============================================================================
