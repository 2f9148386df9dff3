------------------------- MODULE ServiceManagement -------------------------
(* The IT service management domain (sose/examples/itsm). *)
EXTENDS ProcessRuntime

IncidentChart ==
    {<<"opened", "triage", "triaged">>, <<"triaged", "assign", "assigned">>,
     <<"assigned", "start", "in_progress">>, <<"triaged", "escalate", "escalated">>,
     <<"assigned", "escalate", "escalated">>, <<"in_progress", "escalate", "escalated">>,
     <<"in_progress", "resolve", "resolved">>, <<"escalated", "resolve", "resolved">>,
     <<"resolved", "close", "closed">>, <<"resolved", "reopen", "in_progress">>}

EscalationChart ==
    {<<"raised", "acknowledge", "acknowledged">>, <<"acknowledged", "take_ownership", "owned">>,
     <<"owned", "mitigate", "mitigated">>, <<"mitigated", "complete", "completed">>}

Chart == [incident |-> IncidentChart, escalation |-> EscalationChart]
On(e, event, next) == Dispatch(Chart, e, event, next)

\* data: the incident's item of incident_queue.
Init == Start([incident |-> "opened", escalation |-> "absent"], "none", {})

\* The queue item and the SLA deadline are written after the transition.
TriageAndQueue ==
    \/ Call /\ state.incident = "opened" /\ On("incident", "triage", "enqueue")
    \/ pc = "enqueue" /\ Record("queued", "sla")
    \/ pc = "sla" /\ Schedule(<<<<"incident", "escalate">>>>, "idle")

CancelSla(next) == CancelPending("incident", "escalate", next)

ClaimNextIncident ==
    \/ Call /\ state.incident = "triaged" /\ EnsureRequested("agent", "select", "idle")
    \/ pc = "select" /\ data = "none" /\ Withdraw("agent", "idle")
    \/ pc = "select" /\ data # "none" /\ Record("taken", "assign")
    \/ pc = "assign" /\ On("incident", "assign", "start")
    \/ pc = "start" /\ On("incident", "start", "idle")

\* The tick resolves an incident in progress and closes a resolved one; only
\* the first passes the claim whose agent is released.
ResolveIncident ==
    \/ Call /\ state.incident = "in_progress" /\ On("incident", "resolve", "cancelSla")
    \/ pc = "cancelSla" /\ CancelSla("close")
    \/ pc = "close" /\ On("incident", "close", "release")
    \/ pc = "release" /\ Withdraw("agent", "idle")
    \/ Call /\ state.incident = "resolved" /\ On("incident", "close", "idle")

ReopenIncident ==
    Call /\ Disturbed /\ state.incident = "resolved" /\ On("incident", "reopen", "idle")

EnsureEscalation ==
    /\ Call /\ state.incident = "escalated"
    /\ IF state.escalation = "absent" THEN Create("escalation", "raised", "manager")
       ELSE Skip("manager")

ReconcileEscalation ==
    \/ EnsureEscalation
    \/ pc = "manager" /\ EnsureRequested("manager", "acknowledge", "idle")
    \/ pc = "acknowledge" /\ On("escalation", "acknowledge", "own")
    \/ pc = "own" /\ On("escalation", "take_ownership", "mitigate")
    \/ pc = "mitigate" /\ On("escalation", "mitigate", "complete")
    \/ pc = "complete" /\ On("escalation", "complete", "resolve")
    \/ pc = "resolve" /\ On("incident", "resolve", "dropSla")
    \/ pc = "dropSla" /\ CancelSla("freeAgent")
    \/ pc = "freeAgent" /\ Withdraw("agent", "freeManager")
    \/ pc = "freeManager" /\ Withdraw("manager", "idle")

ReconcileTick ==
    \/ TriageAndQueue \/ ClaimNextIncident \/ ResolveIncident \/ ReopenIncident
    \/ ReconcileEscalation

\* A triaged incident that was never queued, or an assigned one without a
\* deadline that would escalate it.
CutOff ==
    \/ state.incident = "triaged" /\ data = "none"
    \/ state.incident = "assigned" /\ work = {}

Finished == state.incident = "closed" \/ (crashes > 0 /\ CutOff)

-----------------------------------------------------------------------------
\* An assigned incident has its agent and its item of the queue, an escalated
\* one is resolved only through its completed escalation, and a resolved one
\* leaves no deadline (ITSM-01 to ITSM-08).
Causality ==
    /\ crashes = 0 /\ state.escalation = "absent" /\ state.incident \in {"assigned", "in_progress"} =>
          "agent" \in held /\ data = "taken"
    /\ crashes = 0 /\ state.escalation # "absent" /\ state.incident \in {"resolved", "closed"} =>
          state.escalation = "completed"
    /\ state.escalation \notin {"absent", "completed"} => state.incident = "escalated"
    /\ crashes = 0 /\ pc = "idle" /\ state.incident \in {"resolved", "closed"} =>
          ~Pending("incident", "escalate")

\* A closed incident leaves neither agent nor manager reserved
\* (release_incident_owner).
CapacityReturned == Returned(state.incident = "closed", {"agent", "manager"})
=============================================================================
