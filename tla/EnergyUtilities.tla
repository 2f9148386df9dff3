-------------------------- MODULE EnergyUtilities --------------------------
(* The energy and utilities domain (sose/examples/energy_utilities): meter   *)
(* readings, outages and demand response at two service points.              *)
EXTENDS ProcessRuntime

ServicePointChart ==
    {<<"energized", "interrupt", "interrupted">>, <<"interrupted", "restore", "energized">>}

MeterReadingChart == {<<"captured", "commit", "committed">>}

OutageChart ==
    {<<"reported", "confirm", "confirmed">>, <<"confirmed", "begin_restoration", "restoring">>,
     <<"restoring", "restore", "restored">>}

DemandResponseEventChart ==
    {<<"scheduled", "start", "active">>, <<"active", "finish", "completed">>,
     <<"scheduled", "cancel", "cancelled">>, <<"active", "cancel", "cancelled">>}

DemandResponseParticipationChart ==
    {<<"eligible", "begin", "active">>, <<"active", "complete", "completed">>,
     <<"eligible", "miss", "missed">>, <<"eligible", "opt_out", "opted_out">>,
     <<"active", "opt_out", "opted_out">>}

Outages == {"outage1", "outage2"}
Participations == {"part1", "part2"}
PointOf(p) == IF p = "part1" THEN "point1" ELSE "point2"
Chart == [point1 |-> ServicePointChart, point2 |-> ServicePointChart,
          outage1 |-> OutageChart, outage2 |-> OutageChart, reading |-> MeterReadingChart,
          event |-> DemandResponseEventChart, part1 |-> DemandResponseParticipationChart,
          part2 |-> DemandResponseParticipationChart]

On(e, event, next) == Dispatch(Chart, e, event, next)

\* data.quantity: what the reading of this interval says; data.open: the open
\* outage keys of point1; data.outage: the one this call is about;
\* data.operator: what is called besides the tick.
Init ==
    \E operator \in {"outage", "cancel"} :
       Start([point1 |-> "energized", point2 |-> "energized", outage1 |-> "absent",
              outage2 |-> "absent", reading |-> "absent", event |-> "absent",
              part1 |-> "absent", part2 |-> "absent"],
             [quantity |-> "default", open |-> {}, outage |-> "outage1", operator |-> operator], {})

\* The quantity comes from the configuration of the call; a reading of this
\* interval that says otherwise makes the call raise.
RecordMeterReading ==
    \/ /\ Call /\ state.reading = "absent"
       /\ \E q \in {"default", "changed"} :
             /\ q = "changed" => Disturbed
             /\ data' = [data EXCEPT !.quantity = q]
       /\ state' = [state EXCEPT !.reading = "captured"]
       /\ Goto("commit")
       /\ UNCHANGED <<work, requests>>
    \/ /\ Call /\ state.reading = "captured" /\ (data.quantity = "default" \/ Disturbed)
       /\ Skip("commit")
    \/ pc = "commit" /\ On("reading", "commit", "idle")

ReportOutage ==
    \/ /\ Call /\ data.operator = "outage" /\ Disturbed
       /\ \E o \in Outages :
             /\ state[o] \in {"absent", "reported", "confirmed"}
             /\ data' = [data EXCEPT !.outage = o]
             /\ state' = [state EXCEPT ![o] = IF @ = "absent" THEN "reported" ELSE @]
       /\ Goto("confirm")
       /\ UNCHANGED <<work, requests>>
    \/ pc = "confirm" /\ On(data.outage, "confirm", "openKey")
    \/ pc = "openKey" /\ Record([data EXCEPT !.open = @ \cup {data.outage}], "interrupt")
    \/ pc = "interrupt" /\ On("point1", "interrupt", "idle")

RestoreOutage ==
    \/ /\ Call /\ data.operator = "outage"
       /\ \E o \in Outages :
             /\ state[o] \in {"confirmed", "restoring"} \/ (state[o] = "restored" /\ o \in data.open)
             /\ Record([data EXCEPT !.outage = o], "restoring")
    \/ pc = "restoring" /\ On(data.outage, "begin_restoration", "restored")
    \/ pc = "restored" /\ On(data.outage, "restore", "closeKey")
    \/ pc = "closeKey" /\ Record([data EXCEPT !.open = @ \ {data.outage}], "energize")
    \/ /\ pc = "energize"
       /\ IF data.open = {} THEN On("point1", "restore", "idle") ELSE Skip("idle")

\* The event and its participations are saved in one transaction, the two
\* boundaries are scheduled one after the other.
ScheduleDemandResponse ==
    \/ /\ Call /\ state.reading = "committed" /\ state.event = "absent"
       /\ state' = [state EXCEPT !.event = "scheduled", !.part1 = "eligible", !.part2 = "eligible"]
       /\ Goto("start")
       /\ UNCHANGED <<data, work, requests>>
    \/ Call /\ state.reading = "committed" /\ state.event \in {"scheduled", "active"} /\ Skip("start")
    \/ /\ pc = "start"
       /\ IF state.event = "scheduled" /\ ~Pending("event", "start")
          THEN Schedule(<<<<"event", "start">>>>, "finish") ELSE Skip("finish")
    \/ /\ pc = "finish"
       /\ IF Pending("event", "finish") THEN Skip("part1")
          ELSE ScheduleLast(<<"event", "finish">>, "part1")

CancelDemandResponse ==
    \/ /\ Call /\ data.operator = "cancel" /\ Disturbed /\ state.event \in {"scheduled", "active"}
       /\ CancelPending("event", "start", "cancelFinish")
    \/ pc = "cancelFinish" /\ CancelPending("event", "finish", "optOut1")
    \/ pc = "optOut1" /\ On("part1", "opt_out", "optOut2")
    \/ pc = "optOut2" /\ On("part2", "opt_out", "cancelEvent")
    \/ pc = "cancelEvent" /\ On("event", "cancel", "idle")

OptOutDemandResponse ==
    /\ Call /\ data.operator = "cancel" /\ Disturbed /\ state.part1 \in {"eligible", "active"}
    /\ On("part1", "opt_out", "idle")

\* all(...) stops at the first participation that cannot begin.
ReconcileDemandResponse ==
    \/ Call /\ state.event = "completed" /\ Skip("part1")
    \/ \E p \in Participations :
          LET next == IF p = "part1" THEN "part2" ELSE "idle"
          IN  /\ pc = p
              /\ CASE state.event = "active" /\ state[p] = "eligible" ->
                      \/ state[PointOf(p)] = "energized" /\ On(p, "begin", next)
                      \/ (state[PointOf(p)] # "energized" \/ Disturbed) /\ Skip("idle")
                   [] state.event = "completed" ->
                      On(p, IF state[p] = "active" THEN "complete" ELSE "miss", next)
                   [] OTHER ->
                      Skip(IF state[p] = "eligible" THEN "idle" ELSE next)

ReconcileTick ==
    \/ RecordMeterReading \/ ReportOutage \/ RestoreOutage \/ ScheduleDemandResponse
    \/ CancelDemandResponse \/ OptOutDemandResponse \/ ReconcileDemandResponse

\* A reading captured with another quantity makes every later call raise.
Conflict == state.reading = "captured" /\ data.quantity = "changed"

Finished ==
    \/ /\ \A p \in Participations : state[p] \in {"completed", "missed", "opted_out"}
       /\ state.event \in {"completed", "cancelled"}
       /\ data.open = {} => state.point1 = "energized" \/ crashes > 0
    \/ crashes > 0 /\ Conflict

-----------------------------------------------------------------------------
\* A point is interrupted exactly while an outage is open for it, a cancelled
\* event leaves neither participation nor schedule, a participation is active
\* only within the event, and an event is planned only from a committed
\* reading (ENE-01 to ENE-15).
Causality ==
    /\ \A o \in data.open : state[o] # "reported"
    /\ state.point1 = "interrupted" => data.open # {} \/ pc = "energize" \/ crashes > 0
    /\ \A o \in Outages : state[o] \in {"confirmed", "restoring"} /\ pc = "idle" /\ crashes = 0 =>
          o \in data.open /\ state.point1 = "interrupted"
    /\ state.event = "cancelled" =>
          /\ \A p \in Participations : state[p] \in {"opted_out"}
          /\ ~Pending("event", "start") /\ ~Pending("event", "finish")
    /\ \A p \in Participations : state[p] \in {"active", "completed"} =>
          state.event \in {"active", "completed"}
    /\ state.event # "absent" => state.reading = "committed"
=============================================================================
