------------------------------- MODULE Transit -------------------------------
(***************************************************************************)
(* The public transit domain (sose/examples/transit): one vehicle serves   *)
(* two trips of a block.  Realtime updates move the trips' boundaries, so  *)
(* this module keeps the due times of the scheduled work itself, instead   *)
(* of the order of it in `work`.                                           *)
(***************************************************************************)
EXTENDS ProcessRuntime, Integers, TLC

MaxNow == 6            \* the last time that is told apart

Trips == {"tripA", "tripB"}
Positions == {"pos1", "pos2"}
\* The realtime feed: sequence number and delay per trip.
Updates == [up1 |-> [trip |-> "tripA", sequence |-> 1, delay |-> 2],
            up2 |-> [trip |-> "tripA", sequence |-> 2, delay |-> 0]]

VehicleChart ==
    {<<"available", "assign", "in_service">>, <<"in_service", "release", "available">>,
     <<"available", "retire", "retired">>}

ScheduledTripChart ==
    {<<"planned", "start", "running">>, <<"running", "complete", "completed">>,
     <<"planned", "cancel", "cancelled">>, <<"running", "cancel", "cancelled">>}

OccurrenceChart == {<<"captured", "commit", "committed">>}

ServiceAlertChart ==
    {<<"scheduled", "activate", "active">>, <<"active", "clear", "cleared">>,
     <<"scheduled", "cancel", "cancelled">>, <<"active", "cancel", "cancelled">>}

Chart == [vehicle |-> VehicleChart, alert |-> ServiceAlertChart]
         @@ [t \in Trips |-> ScheduledTripChart]
         @@ [o \in Positions \cup DOMAIN Updates |-> OccurrenceChart]

On(e, event, next) == Dispatch(Chart, e, event, next)

\* The published timetable.
ScheduledStart == [tripA |-> 1, tripB |-> 3]
ScheduledEnd == [tripA |-> 2, tripB |-> 4]

\* data.due: the due time of each pending boundary; data.active: the trip of
\* the vehicle; direct, block, latest: a trip's delays and its last applied
\* sequence; observed, position: when positions were observed, the projected
\* one; update: what the current call records; trip: what it works on.  A
\* behaviour is about one of the operator's interfaces, its `feed`.
Init == \E feed \in {"updates", "positions", "alerts", "cancellations"} :
    Start([e \in DOMAIN Chart |->
             CASE e = "vehicle" -> "available" [] e \in Trips -> "planned" [] OTHER -> "absent"],
          [now |-> 0, active |-> "none", feed |-> feed,
           due |-> [b \in Trips \X {"start", "complete"} |->
                      IF b[2] = "start" THEN ScheduledStart[b[1]] ELSE ScheduledEnd[b[1]]],
           direct |-> [t \in Trips |-> 0], block |-> [t \in Trips |-> 0],
           latest |-> [t \in Trips |-> 0],
           observed |-> [p \in Positions |-> 0], position |-> "none",
           update |-> "none", trip |-> "none"],
          {})

Larger(a, b) == IF a > b THEN a ELSE b
Smaller(a, b) == IF a < b THEN a ELSE b
Delay(t) == Larger(data.direct[t], data.block[t])
ProjectedStart(t) == ScheduledStart[t] + Delay(t)
ProjectedEnd(t) == ScheduledEnd[t] + Delay(t)

Scheduled(b) == b \in DOMAIN data.due
SetDue(b, time, next) == Record([data EXCEPT !.due = (b :> time) @@ @], next)
Unset(b, next) ==
    Record([data EXCEPT !.due = [c \in DOMAIN @ \ {b} |-> @[c]]], next)
Ended(t) == state[t] \in {"completed", "cancelled"}

\* engine.tick: time passes and the due work is executed in order of its time.
Advance ==
    \/ Call /\ Record([data EXCEPT !.now = Smaller(@ + 1, MaxNow)], "fire")
    \/ /\ pc = "fire"
       /\ \E b \in DOMAIN data.due :
             /\ data.due[b] <= data.now
             /\ \A c \in DOMAIN data.due : data.due[b] <= data.due[c]
             /\ state' = [state EXCEPT ![b[1]] = Moved(Chart[b[1]], @, b[2])]
             /\ data' = [data EXCEPT !.due = [c \in DOMAIN @ \ {b} |-> @[c]]]
       /\ Goto("fire")
       /\ UNCHANGED <<work, requests>>
    \/ /\ pc = "fire" /\ \A b \in DOMAIN data.due : data.due[b] > data.now
       /\ \/ Disturbed /\ data.feed = "cancellations" /\ Skip("idle")
          \/ Skip("boundaries")

\* The boundaries a trip should have.
Boundaries(t) ==
    CASE state[t] = "planned" -> {<<t, "start">>, <<t, "complete">>}
      [] state[t] = "running" -> {<<t, "complete">>}
      [] OTHER -> {}
Projected(b) == IF b[2] = "start" THEN ProjectedStart(b[1]) ELSE ProjectedEnd(b[1])

\* A boundary that is pending is left at its time, whatever the projection.
EnsureTripBoundaries ==
    \/ /\ pc = "boundaries"
       /\ \E b \in Boundaries("tripA") \cup Boundaries("tripB") :
             ~Scheduled(b) /\ SetDue(b, Projected(b), "boundaries")
    \/ /\ pc = "boundaries"
       /\ \A b \in Boundaries("tripA") \cup Boundaries("tripB") : Scheduled(b)
       /\ Record([data EXCEPT !.trip = "tripA", !.update = "none"], "vehicle")

\* After trip A comes trip B; only the tick goes on.
NextTrip(t) ==
    IF t = "tripA" /\ data.update = "none"
    THEN Record([data EXCEPT !.trip = "tripB"], "vehicle")
    ELSE Record([data EXCEPT !.trip = "none", !.update = "none"], "idle")

\* A running trip takes the vehicle, and raises while another trip has it; a
\* trip that ended gives it back.
ReconcileVehicleForTrip ==
    LET t == data.trip IN
    \/ /\ pc = "vehicle" /\ state[t] = "running"
       /\ \/ data.active \notin {"none", t} /\ Record([data EXCEPT !.trip = "none"], "idle")
          \/ data.active = "none" /\ On("vehicle", "assign", "activate")
          \/ data.active = t /\ NextTrip(t)
    \/ pc = "activate" /\ Record([data EXCEPT !.active = t], "vehicle")
    \/ /\ pc = "vehicle" /\ Ended(t)
       /\ IF data.active = t THEN On("vehicle", "release", "deactivate") ELSE NextTrip(t)
    \/ pc = "deactivate" /\ Record([data EXCEPT !.active = "none"], "vehicle")
    \/ pc = "vehicle" /\ state[t] = "planned" /\ NextTrip(t)

\* A new occurrence needs the feed and a trip that has not ended; a recorded
\* one is replayed.
RecordTripUpdate ==
    \/ /\ Call /\ Disturbed /\ data.feed = "updates"
       /\ \E u \in DOMAIN Updates :
             /\ state[u] # "absent" \/ ~Ended(Updates[u].trip)
             /\ Record([data EXCEPT !.update = u, !.trip = Updates[u].trip], "capture")
    \/ /\ pc = "capture"
       /\ IF state[data.update] = "absent" THEN Create(data.update, "captured", "commit")
          ELSE Skip("commit")
    \/ pc = "commit" /\ On(data.update, "commit", "project")

ApplyDelay(d, moved, same) ==
    LET t == data.trip
        effective == Larger(d.direct[t], d.block[t])
    IN  Record(d, IF effective = Delay(t) THEN same ELSE moved)

\* Only a newer sequence changes the projection, and only a changed one moves
\* the boundaries.
ReconcileTripUpdateProjection ==
    LET u == Updates[data.update] IN
    /\ pc = "project"
    /\ IF u.sequence > data.latest[u.trip]
       THEN ApplyDelay([data EXCEPT !.direct[u.trip] = u.delay, !.latest[u.trip] = u.sequence],
                       "changed", "downstream")
       ELSE Skip("downstream")

\* The call goes on with trip B after trip A, and with the vehicle after that.
AfterChange == IF data.trip = Updates[data.update].trip THEN "downstream" ELSE "last"

\* A trip whose new time has already passed starts or completes at once.
ReconcileChangedProjection ==
    LET t == data.trip
        startNow == state[t] = "planned" /\ ProjectedStart(t) <= data.now
        endNow == state[t] = "running" /\ ProjectedEnd(t) <= data.now
    IN
    \/ /\ pc = "changed"
       /\ \/ startNow /\ Unset(<<t, "start">>, "unset")
          \/ endNow /\ Unset(<<t, "complete">>, "completeNow")
          \/ ~startNow /\ ~endNow /\ Skip("sync")
    \/ pc = "unset" /\ Unset(<<t, "complete">>, "startNow")
    \/ pc = "startNow" /\ On(t, "start", "started")
    \/ /\ pc = "started"
       /\ IF ProjectedEnd(t) <= data.now THEN Skip("completeNow")
          ELSE SetDue(<<t, "complete">>, ProjectedEnd(t), AfterChange)
    \/ pc = "completeNow" /\ On(t, "complete", AfterChange)

\* A boundary at another time is cancelled, then scheduled again.
RescheduleTripBoundaries ==
    LET t == data.trip
        off == {b \in Boundaries(t) : ~Scheduled(b) \/ data.due[b] # Projected(b)}
        left == {b \in DOMAIN data.due : b[1] = t} \ Boundaries(t)
    IN
    /\ pc = "sync"
    /\ \/ \E b \in left : Unset(b, "sync")
       \/ /\ left = {}
          /\ \E b \in off :
                /\ b[2] = "start" \/ <<t, "start">> \notin off
                /\ IF Scheduled(b) THEN Unset(b, "sync") ELSE SetDue(b, Projected(b), "sync")
       \/ left \cup off = {} /\ Skip(AfterChange)

\* What trip A's layover does not absorb delays trip B, while it is planned.
PropagatedDelay == Larger(0, ProjectedEnd("tripA") - ScheduledStart["tripB"])

PropagateBlockDelay ==
    \/ /\ pc = "downstream"
       /\ IF /\ data.trip = "tripA" /\ state.tripB = "planned"
             /\ data.block.tripB # PropagatedDelay
          THEN Record([data EXCEPT !.trip = "tripB"], "propagate")
          ELSE Skip("last")
    \/ /\ pc = "propagate"
       /\ ApplyDelay([data EXCEPT !.block.tripB = PropagatedDelay], "changed", "last")
    \/ /\ pc = "last"
       /\ LET t == Updates[data.update].trip
          IN  IF state[t] = "completed" THEN Record([data EXCEPT !.trip = t], "vehicle")
              ELSE Record([data EXCEPT !.trip = "none", !.update = "none"], "idle")

\* Newer by observation time, then by sequence.
Newer(p, q) ==
    \/ data.observed[p] > data.observed[q]
    \/ data.observed[p] = data.observed[q] /\ p = "pos2" /\ q = "pos1"

RecordVehiclePosition ==
    \E p \in Positions :
      \/ /\ Call /\ Disturbed /\ data.feed = "positions" /\ state[p] = "absent"
         /\ \E t \in Trips : state[t] = "running" /\ data.active = t
         /\ state.vehicle = "in_service"
         /\ \E time \in {data.now - 1, data.now} :
               data' = [data EXCEPT !.observed[p] = time]
         /\ state' = [state EXCEPT ![p] = "captured"]
         /\ Goto("observe " \o p)
         /\ UNCHANGED <<work, requests>>
      \/ Call /\ state[p] = "captured" /\ Skip("observe " \o p)
      \/ pc = "observe " \o p /\ On(p, "commit", "position " \o p)
      \/ /\ pc = "position " \o p
         /\ IF data.position \in {"none", p} \/ Newer(p, data.position)
            THEN Record([data EXCEPT !.position = p], "idle")
            ELSE Skip("idle")

CancelTrip ==
    \/ /\ Call /\ Disturbed /\ data.feed = "cancellations"
       /\ \E t \in Trips : ~Ended(t) /\ Record([data EXCEPT !.trip = t, !.update = "cancel"], "cancelStart")
    \/ pc = "cancelStart" /\ Unset(<<data.trip, "start">>, "cancelComplete")
    \/ pc = "cancelComplete" /\ Unset(<<data.trip, "complete">>, "cancel")
    \/ pc = "cancel" /\ On(data.trip, "cancel", "vehicle")

AlertStart == 2
AlertEnd == 4

ScheduleServiceAlert ==
    \/ /\ Call /\ Disturbed /\ data.feed = "alerts" /\ state.alert = "absent"
       /\ Create("alert", "scheduled", "alert")
    \/ /\ pc \in {"idle", "alert"} /\ state.alert = "scheduled"
       /\ ~Scheduled(<<"alert", "activate">>)
       /\ SetDue(<<"alert", "activate">>, AlertStart, "alert")
    \/ /\ pc \in {"idle", "alert"} /\ state.alert \in {"scheduled", "active"}
       /\ ~Scheduled(<<"alert", "clear">>)
       /\ state.alert = "scheduled" => Scheduled(<<"alert", "activate">>)
       /\ SetDue(<<"alert", "clear">>, AlertEnd, "idle")
    \/ pc = "alert" /\ Scheduled(<<"alert", "clear">>) /\ Skip("idle")

CancelServiceAlert ==
    \/ /\ Call /\ Disturbed /\ state.alert \in {"scheduled", "active"}
       /\ Unset(<<"alert", "activate">>, "alertClear")
    \/ pc = "alertClear" /\ Unset(<<"alert", "clear">>, "alertCancel")
    \/ pc = "alertCancel" /\ On("alert", "cancel", "idle")

ReconcileTick ==
    \/ Advance \/ EnsureTripBoundaries \/ ReconcileVehicleForTrip
    \/ RecordTripUpdate \/ ReconcileTripUpdateProjection \/ ReconcileChangedProjection
    \/ RescheduleTripBoundaries \/ PropagateBlockDelay \/ RecordVehiclePosition
    \/ CancelTrip \/ ScheduleServiceAlert \/ CancelServiceAlert

\* A vehicle that was assigned before a crash, for a trip that ended before
\* the next call, stays in service.
Finished ==
    /\ \A t \in Trips : Ended(t)
    /\ data.active = "none"
    /\ state.vehicle = "available" \/ crashes > 0

-----------------------------------------------------------------------------
\* The scheduled boundaries of a trip are those of its current projection,
\* delay is propagated along the block to a trip that has not started, a
\* cancelled trip or alert leaves nothing scheduled, and an older position
\* never replaces a newer one (TRN-04 to TRN-13).
Causality ==
    /\ crashes = 0 /\ pc = "idle" =>
          /\ \A b \in DOMAIN data.due : b[1] \in Trips => data.due[b] = Projected(b)
          /\ state.tripB = "planned" => data.block.tripB = PropagatedDelay
          /\ state.tripB = "running" => Ended("tripA")
    /\ \A t \in Trips : state[t] = "cancelled" => \A b \in DOMAIN data.due : b[1] # t
    /\ state.alert = "cancelled" => \A b \in DOMAIN data.due : b[1] # "alert"
    /\ \A p \in Positions : data.position \notin {"none", p} /\ state[p] = "committed"
          /\ crashes = 0 /\ pc = "idle" => ~Newer(p, data.position)
    /\ data.active # "none" => state.vehicle = "in_service" \/ Ended(data.active)
=============================================================================
