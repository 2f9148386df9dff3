---------------------------- MODULE Hospitality ----------------------------
(* The hospitality domain (sose/examples/hospitality): the tick's            *)
(* reservation and one that an operator holds for the same nights.           *)
EXTENDS ProcessRuntime, TLC

ReservationChart ==
    {<<"requested", "hold", "held">>, <<"held", "confirm", "confirmed">>,
     <<"confirmed", "check_in", "checked_in">>, <<"checked_in", "check_out", "checked_out">>,
     <<"held", "expire_hold", "expired">>, <<"held", "cancel", "cancelled">>,
     <<"confirmed", "cancel", "cancelled">>, <<"confirmed", "no_show", "no_show_recorded">>}

RoomBookingChart ==
    {<<"held", "confirm", "confirmed">>, <<"confirmed", "occupy", "occupied">>,
     <<"occupied", "complete", "completed">>, <<"held", "expire", "expired">>,
     <<"held", "release", "released">>, <<"confirmed", "release", "released">>,
     <<"confirmed", "no_show", "no_show_recorded">>}

NoShowOccurrenceChart == {<<"captured", "commit", "committed">>}

Ordinals == {"1", "2"}
Reservation(n) == "reservation" \o n
Booking(n) == "booking" \o n
Rooms == {"101", "102"}

\* "stay" is the clock: the arrival and the departure of reservation 1.
Chart == [reservation1 |-> ReservationChart, reservation2 |-> ReservationChart,
          booking1 |-> RoomBookingChart, booking2 |-> RoomBookingChart,
          occurrence |-> NoShowOccurrenceChart,
          stay |-> {<<"before", "arrive", "during">>, <<"during", "depart", "after">>}]

On(e, event, next) == Dispatch(Chart, e, event, next)

\* data.n: the reservation of this call; data.room: the booked rooms.
Init ==
    Start([e \in DOMAIN Chart |-> IF e = "stay" THEN "before" ELSE "absent"],
          [n |-> "1", room |-> [n \in Ordinals |-> "none"]], {})

\* A command that falls due before the arrival, or before the departure.
ScheduleBefore(event, command, next) ==
    LET Place(commands, i) == SubSeq(commands, 1, i - 1) \o <<command>>
                              \o SubSeq(commands, i, Len(commands))
        At(commands) == {i \in 1..Len(commands) : commands[i] = <<"stay", event>>}
    IN  /\ work' = {IF At(commands) = {} THEN commands
                    ELSE Place(commands, CHOOSE i \in At(commands) : TRUE) : commands \in work}
                   \cup (IF \E commands \in work : At(commands) # {} THEN {} ELSE {<<command>>})
        /\ Goto(next)
        /\ UNCHANGED <<entities, requests>>

BlockingBookingStates == {"held", "confirmed", "occupied"}
AvailableRoomIds ==
    Rooms \ {data.room[n] : n \in {m \in Ordinals : state[Booking(m)] \in BlockingBookingStates}}

\* Reservation, booking and hotel are saved in one transaction.
CreateHold ==
    \/ /\ Call
       /\ \E n \in Ordinals, room \in AvailableRoomIds :
             /\ state[Reservation(n)] = "absent" /\ state.stay = "before"
             /\ n = "2" => Disturbed
             /\ \A other \in AvailableRoomIds : room = "101" \/ other # "101"
             /\ state' = [state EXCEPT ![Reservation(n)] = "requested", ![Booking(n)] = "held"]
             /\ data' = [data EXCEPT !.n = n, !.room[n] = room]
             /\ work' = work \cup
                   (IF n = "1" THEN {<<<<"stay", "arrive">>, <<"stay", "depart">>>>} ELSE {})
       /\ Goto("hold")
       /\ UNCHANGED requests
    \/ pc = "hold" /\ On(Reservation(data.n), "hold", "expireReservation")
    \/ /\ pc = "expireReservation"
       /\ ScheduleBefore("arrive", <<Reservation(data.n), "expire_hold">>, "expireBooking")
    \/ /\ pc = "expireBooking"
       /\ ScheduleBefore("arrive", <<Booking(data.n), "expire">>,
                         IF data.n = "1" THEN "confirm" ELSE "idle")

ConfirmReservation ==
    \/ pc = "confirm" /\ CancelPending("reservation1", "expire_hold", "keepBooking")
    \/ pc = "keepBooking" /\ CancelPending("booking1", "expire", "confirmReservation")
    \/ pc = "confirmReservation" /\ On("reservation1", "confirm", "confirmBooking")
    \/ pc = "confirmBooking" /\ On("booking1", "confirm", "noShowReservation")
    \/ /\ pc = "noShowReservation"
       /\ ScheduleBefore("depart", <<"reservation1", "no_show">>, "noShowBooking")
    \/ pc = "noShowBooking" /\ ScheduleBefore("depart", <<"booking1", "no_show">>, "idle")

CheckIn ==
    \/ /\ Call /\ state.reservation1 = "confirmed" /\ state.booking1 = "confirmed"
       /\ state.stay = "during"
       /\ CancelPending("reservation1", "no_show", "guestCame")
    \/ pc = "guestCame" /\ CancelPending("booking1", "no_show", "checkIn")
    \/ pc = "checkIn" /\ On("reservation1", "check_in", "occupy")
    \/ pc = "occupy" /\ On("booking1", "occupy", "idle")

CheckOut ==
    \/ /\ Call /\ state.reservation1 = "checked_in" /\ state.booking1 = "occupied"
       /\ state.stay = "after"
       /\ On("reservation1", "check_out", "complete")
    \/ pc = "complete" /\ On("booking1", "complete", "idle")

\* All four boundaries are cancelled before the reservation is.
CancelReservation ==
    \/ /\ Call /\ Disturbed
       /\ \E n \in Ordinals : /\ state[Reservation(n)] \in {"held", "confirmed"}
                              /\ Record([data EXCEPT !.n = n], "dropExpiry")
    \/ pc = "dropExpiry" /\ CancelPending(Reservation(data.n), "expire_hold", "dropBookingExpiry")
    \/ pc = "dropBookingExpiry" /\ CancelPending(Booking(data.n), "expire", "dropNoShow")
    \/ pc = "dropNoShow" /\ CancelPending(Reservation(data.n), "no_show", "dropBookingNoShow")
    \/ pc = "dropBookingNoShow" /\ CancelPending(Booking(data.n), "no_show", "cancel")
    \/ pc = "cancel" /\ On(Reservation(data.n), "cancel", "release")
    \/ pc = "release" /\ On(Booking(data.n), "release", "idle")

\* A captured occurrence is returned as it is: its commit is not repeated.
RecordNoShowOccurrence ==
    \/ /\ Call /\ Disturbed /\ state.reservation1 = "no_show_recorded"
       /\ state.booking1 = "no_show_recorded" /\ state.occurrence = "absent"
       /\ Create("occurrence", "captured", "commit")
    \/ pc = "commit" /\ On("occurrence", "commit", "idle")

ReconcileTick ==
    \/ CreateHold \/ ConfirmReservation \/ CheckIn \/ CheckOut \/ CancelReservation
    \/ RecordNoShowOccurrence

\* The nights are over and the two records of the stay do not agree.
CutOff ==
    /\ work = {} /\ ~(state.reservation1 = "checked_in" /\ state.booking1 = "occupied")
    /\ state.reservation1 \in {"requested", "held", "confirmed", "checked_in"}

Finished ==
    \/ state.reservation1 \in {"checked_out", "expired", "cancelled", "no_show_recorded"}
    \/ crashes > 0 /\ CutOff

-----------------------------------------------------------------------------
\* Two bookings never block one room; without an interruption the reservation
\* and its booking agree, a confirmed stay is watched for a no-show and no
\* longer for the expiry of its hold, and a no-show is recorded only when it
\* happened (HOS-01 to HOS-09).
Causality ==
    /\ \A n \in Ordinals \ {"1"} :
          {state[Booking(n)], state.booking1} \subseteq BlockingBookingStates =>
             data.room[n] # data.room["1"]
    /\ crashes = 0 /\ pc = "idle" => \A n \in Ordinals :
          state[Reservation(n)] \in {"cancelled", "checked_out"} =>
             state[Booking(n)] \notin BlockingBookingStates
    /\ crashes = 0 /\ pc = "idle" /\ state.reservation1 = "confirmed" =>
          Pending("reservation1", "no_show") /\ ~Pending("reservation1", "expire_hold")
    /\ crashes = 0 /\ state.reservation1 \in {"checked_in", "checked_out"} =>
          ~Pending("booking1", "no_show")
    /\ state.occurrence # "absent" => state.reservation1 = "no_show_recorded"
=============================================================================
