-------------------------- MODULE DurableResources --------------------------
(***************************************************************************)
(* DurableResourceManager (sose/core/resources.py): demands, reservations  *)
(* and release intents are persisted, and the SimPy resource that decides  *)
(* who is granted is rebuilt from them after a crash.  One resource, one   *)
(* process at a time; a process that raises is discarded like one that     *)
(* died, as the job runner does.                                           *)
(***************************************************************************)
EXTENDS Integers, Sequences, FiniteSets, SequencesExt

CONSTANTS
    ResRequests,     \* request ids
    ResPriorities,   \* priorities a request may have, smaller first
    ResCapacity,     \* ResourceDefinition.capacity
    ResMaxEvents,    \* bound on the backend's events when an operation begins
    ResMaxCrashes    \* bound on the number of crashes

ASSUME ResourceAssumption ==
    ResCapacity \in Nat /\ ResPriorities \subseteq Int /\ ResMaxCrashes \in Nat

VARIABLES
    demands,      \* ResourceDemand records, sorted by priority and sequence
    reserved,     \* requests with a ResourceReservation
    releasing,    \* reserved requests with a ResourceReleaseIntent
    running,      \* a process with a rebuilt backend is running
    resStep,      \* its operation between two transactions, <<name, request>>
    queue,        \* backend: requests that wait, sorted by priority
    users,        \* backend: requests that occupy a unit of capacity
    events,       \* backend: events not yet processed
    leases,       \* backend: leases it has handed out
    known,        \* manager: reservations whose lease it keeps
    resCrashes

resDurable == <<demands, reserved, releasing>>
backend == <<queue, users, events, leases>>
resVars == <<resDurable, running, resStep, backend, known, resCrashes>>

Demand == [req : ResRequests, prio : ResPriorities]
Free == <<"none", "none">>
Steps == {"submit", "cancel", "release"} \X ResRequests
Event == ({"grant"} \X ResRequests) \cup {<<"release", "none">>}

ResTypeOK ==
    /\ demands \in Seq(Demand)
    /\ reserved \subseteq ResRequests
    /\ releasing \subseteq ResRequests
    /\ running \in BOOLEAN
    /\ resStep \in Steps \cup {Free}
    /\ queue \in Seq(Demand)
    /\ users \subseteq ResRequests
    /\ events \in Seq(Event)
    /\ leases \subseteq ResRequests
    /\ known \subseteq ResRequests
    /\ resCrashes \in 0..ResMaxCrashes

ResInit ==
    /\ demands = <<>> /\ reserved = {} /\ releasing = {}
    /\ running = FALSE /\ resStep = Free
    /\ queue = <<>> /\ users = {} /\ events = <<>> /\ leases = {} /\ known = {}
    /\ resCrashes = 0

Demanded(q, r) == \E i \in DOMAIN q : q[i].req = r
DemandOf(r) == CHOOSE d \in ToSet(demands) : d.req = r

\* Mutant of Insert: the last to arrive comes first.
InsertBefore(q, d) ==
    InsertAt(q, Cardinality({i \in DOMAIN q : q[i].prio < d.prio}) + 1, d)

\* Order of priority, then of arrival: sorted(resource_demands) and SimPy's
\* queue agree, because a later demand has a larger sequence.
Insert(q, d) ==
    InsertAt(q, Cardinality({i \in DOMAIN q : q[i].prio <= d.prio}) + 1, d)
Without(q, r) == RemoveAt(q, CHOOSE i \in DOMAIN q : q[i].req = r)

-----------------------------------------------------------------------------
(***************************************************************************)
(* The backend                                                             *)
(***************************************************************************)

\* Mutant of TriggerRequest: one more than the capacity.
TriggerRequestOver(q, us, evs) ==
    IF q # <<>> /\ Cardinality(us) <= ResCapacity
    THEN /\ queue' = Tail(q)
         /\ users' = us \cup {Head(q).req}
         /\ events' = Append(evs, <<"grant", Head(q).req>>)
    ELSE queue' = q /\ users' = us /\ events' = evs

\* SimPy tries the head of the queue once per request and per release event.
TriggerRequest(q, us, evs) ==
    IF q # <<>> /\ Cardinality(us) < ResCapacity
    THEN /\ queue' = Tail(q)
         /\ users' = us \cup {Head(q).req}
         /\ events' = Append(evs, <<"grant", Head(q).req>>)
    ELSE queue' = q /\ users' = us /\ events' = evs

Idle == running /\ resStep = Free

\* An operation begins between two events; run_until processes all of them at
\* the latest when the tick ends.
MayCallResource == Idle /\ Len(events) <= ResMaxEvents

\* request(): the demand is persisted, then the backend is asked.
Request(r, p) ==
    /\ MayCallResource
    /\ ~Demanded(demands, r) /\ r \notin reserved
    /\ demands' = Insert(demands, [req |-> r, prio |-> p])
    /\ resStep' = <<"submit", r>>
    /\ UNCHANGED <<reserved, releasing, running, backend, known, resCrashes>>

SubmitDemand(r) ==
    /\ resStep = <<"submit", r>>
    /\ TriggerRequest(Insert(queue, DemandOf(r)), users, events)
    /\ resStep' = Free
    /\ UNCHANGED <<resDurable, running, leases, known, resCrashes>>

\* Mutant of ProcessRelease: nobody is let in.
ProcessReleaseOnly ==
    /\ Idle
    /\ events # <<>> /\ Head(events)[1] = "release"
    /\ events' = Tail(events)
    /\ UNCHANGED <<resDurable, running, resStep, queue, users, leases, known, resCrashes>>

\* A release event lets the next request in.
ProcessRelease ==
    /\ Idle
    /\ events # <<>> /\ Head(events)[1] = "release"
    /\ TriggerRequest(queue, users, Tail(events))
    /\ UNCHANGED <<resDurable, running, resStep, leases, known, resCrashes>>

\* A grant of a restored reservation only gives the manager its lease; a grant
\* of a demand turns it into a reservation in one transaction.
RecordGrant ==
    /\ Idle
    /\ events # <<>> /\ Head(events)[1] = "grant"
    /\ LET r == Head(events)[2] IN
          /\ \/ r \in reserved /\ UNCHANGED <<demands, reserved>>
             \/ /\ r \notin reserved /\ Demanded(demands, r)
                /\ demands' = Without(demands, r)
                /\ reserved' = reserved \cup {r}
          /\ leases' = leases \cup {r}
          /\ known' = known \cup {r}
    /\ events' = Tail(events)
    /\ UNCHANGED <<releasing, running, resStep, queue, users, resCrashes>>

\* cancel_pending(): the backend forgets the request, which may be granted
\* already with its callback still to come, and then the demand is deleted.
CancelPending(r) ==
    /\ MayCallResource
    /\ Demanded(demands, r)
    /\ resStep' = <<"cancel", r>>
    /\ \/ /\ Demanded(queue, r)
          /\ queue' = Without(queue, r)
          /\ UNCHANGED <<users, events>>
       \/ /\ r \in users
          /\ users' = users \ {r}
          /\ events' = Append(RemoveAt(events, CHOOSE i \in DOMAIN events : events[i] = <<"grant", r>>),
                              <<"release", "none">>)
          /\ UNCHANGED queue
    /\ UNCHANGED <<resDurable, running, leases, known, resCrashes>>

DeleteDemand(r) ==
    /\ resStep = <<"cancel", r>>
    /\ demands' = Without(demands, r)
    /\ resStep' = Free
    /\ UNCHANGED <<reserved, releasing, running, backend, known, resCrashes>>

\* release(): the intent is persisted first.  The manager may know the lease
\* of an earlier backend, because a rebuild does not clear its leases.
ReleaseIntent(r) ==
    /\ MayCallResource
    /\ r \in reserved /\ r \in known
    /\ releasing' = releasing \cup {r}
    /\ resStep' = <<"release", r>>
    /\ UNCHANGED <<demands, reserved, running, backend, known, resCrashes>>

\* The backend gives up the unit, and the reservation is deleted.
FinalizeRelease(r) ==
    /\ resStep = <<"release", r>>
    /\ r \in leases
    /\ leases' = leases \ {r}
    /\ users' = users \ {r}
    /\ events' = Append(events, <<"release", "none">>)
    /\ reserved' = reserved \ {r}
    /\ releasing' = releasing \ {r}
    /\ known' = known \ {r}
    /\ resStep' = Free
    /\ UNCHANGED <<demands, running, queue, resCrashes>>

Dead ==
    /\ running' = FALSE
    /\ resStep' = Free
    /\ queue' = <<>> /\ users' = {} /\ events' = <<>> /\ leases' = {} /\ known' = {}
    /\ UNCHANGED resDurable

\* KeyError: the backend does not know the lease.
ReleaseRaises(r) ==
    /\ resStep = <<"release", r>>
    /\ r \notin leases
    /\ Dead
    /\ UNCHANGED resCrashes

ResCrash ==
    /\ running
    /\ resCrashes < ResMaxCrashes
    /\ resCrashes' = resCrashes + 1
    /\ Dead

-----------------------------------------------------------------------------
(***************************************************************************)
(* Rebuild                                                                 *)
(***************************************************************************)

\* A release that was interrupted is completed, one transaction each.
FinalizeInterrupted(r) ==
    /\ ~running
    /\ r \in releasing
    /\ reserved' = reserved \ {r}
    /\ releasing' = releasing \ {r}
    /\ UNCHANGED <<demands, running, resStep, backend, known, resCrashes>>

\* Reservations are requested before demands, so that they are granted first.
\* An engine may also be rebuilt in place: its manager keeps its leases.
Rebuild ==
    LET restored == SetToSeq(reserved)
        granted == SubSeq(demands, 1, IF Len(demands) < ResCapacity - Cardinality(reserved)
                                      THEN Len(demands) ELSE ResCapacity - Cardinality(reserved))
    IN /\ resStep = Free
       /\ releasing = {}
       /\ running' = TRUE
       /\ users' = reserved \cup {granted[i].req : i \in DOMAIN granted}
       /\ queue' = SubSeq(demands, Len(granted) + 1, Len(demands))
       /\ events' = [i \in 1..Len(restored) |-> <<"grant", restored[i]>>]
                       \o [i \in DOMAIN granted |-> <<"grant", granted[i].req>>]
       /\ leases' = {}
       /\ UNCHANGED <<resDurable, resStep, known, resCrashes>>

ResServe == ProcessRelease \/ RecordGrant \/ \E r \in ResRequests : SubmitDemand(r) \/ DeleteDemand(r)
ResFinish(r) == ReleaseIntent(r) \/ FinalizeRelease(r)

ResNext ==
    \/ \E r \in ResRequests, p \in ResPriorities : Request(r, p)
    \/ ResServe
    \/ \E r \in ResRequests :
          CancelPending(r) \/ ResFinish(r) \/ ReleaseRaises(r) \/ FinalizeInterrupted(r)
    \/ ResCrash
    \/ Rebuild

ResSpec == ResInit /\ [][ResNext]_resVars

-----------------------------------------------------------------------------
(***************************************************************************)
(* Properties                                                              *)
(***************************************************************************)

\* The reservations that are not being released never exceed the capacity, and
\* each of them occupies a unit of the running backend: a rebuild gives the
\* units to the durable owners before it lets any demand in.
ReservationsBacked ==
    /\ Cardinality(reserved \ releasing) <= ResCapacity
    /\ running => reserved \ releasing \subseteq users

\* A durable demand is known to the running backend, in its queue or granted
\* with the callback to come: a crash or a cancellation strands no request.  It
\* waits beside free capacity only while a release event is still to be
\* processed, although a trigger grants one request at a time.
NoLostDemand ==
    /\ Idle => \A i \in DOMAIN demands :
          \/ Demanded(queue, demands[i].req)
          \/ <<"grant", demands[i].req>> \in ToSet(events)
    /\ running /\ queue # <<>> /\ Cardinality(users) < ResCapacity =>
          \E i \in DOMAIN events : events[i][1] = "release"

Abstract == INSTANCE ResourceSpec
    WITH Clients <- ResRequests, Ranks <- ResPriorities, Units <- ResCapacity,
         pending <- demands, granted <- reserved \ releasing

\* The manager with its backend, its crashes and its rebuilds implements the
\* abstract resource: a release counts when its intent is persisted, and demands
\* of one priority are granted in their durable order.
ImplementsResource == Abstract!Spec
=============================================================================
