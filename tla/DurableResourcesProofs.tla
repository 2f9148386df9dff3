----------------------- MODULE DurableResourcesProofs -----------------------
(***************************************************************************)
(* Proofs about DurableResourceManager with its backend: reservations keep *)
(* their units, no demand is lost, and the manager implements the abstract *)
(* resource, whatever crashes, rebuilds, cancellations and releases        *)
(* interleave.                                                             *)
(***************************************************************************)
EXTENDS DurableResources, SequenceFacts

\* The event that tells of r's grant.
GrantOf(r) == <<"grant", r>>
ReleaseEvent == <<"release", "none">>

\* No element comes before one of a smaller priority.
ByPriority(q) == \A a, b \in ToSet(q) : Before(q, a, b) => a.prio <= b.prio

\* The durable side: demands in the order of priority and arrival, and none
\* for a request that already holds a reservation.
DurableOK ==
    /\ IsFiniteSet(reserved) /\ Cardinality(reserved) <= ResCapacity
    /\ releasing \subseteq reserved
    /\ \A a \in ToSet(demands) : Once(demands, a) /\ a.req \notin reserved
    /\ \A a, b \in ToSet(demands) : a.req = b.req => a = b
    /\ ByPriority(demands)

\* What the process is in the middle of.  A demand that is being submitted is
\* the last of its priority.
StepOK ==
    /\ ~running => resStep = Free /\ queue = <<>> /\ users = {} /\ events = <<>> /\ leases = {}
    /\ running => \A r \in releasing : resStep = <<"release", r>>
    /\ \A r \in ResRequests :
          /\ resStep = <<"release", r>> => r \in releasing
          /\ resStep \in {<<"submit", r>>, <<"cancel", r>>} =>
                Demanded(demands, r) /\ ~Demanded(queue, r) /\ r \notin users
    /\ \A a, b \in ToSet(demands) :
          resStep = <<"submit", a.req>> /\ Before(demands, a, b) => a.prio # b.prio

\* The queue holds demands that have no unit, in order.
QueueOK(q, us) ==
    /\ \A a \in ToSet(q) : a \in ToSet(demands) /\ a.req \notin us /\ Once(q, a)
    /\ ByPriority(q)

\* Every unit is a reservation's, or a demand's whose callback is to come.
UsersOK(us, evs) ==
    /\ IsFiniteSet(us) /\ Cardinality(us) <= ResCapacity
    /\ running => reserved \subseteq us
    /\ leases \subseteq reserved
    /\ \A r \in us : r \in reserved \/ GrantOf(r) \in ToSet(evs)
    /\ \A r \in ResRequests : GrantOf(r) \in ToSet(evs) =>
          /\ r \in us /\ Once(evs, GrantOf(r)) /\ r \notin leases
          /\ r \in reserved \/ Demanded(demands, r)

\* The backend knows every demand, save the one it is being asked about.
DemandsKnown(q, evs, step) ==
    running => \A d \in ToSet(demands) :
        \/ d \in ToSet(q)
        \/ GrantOf(d.req) \in ToSet(evs)
        \/ step \in {<<"submit", d.req>>, <<"cancel", d.req>>}

\* Of two demands of one priority the earlier is granted first, unless it is
\* being withdrawn.
Fair(q, evs, step) ==
    \A a, b \in ToSet(demands) : Before(demands, a, b) /\ a.prio = b.prio =>
        /\ a \in ToSet(q) /\ b \in ToSet(q) => Before(q, a, b)
        /\ GrantOf(b.req) \in ToSet(evs) =>
              step = <<"cancel", a.req>> \/ Before(evs, GrantOf(a.req), GrantOf(b.req))

\* A demand waits only when the units that are taken, and those that a release
\* event is about to offer, are all there are.
NoneSpare(q, us, evs) ==
    q # <<>> => ResCapacity <= Cardinality(us) + Occurrences(evs, ReleaseEvent)

ResInv ==
    /\ ResTypeOK /\ DurableOK /\ StepOK
    /\ QueueOK(queue, users) /\ UsersOK(users, events)
    /\ DemandsKnown(queue, events, resStep) /\ Fair(queue, events, resStep)
    /\ NoneSpare(queue, users, events)

-----------------------------------------------------------------------------
(***************************************************************************)
(* The operators on queues                                                 *)
(***************************************************************************)

\* A demand is put after those of its own priority and before the others.
LEMMA InsertOrder ==
    ASSUME NEW q \in Seq(Demand), NEW d \in Demand, d \notin ToSet(q), ByPriority(q)
    PROVE  LET p == Insert(q, d) IN
           /\ p \in Seq(Demand) /\ ToSet(p) = ToSet(q) \cup {d} /\ Len(p) = Len(q) + 1
           /\ \A a, b : a # d /\ b # d => (Before(p, a, b) <=> Before(q, a, b))
           /\ \A a : Before(p, a, d) <=> a \in ToSet(q) /\ a.prio <= d.prio
           /\ \A b : Before(p, d, b) <=> b \in ToSet(q) /\ d.prio < b.prio
           /\ \A a \in ToSet(q) : Once(q, a) => Once(p, a)
           /\ Once(p, d)
           /\ ByPriority(p)
<1> DEFINE T == {i \in DOMAIN q : q[i].prio <= d.prio}
           c == Cardinality(T)
           p == Insert(q, d)
<1>1. Len(q) \in Nat /\ DOMAIN q = 1..Len(q) /\ \A i \in DOMAIN q : q[i] \in Demand
  BY LenProperties
<1>2. \A e \in Demand : e.prio \in Int
  BY ResourceAssumption DEF Demand
<1>3. \A i, j \in DOMAIN q : j < i => q[j].prio <= q[i].prio
  BY <1>1 DEF ByPriority, Before, ToSet
<1>4. T \in SUBSET (1..Len(q)) /\ \A i \in T, j \in 1..Len(q) : j < i => j \in T
  BY <1>1, <1>2, <1>3
<1>5. \A j \in DOMAIN q : j \in T <=> q[j].prio <= d.prio
  OBVIOUS
<1>6. p = InsertAt(q, c + 1, d)
  BY DEF Insert
<1> HIDE DEF T
<1>7. c \in 0..Len(q) /\ \A j \in 1..Len(q) : j \in T <=> j <= c
  BY <1>1, <1>4, Prefix
<1>8. \A j \in DOMAIN q : j < c + 1 <=> q[j].prio <= d.prio
  BY <1>1, <1>5, <1>7
<1>9. \A j \in DOMAIN q : j >= c + 1 <=> d.prio < q[j].prio
  BY <1>1, <1>2, <1>8, <1>7
<1> HIDE DEF c, p
<1>10. c + 1 \in 1..Len(q) + 1
  BY <1>1, <1>7
<1>11. /\ p \in Seq(Demand) /\ ToSet(p) = ToSet(q) \cup {d} /\ Len(p) = Len(q) + 1
       /\ \A a, b : a # d /\ b # d => (Before(p, a, b) <=> Before(q, a, b))
       /\ \A a : Before(p, a, d) <=> \E j \in DOMAIN q : j < c + 1 /\ q[j] = a
       /\ \A b : Before(p, d, b) <=> \E j \in DOMAIN q : j >= c + 1 /\ q[j] = b
       /\ \A a : a # d /\ Once(q, a) => Once(p, a)
       /\ Once(p, d)
  BY <1>6, <1>10, InsertFacts
<1>12. \A a : Before(p, a, d) <=> a \in ToSet(q) /\ a.prio <= d.prio
  BY <1>8, <1>11 DEF ToSet
<1>13. \A b : Before(p, d, b) <=> b \in ToSet(q) /\ d.prio < b.prio
  BY <1>9, <1>11 DEF ToSet
<1>14. ToSet(q) \subseteq Demand
  BY <1>1 DEF ToSet
<1>15. ByPriority(p)
  BY <1>2, <1>11, <1>12, <1>13, <1>14 DEF ByPriority
<1> QED
  BY <1>11, <1>12, <1>13, <1>15 DEF p

\* The demand of a request is dropped.
LEMMA WithoutDrops ==
    ASSUME NEW q \in Seq(Demand), NEW d \in ToSet(q),
           \A a, b \in ToSet(q) : a.req = b.req => a = b
    PROVE  LET p == Without(q, d.req) IN
           p \in Seq(Demand) /\ \E i \in DOMAIN q : q[i] = d /\ Dropped(q, i, p) /\ p = RemoveAt(q, i)
<1> DEFINE i == CHOOSE k \in DOMAIN q : q[k].req = d.req
<1>1. \E k \in DOMAIN q : q[k].req = d.req
  BY DEF ToSet
<1>2. i \in DOMAIN q /\ q[i].req = d.req
  BY <1>1
<1>3. Without(q, d.req) = RemoveAt(q, i)
  BY DEF Without
<1> HIDE DEF i
<1>4. q[i] = d
  BY <1>2 DEF ToSet
<1>5. i \in 1..Len(q)
  BY <1>2, LenProperties
<1>6. RemoveAt(q, i) \in Seq(Demand) /\ Dropped(q, i, RemoveAt(q, i))
  BY <1>5, Removed DEF Dropped
<1> QED
  BY <1>2, <1>3, <1>4, <1>6

\* What is left, and in which order.
LEMMA WithoutFacts ==
    ASSUME NEW q \in Seq(Demand), NEW d \in ToSet(q), Once(q, d),
           \A a, b \in ToSet(q) : a.req = b.req => a = b
    PROVE  LET p == Without(q, d.req) IN
           /\ p \in Seq(Demand) /\ ToSet(p) = ToSet(q) \ {d}
           /\ \A a, b : a # d /\ b # d => (Before(p, a, b) <=> Before(q, a, b))
           /\ \A a, b : Before(p, a, b) => Before(q, a, b)
           /\ \A v : Once(q, v) => Once(p, v)
<1> DEFINE p == Without(q, d.req)
<1>1. p \in Seq(Demand) /\ \E i \in DOMAIN q : q[i] = d /\ Dropped(q, i, p)
  BY WithoutDrops
<1> HIDE DEF p
<1>2. PICK i \in DOMAIN q : q[i] = d /\ Dropped(q, i, p)
  BY <1>1
<1>3. /\ \A a : a # q[i] => (a \in ToSet(p) <=> a \in ToSet(q))
      /\ \A a, b : a # q[i] /\ b # q[i] => (Before(p, a, b) <=> Before(q, a, b))
      /\ ToSet(p) \subseteq ToSet(q)
      /\ \A a, b : Before(p, a, b) => Before(q, a, b)
      /\ \A v : Once(q, v) => Once(p, v)
      /\ Once(q, q[i]) => q[i] \notin ToSet(p)
  BY <1>1, <1>2, DropFacts
<1>4. ToSet(p) = ToSet(q) \ {d}
  BY <1>2, <1>3
<1> QED
  BY <1>1, <1>2, <1>3, <1>4 DEF p

\* What the elements of a queue are.
LEMMA Elements ==
    ASSUME NEW q \in Seq(Demand)
    PROVE  \A a \in ToSet(q) : a \in Demand /\ a.prio \in Int /\ a.req \in ResRequests
<1>1. \A i \in DOMAIN q : q[i] \in Demand
  BY LenProperties
<1>2. \A a \in Demand : a.prio \in Int /\ a.req \in ResRequests
  BY ResourceAssumption DEF Demand
<1> QED
  BY <1>1, <1>2 DEF ToSet

\* Who is demanded, by elements rather than by places.
LEMMA DemandedBy ==
    ASSUME NEW q, NEW r
    PROVE  Demanded(q, r) <=> \E a \in ToSet(q) : a.req = r
BY DEF Demanded, ToSet

\* One grant at a time: the head of the queue takes a free unit, and nothing
\* else about the backend changes.
LEMMA TriggerKeeps ==
    ASSUME demands \in Seq(Demand), DurableOK, running = TRUE,
           NEW q \in Seq(Demand), NEW us \in SUBSET ResRequests, NEW evs \in Seq(Event),
           QueueOK(q, us), UsersOK(us, evs), DemandsKnown(q, evs, Free), Fair(q, evs, Free),
           Len(q) >= 2 => ResCapacity <= Cardinality(us) + Occurrences(evs, ReleaseEvent) + 1,
           TriggerRequest(q, us, evs)
    PROVE  /\ queue' \in Seq(Demand) /\ users' \in SUBSET ResRequests /\ events' \in Seq(Event)
           /\ QueueOK(queue', users') /\ UsersOK(users', events')
           /\ DemandsKnown(queue', events', Free) /\ Fair(queue', events', Free)
           /\ NoneSpare(queue', users', events')
<1> USE ResourceAssumption
<1>0. Occurrences(evs, ReleaseEvent) \in Nat /\ Cardinality(us) \in Nat /\ IsFiniteSet(us)
  BY OccurrencesType, FS_CardinalityType DEF UsersOK
<1>1. CASE q # <<>> /\ Cardinality(us) < ResCapacity
  <2> DEFINE d == Head(q)
             g == GrantOf(d.req)
             p == Tail(q)
             ms == us \cup {d.req}
             es == Append(evs, g)
  <2>1. queue' = p /\ users' = ms /\ events' = es
    BY <1>1 DEF TriggerRequest, GrantOf
  <2>2. p \in Seq(Demand) /\ Dropped(q, 1, p) /\ d = q[1] /\ 1 \in DOMAIN q
    BY <1>1, TailDrops
  <2>3. Len(p) = Len(q) - 1 /\ Len(q) \in Nat /\ (p # <<>> => Len(p) # 0)
    BY <2>2, LenProperties, EmptySeq DEF Dropped
  <2> HIDE DEF p
  <2>4. d \in ToSet(q) /\ d \in Demand /\ d \in ToSet(demands) /\ d.req \notin us /\ Once(q, d)
        /\ d.req \in ResRequests /\ d.req \notin reserved
    <3>1. d \in ToSet(q) /\ d \in Demand
      BY <2>2, LenProperties DEF ToSet
    <3> QED
      BY <3>1 DEF QueueOK, DurableOK, Demand
  <2> HIDE DEF d
  <2>5. /\ ToSet(p) = ToSet(q) \ {d}
        /\ \A a, b : a # d /\ b # d => (Before(p, a, b) <=> Before(q, a, b))
        /\ \A a, b : Before(p, a, b) => Before(q, a, b)
        /\ \A v : Once(q, v) => Once(p, v)
    <3>1. /\ \A a : a # q[1] => (a \in ToSet(p) <=> a \in ToSet(q))
          /\ \A a, b : a # q[1] /\ b # q[1] => (Before(p, a, b) <=> Before(q, a, b))
          /\ ToSet(p) \subseteq ToSet(q)
          /\ \A a, b : Before(p, a, b) => Before(q, a, b)
          /\ \A v : Once(q, v) => Once(p, v)
          /\ Once(q, q[1]) => q[1] \notin ToSet(p)
      BY <2>2, DropFacts
    <3> QED
      BY <2>2, <2>4, <3>1
  <2>6. g \in Event /\ g \notin ToSet(evs)
    BY <2>4 DEF Event, GrantOf, UsersOK
  <2>7. /\ es \in Seq(Event) /\ ToSet(es) = ToSet(evs) \cup {g}
        /\ \A a, b : Before(es, a, b) <=> Before(evs, a, b) \/ (a \in ToSet(evs) /\ b = g)
        /\ \A a : a # g /\ Once(evs, a) => Once(es, a)
        /\ Once(es, g)
    BY <2>6, AppendFacts
  <2>8. Occurrences(es, ReleaseEvent) = Occurrences(evs, ReleaseEvent)
    <3>1. g # ReleaseEvent
      BY DEF GrantOf, ReleaseEvent
    <3>2. Occurrences(es, ReleaseEvent) = Occurrences(evs, ReleaseEvent) + (IF g = ReleaseEvent THEN 1 ELSE 0)
      BY <2>6, OccurrencesAppend
    <3> QED
      BY <1>0, <3>1, <3>2
  <2>9. IsFiniteSet(ms) /\ Cardinality(ms) = Cardinality(us) + 1
    BY <1>0, <2>4, FS_AddElement
  <2>10. \A r : GrantOf(r) = g <=> r = d.req
    BY DEF GrantOf
  <2>11. \A a : ~Before(q, a, d)
    BY <2>2, <2>4, LenProperties DEF Before, Once
  <2>12. \A a, b \in ToSet(demands) : a.req = b.req => a = b
    BY DEF DurableOK
  <2> HIDE DEF es, g
  <2>13. ms \in SUBSET ResRequests
    BY <2>4
  <2>14. QueueOK(p, ms)
    <3>1. \A a \in ToSet(p) : a \in ToSet(demands) /\ a.req \notin ms /\ Once(p, a)
      BY <2>4, <2>5, <2>12 DEF QueueOK
    <3>2. ByPriority(p)
      BY <2>5 DEF QueueOK, ByPriority
    <3> QED
      BY <3>1, <3>2 DEF QueueOK
  <2>15. UsersOK(ms, es)
    <3>1. Cardinality(ms) <= ResCapacity
      BY <1>0, <1>1, <2>9
    <3>2. reserved \subseteq ms /\ leases \subseteq reserved
      BY DEF UsersOK
    <3>3. \A r \in ms : r \in reserved \/ GrantOf(r) \in ToSet(es)
      BY <2>7, <2>10 DEF UsersOK
    <3>4. Demanded(demands, d.req) /\ d.req \notin leases
      BY <2>4, <3>2, DemandedBy
    <3>5. \A r \in ResRequests : GrantOf(r) \in ToSet(es) =>
             /\ r \in ms /\ Once(es, GrantOf(r)) /\ r \notin leases
             /\ r \in reserved \/ Demanded(demands, r)
      BY <2>7, <2>10, <3>4 DEF UsersOK
    <3> QED
      BY <2>9, <3>1, <3>2, <3>3, <3>5 DEF UsersOK
  <2>16. DemandsKnown(p, es, Free)
    BY <2>5, <2>7, <2>10 DEF DemandsKnown
  <2>17. Fair(p, es, Free)
    <3> SUFFICES ASSUME NEW a \in ToSet(demands), NEW b \in ToSet(demands),
                        Before(demands, a, b), a.prio = b.prio
                 PROVE  /\ a \in ToSet(p) /\ b \in ToSet(p) => Before(p, a, b)
                        /\ GrantOf(b.req) \in ToSet(es) =>
                              Free = <<"cancel", a.req>> \/ Before(es, GrantOf(a.req), GrantOf(b.req))
      BY DEF Fair
    <3>1. a \in ToSet(p) /\ b \in ToSet(p) => Before(p, a, b)
      BY <2>5 DEF Fair
    <3>2. Free # <<"cancel", a.req>> /\ Free # <<"submit", a.req>>
      BY DEF Free
    <3>3. ASSUME GrantOf(b.req) \in ToSet(evs)
          PROVE  Before(es, GrantOf(a.req), GrantOf(b.req))
      BY <2>7, <3>2, <3>3 DEF Fair
    <3>4. ASSUME GrantOf(b.req) \notin ToSet(evs), GrantOf(b.req) \in ToSet(es)
          PROVE  Before(es, GrantOf(a.req), GrantOf(b.req))
      <4>1. b = d /\ GrantOf(b.req) = g
        BY <2>4, <2>7, <2>10, <2>12, <3>4
      <4>2. a \notin ToSet(q)
        BY <2>4, <2>11, <4>1 DEF Fair
      <4>3. GrantOf(a.req) \in ToSet(evs)
        BY <3>2, <4>2 DEF DemandsKnown, Free
      <4> QED
        BY <2>7, <4>1, <4>3
    <3> QED
      BY <3>1, <3>3, <3>4
  <2>18. NoneSpare(p, ms, es)
    <3>1. p # <<>> => Len(q) >= 2
      BY <2>3
    <3> QED
      BY <1>0, <2>8, <2>9, <3>1 DEF NoneSpare
  <2> QED
    BY <2>1, <2>2, <2>7, <2>13, <2>14, <2>15, <2>16, <2>17, <2>18
<1>2. CASE ~(q # <<>> /\ Cardinality(us) < ResCapacity)
  <2>1. queue' = q /\ users' = us /\ events' = evs
    BY <1>2 DEF TriggerRequest
  <2>2. NoneSpare(q, us, evs)
    BY <1>0, <1>2 DEF NoneSpare
  <2> QED
    BY <2>1, <2>2
<1> QED
  BY <1>1, <1>2

-----------------------------------------------------------------------------
(***************************************************************************)
(* The inductive invariant                                                 *)
(***************************************************************************)

LEMMA InitInv == ResInit => ResInv
<1> SUFFICES ASSUME ResInit PROVE ResInv
  OBVIOUS
<1> USE ResourceAssumption
<1>1. ResTypeOK
  <2>1. <<>> \in Seq(Demand) /\ <<>> \in Seq(Event) /\ 0 \in 0..ResMaxCrashes
    OBVIOUS
  <2> QED
    BY <2>1 DEF ResInit, ResTypeOK
<1>2. ToSet(<<>>) = {}
  BY DEF ToSet
<1>3. IsFiniteSet({}) /\ Cardinality({}) = 0
  BY FS_EmptySet
<1>4. DurableOK
  BY <1>2, <1>3 DEF ResInit, DurableOK, ByPriority
<1>5. StepOK
  BY <1>2 DEF ResInit, StepOK, Free
<1>6. QueueOK(queue, users) /\ UsersOK(users, events)
  BY <1>2, <1>3 DEF ResInit, QueueOK, UsersOK, ByPriority
<1>7. DemandsKnown(queue, events, resStep) /\ Fair(queue, events, resStep) /\ NoneSpare(queue, users, events)
  BY <1>2 DEF ResInit, DemandsKnown, Fair, NoneSpare
<1> QED
  BY <1>1, <1>4, <1>5, <1>6, <1>7 DEF ResInv

\* A new demand is the last of its priority, and unknown to the backend.
LEMMA RequestInv ==
    ASSUME ResInv, NEW r \in ResRequests, NEW p \in ResPriorities, Request(r, p)
    PROVE  ResInv'
<1> USE DEF ResInv, Idle, MayCallResource, backend
<1> DEFINE d == [req |-> r, prio |-> p]
<1>1. d \in Demand /\ d.req = r /\ d.prio = p
  BY DEF Demand
<1> HIDE DEF d
<1>2. d \notin ToSet(demands) /\ \A a \in ToSet(demands) : a.req # r
  BY <1>1, DemandedBy DEF Request
<1>3. demands \in Seq(Demand) /\ ByPriority(demands) /\ demands' = Insert(demands, d)
  BY DEF ResTypeOK, DurableOK, Request, d
<1>4. /\ demands' \in Seq(Demand) /\ ToSet(demands') = ToSet(demands) \cup {d}
      /\ \A a, b : a # d /\ b # d => (Before(demands', a, b) <=> Before(demands, a, b))
      /\ \A b : Before(demands', d, b) <=> b \in ToSet(demands) /\ d.prio < b.prio
      /\ \A a \in ToSet(demands) : Once(demands, a) => Once(demands', a)
      /\ Once(demands', d)
      /\ ByPriority(demands')
  BY <1>1, <1>2, <1>3, InsertOrder
<1>5. /\ r \notin reserved /\ running /\ resStep = Free /\ resStep' = <<"submit", r>>
      /\ UNCHANGED <<reserved, releasing, running, queue, users, events, leases, known, resCrashes>>
  BY DEF Request
<1>6. ~Demanded(queue, r) /\ r \notin users /\ GrantOf(r) \notin ToSet(events)
  BY <1>2, <1>5, DemandedBy DEF QueueOK, UsersOK
<1>7. ResTypeOK'
  BY <1>4, <1>5 DEF ResTypeOK, Steps
<1>8. DurableOK'
  BY <1>1, <1>2, <1>4, <1>5 DEF DurableOK
<1>9. releasing = {}
  BY <1>5 DEF StepOK, Free
<1>10. \A e \in ToSet(demands') : e.prio \in Int
  BY <1>4, Elements
<1>11. Demanded(demands', r)
  BY <1>1, <1>4, DemandedBy
<1>12. StepOK'
  <2>1. \A x \in ResRequests :
          /\ resStep' # <<"release", x>>
          /\ resStep' \in {<<"submit", x>>, <<"cancel", x>>} =>
                Demanded(demands', x) /\ ~Demanded(queue', x) /\ x \notin users'
    BY <1>5, <1>6, <1>11
  <2>2. \A a, b \in ToSet(demands') :
          resStep' = <<"submit", a.req>> /\ Before(demands', a, b) => a.prio # b.prio
    BY <1>1, <1>2, <1>4, <1>5, <1>10
  <2>3. running' /\ releasing' = {}
    BY <1>5, <1>9
  <2> QED
    BY <2>1, <2>2, <2>3 DEF StepOK
<1>13. QueueOK(queue, users)'
  BY <1>4, <1>5 DEF QueueOK
<1>14. UsersOK(users, events)'
  <2>1. \A x : Demanded(demands, x) => Demanded(demands', x)
    BY <1>4, DemandedBy
  <2> QED
    BY <1>5, <2>1 DEF UsersOK
<1>15. DemandsKnown(queue, events, resStep)'
  BY <1>1, <1>4, <1>5 DEF DemandsKnown, Free
<1>16. Fair(queue, events, resStep)'
  <2> SUFFICES ASSUME NEW a \in ToSet(demands'), NEW b \in ToSet(demands'),
                      Before(demands', a, b), a.prio = b.prio
               PROVE  /\ a \in ToSet(queue) /\ b \in ToSet(queue) => Before(queue, a, b)
                      /\ GrantOf(b.req) \in ToSet(events) =>
                            Before(events, GrantOf(a.req), GrantOf(b.req))
    BY <1>5 DEF Fair
  <2>1. a # d
    BY <1>4, <1>10
  <2>2. CASE b = d
    BY <1>1, <1>6, <2>2, DemandedBy
  <2>3. CASE b # d
    BY <1>4, <1>5, <2>1, <2>3 DEF Fair, Free
  <2> QED
    BY <2>2, <2>3
<1>17. NoneSpare(queue, users, events)'
  BY <1>5 DEF NoneSpare
<1> QED
  BY <1>7, <1>8, <1>12, <1>13, <1>14, <1>15, <1>16, <1>17

\* The conjuncts of the invariant about the backend, after a trigger that
\* ends an operation.
LEMMA TriggeredInv ==
    ASSUME ResInv, running = TRUE, resStep' = Free, releasing = {},
           UNCHANGED <<demands, reserved, releasing, running, leases, known, resCrashes>>,
           queue' \in Seq(Demand), users' \in SUBSET ResRequests, events' \in Seq(Event),
           QueueOK(queue', users'), UsersOK(users', events'),
           DemandsKnown(queue', events', Free), Fair(queue', events', Free),
           NoneSpare(queue', users', events')
    PROVE  ResInv'
<1> USE DEF ResInv
<1>1. ResTypeOK'
  BY DEF ResTypeOK
<1>2. DurableOK'
  BY DEF DurableOK
<1>3. StepOK'
  BY DEF StepOK, Free
<1>4. QueueOK(queue, users)'
  BY DEF QueueOK
<1>5. UsersOK(users, events)'
  BY DEF UsersOK
<1>6. DemandsKnown(queue, events, resStep)'
  BY DEF DemandsKnown
<1>7. Fair(queue, events, resStep)'
  BY DEF Fair
<1>8. NoneSpare(queue, users, events)'
  BY DEF NoneSpare
<1> QED
  BY <1>1, <1>2, <1>3, <1>4, <1>5, <1>6, <1>7, <1>8

\* The backend is asked: the demand joins the queue behind those of its priority.
LEMMA SubmitInv ==
    ASSUME ResInv, NEW r \in ResRequests, SubmitDemand(r)
    PROVE  ResInv'
<1> USE DEF ResInv
<1> DEFINE d == DemandOf(r)
           q == Insert(queue, d)
<1>1. resStep = <<"submit", r>> /\ running = TRUE
  BY DEF SubmitDemand, StepOK, Free, ResTypeOK
<1>2. Demanded(demands, r) /\ ~Demanded(queue, r) /\ r \notin users
  BY <1>1 DEF StepOK
<1>3. d \in ToSet(demands) /\ d.req = r
  BY <1>2, DemandedBy DEF DemandOf
<1>4. demands \in Seq(Demand) /\ queue \in Seq(Demand) /\ events \in Seq(Event)
      /\ users \in SUBSET ResRequests
  BY DEF ResTypeOK
<1>5. d \notin ToSet(queue) /\ d \in Demand /\ ByPriority(queue)
  BY <1>2, <1>3, <1>4, DemandedBy, Elements DEF QueueOK
<1> HIDE DEF d
<1>6. /\ q \in Seq(Demand) /\ ToSet(q) = ToSet(queue) \cup {d} /\ Len(q) = Len(queue) + 1
      /\ \A a, b : a # d /\ b # d => (Before(q, a, b) <=> Before(queue, a, b))
      /\ \A a : Before(q, a, d) <=> a \in ToSet(queue) /\ a.prio <= d.prio
      /\ \A a \in ToSet(queue) : Once(queue, a) => Once(q, a)
      /\ Once(q, d)
      /\ ByPriority(q)
  BY <1>4, <1>5, InsertOrder
<1>7. /\ TriggerRequest(q, users, events) /\ resStep' = Free
      /\ UNCHANGED <<demands, reserved, releasing, running, leases, known, resCrashes>>
  BY DEF SubmitDemand, resDurable, d
<1> HIDE DEF q
<1>8. QueueOK(q, users)
  BY <1>2, <1>3, <1>6 DEF QueueOK
<1>9. \A a, b \in ToSet(demands) : a.req = b.req => a = b
  BY DEF DurableOK
<1>10. \A x : resStep # <<"cancel", x>> /\ (resStep = <<"submit", x>> => x = r)
  BY <1>1
<1>11. DemandsKnown(q, events, Free)
  BY <1>3, <1>6, <1>9, <1>10 DEF DemandsKnown
<1>12. Fair(q, events, Free)
  <2> SUFFICES ASSUME NEW a \in ToSet(demands), NEW b \in ToSet(demands),
                      Before(demands, a, b), a.prio = b.prio
               PROVE  /\ a \in ToSet(q) /\ b \in ToSet(q) => Before(q, a, b)
                      /\ GrantOf(b.req) \in ToSet(events) =>
                            Before(events, GrantOf(a.req), GrantOf(b.req))
    BY DEF Fair
  <2>1. a # d
    BY <1>1, <1>3 DEF StepOK
  <2>2. a \in ToSet(q) /\ b = d => Before(q, a, b)
    <3>1. a.prio \in Int
      BY <1>4, Elements
    <3> QED
      BY <1>6, <2>1, <3>1
  <2>3. b # d /\ a \in ToSet(q) /\ b \in ToSet(q) => Before(q, a, b)
    BY <1>6, <2>1 DEF Fair
  <2> QED
    BY <1>10, <2>2, <2>3 DEF Fair
<1>13. UsersOK(users, events)
  OBVIOUS
<1>14. Len(q) >= 2 => ResCapacity <= Cardinality(users) + Occurrences(events, ReleaseEvent) + 1
  <2>1. Len(q) >= 2 => queue # <<>>
    BY <1>4, <1>6, EmptySeq, LenProperties
  <2>2. Cardinality(users) \in Nat /\ Occurrences(events, ReleaseEvent) \in Nat
    BY <1>4, OccurrencesType, FS_CardinalityType DEF UsersOK
  <2> QED
    BY <2>1, <2>2, ResourceAssumption DEF NoneSpare
<1>15. /\ queue' \in Seq(Demand) /\ users' \in SUBSET ResRequests /\ events' \in Seq(Event)
       /\ QueueOK(queue', users') /\ UsersOK(users', events')
       /\ DemandsKnown(queue', events', Free) /\ Fair(queue', events', Free)
       /\ NoneSpare(queue', users', events')
  BY <1>1, <1>4, <1>6, <1>7, <1>8, <1>11, <1>12, <1>13, <1>14, TriggerKeeps
<1>16. releasing = {}
  BY <1>1 DEF StepOK
<1> QED
  BY <1>1, <1>7, <1>15, <1>16, TriggeredInv

\* The release event is used up, and a unit is taken instead.
LEMMA ProcessReleaseInv ==
    ASSUME ResInv, ProcessRelease
    PROVE  ResInv'
<1> USE DEF ResInv
<1> DEFINE evs == Tail(events)
<1>1. /\ resStep = Free /\ running = TRUE /\ resStep' = Free /\ releasing = {}
      /\ TriggerRequest(queue, users, evs) /\ events # <<>> /\ Head(events)[1] = "release"
      /\ UNCHANGED <<demands, reserved, releasing, running, leases, known, resCrashes>>
  BY DEF ProcessRelease, Idle, StepOK, Free, ResTypeOK, resDurable
<1>2. demands \in Seq(Demand) /\ queue \in Seq(Demand) /\ events \in Seq(Event)
      /\ users \in SUBSET ResRequests
  BY DEF ResTypeOK
<1>3. evs \in Seq(Event) /\ Dropped(events, 1, evs) /\ Head(events) = events[1] /\ 1 \in DOMAIN events
  BY <1>1, <1>2, TailDrops
<1> HIDE DEF evs
<1>4. events[1] = ReleaseEvent
  <2>1. events[1] \in Event
    BY <1>2, <1>3, LenProperties
  <2> QED
    BY <1>1, <1>3, <2>1 DEF Event, ReleaseEvent
<1>5. \A x : GrantOf(x) # events[1]
  BY <1>4 DEF GrantOf, ReleaseEvent
<1>6. /\ \A x : GrantOf(x) \in ToSet(evs) <=> GrantOf(x) \in ToSet(events)
      /\ \A x, y : Before(evs, GrantOf(x), GrantOf(y)) <=> Before(events, GrantOf(x), GrantOf(y))
      /\ \A x : Once(events, GrantOf(x)) => Once(evs, GrantOf(x))
  <2>1. /\ \A a : a # events[1] => (a \in ToSet(evs) <=> a \in ToSet(events))
        /\ \A a, b : a # events[1] /\ b # events[1] => (Before(evs, a, b) <=> Before(events, a, b))
        /\ \A v : Once(events, v) => Once(evs, v)
    BY <1>2, <1>3, DropFacts
  <2> QED
    BY <1>5, <2>1
<1>7. Occurrences(evs, ReleaseEvent) = Occurrences(events, ReleaseEvent) - 1
  <2>1. Occurrences(evs, ReleaseEvent)
           = Occurrences(events, ReleaseEvent) - (IF events[1] = ReleaseEvent THEN 1 ELSE 0)
    BY <1>2, <1>3, OccurrencesDrop
  <2> QED
    BY <1>4, <2>1
<1>8. UsersOK(users, evs)
  BY <1>6 DEF UsersOK
<1>9. DemandsKnown(queue, evs, Free)
  BY <1>1, <1>6 DEF DemandsKnown
<1>10. Fair(queue, evs, Free)
  BY <1>1, <1>6 DEF Fair
<1>11. Len(queue) >= 2 => ResCapacity <= Cardinality(users) + Occurrences(evs, ReleaseEvent) + 1
  <2>1. Len(queue) >= 2 => queue # <<>>
    BY <1>2, EmptySeq, LenProperties
  <2>2. Cardinality(users) \in Nat /\ Occurrences(events, ReleaseEvent) \in Nat
    BY <1>2, OccurrencesType, FS_CardinalityType DEF UsersOK
  <2> QED
    BY <1>7, <2>1, <2>2, ResourceAssumption DEF NoneSpare
<1>12. QueueOK(queue, users)
  OBVIOUS
<1>13. /\ queue' \in Seq(Demand) /\ users' \in SUBSET ResRequests /\ events' \in Seq(Event)
       /\ QueueOK(queue', users') /\ UsersOK(users', events')
       /\ DemandsKnown(queue', events', Free) /\ Fair(queue', events', Free)
       /\ NoneSpare(queue', users', events')
  BY <1>1, <1>2, <1>3, <1>8, <1>9, <1>10, <1>11, <1>12, TriggerKeeps
<1> QED
  BY <1>1, <1>13, TriggeredInv

\* A grant is recorded: the restored owner keeps its reservation, or the demand
\* becomes one; the unit was taken before.
LEMMA RecordGrantInv ==
    ASSUME ResInv, RecordGrant
    PROVE  ResInv'
<1> USE DEF ResInv
<1> DEFINE r == Head(events)[2]
<1>1. /\ resStep = Free /\ running = TRUE /\ resStep' = Free /\ running' = TRUE /\ releasing = {}
      /\ events # <<>> /\ Head(events)[1] = "grant" /\ events' = Tail(events)
      /\ leases' = leases \cup {r} /\ known' = known \cup {r}
      /\ UNCHANGED <<releasing, queue, users, resCrashes>>
  BY DEF RecordGrant, Idle, StepOK, Free, ResTypeOK
<1>2. \/ r \in reserved /\ demands' = demands /\ reserved' = reserved
      \/ r \notin reserved /\ Demanded(demands, r) /\ demands' = Without(demands, r)
         /\ reserved' = reserved \cup {r}
  BY DEF RecordGrant
<1>3. demands \in Seq(Demand) /\ queue \in Seq(Demand) /\ events \in Seq(Event)
      /\ users \in SUBSET ResRequests /\ reserved \in SUBSET ResRequests
  BY DEF ResTypeOK
<1>4. /\ events' \in Seq(Event) /\ Dropped(events, 1, events') /\ Head(events) = events[1]
      /\ 1 \in DOMAIN events
  BY <1>1, <1>3, TailDrops
<1>5. events[1] = GrantOf(r) /\ r \in ResRequests /\ GrantOf(r) \in ToSet(events)
  <2>1. events[1] \in Event
    BY <1>3, <1>4, LenProperties
  <2>2. events[1] \in {"grant"} \X ResRequests
    BY <1>1, <1>4, <2>1 DEF Event
  <2>3. events[1] = <<"grant", r>> /\ r \in ResRequests
    BY <1>4, <2>2
  <2> QED
    BY <1>4, <2>3 DEF GrantOf, ToSet
<1> HIDE DEF r
<1>6. /\ r \in users /\ Once(events, GrantOf(r)) /\ r \notin leases
  BY <1>5 DEF UsersOK
<1>7. /\ \A x : GrantOf(x) \in ToSet(events') <=> GrantOf(x) \in ToSet(events) /\ x # r
      /\ \A x, y : x # r /\ y # r =>
            (Before(events', GrantOf(x), GrantOf(y)) <=> Before(events, GrantOf(x), GrantOf(y)))
      /\ \A x : Once(events, GrantOf(x)) => Once(events', GrantOf(x))
  <2>1. /\ \A a : a # events[1] => (a \in ToSet(events') <=> a \in ToSet(events))
        /\ \A a, b : a # events[1] /\ b # events[1] => (Before(events', a, b) <=> Before(events, a, b))
        /\ \A v : Once(events, v) => Once(events', v)
        /\ Once(events, events[1]) => events[1] \notin ToSet(events')
    BY <1>3, <1>4, DropFacts
  <2>2. \A x : GrantOf(x) = GrantOf(r) <=> x = r
    BY DEF GrantOf
  <2> QED
    BY <1>5, <1>6, <2>1, <2>2
<1>8. Occurrences(events', ReleaseEvent) = Occurrences(events, ReleaseEvent)
  <2>1. events[1] # ReleaseEvent
    BY <1>5 DEF GrantOf, ReleaseEvent
  <2>2. Occurrences(events', ReleaseEvent)
           = Occurrences(events, ReleaseEvent) - (IF events[1] = ReleaseEvent THEN 1 ELSE 0)
    BY <1>3, <1>4, OccurrencesDrop
  <2>3. Occurrences(events, ReleaseEvent) \in Nat
    BY <1>3, OccurrencesType
  <2> QED
    BY <2>1, <2>2, <2>3
<1>9. /\ demands' \in Seq(Demand) /\ ToSet(demands') = {d \in ToSet(demands) : d.req # r}
      /\ \A a, b : Before(demands', a, b) => Before(demands, a, b)
      /\ \A v : Once(demands, v) => Once(demands', v)
      /\ reserved' = reserved \cup {r}
  <2>1. CASE r \in reserved /\ demands' = demands /\ reserved' = reserved
    BY <1>3, <2>1 DEF DurableOK
  <2>2. CASE Demanded(demands, r) /\ demands' = Without(demands, r) /\ reserved' = reserved \cup {r}
    <3>1. PICK d \in ToSet(demands) : d.req = r
      BY <2>2, DemandedBy
    <3>2. \A a, b \in ToSet(demands) : a.req = b.req => a = b
      BY DEF DurableOK
    <3>3. /\ demands' \in Seq(Demand) /\ ToSet(demands') = ToSet(demands) \ {d}
          /\ \A a, b : Before(demands', a, b) => Before(demands, a, b)
          /\ \A v : Once(demands, v) => Once(demands', v)
      <4>1. demands' = Without(demands, d.req) /\ Once(demands, d)
        BY <2>2, <3>1 DEF DurableOK
      <4> QED
        BY <1>3, <3>2, <4>1, WithoutFacts
    <3>4. ToSet(demands') = {e \in ToSet(demands) : e.req # r}
      BY <3>1, <3>2, <3>3
    <3> QED
      BY <2>2, <3>3, <3>4
  <2> QED
    BY <1>2, <2>1, <2>2
<1>10. \A d : d \in ToSet(demands') <=> d \in ToSet(demands) /\ d.req # r
  BY <1>9
<1>11. ResTypeOK'
  BY <1>1, <1>3, <1>4, <1>5, <1>9 DEF ResTypeOK
<1>12. DurableOK'
  <2>1. reserved' \subseteq users
    BY <1>1, <1>6, <1>9 DEF UsersOK
  <2>2. IsFiniteSet(reserved') /\ Cardinality(reserved') <= Cardinality(users)
    BY <2>1, FS_Subset DEF UsersOK
  <2>3. Cardinality(users) \in Nat /\ Cardinality(reserved') \in Nat
    BY <2>2, FS_CardinalityType DEF UsersOK
  <2>4. Cardinality(reserved') <= ResCapacity
    BY <2>2, <2>3, ResourceAssumption DEF UsersOK
  <2>5. \A a \in ToSet(demands') : Once(demands', a) /\ a.req \notin reserved'
    BY <1>9, <1>10 DEF DurableOK
  <2>6. ByPriority(demands')
    BY <1>9, <1>10 DEF DurableOK, ByPriority
  <2>7. \A a, b \in ToSet(demands') : a.req = b.req => a = b
    BY <1>10 DEF DurableOK
  <2>8. releasing' = {}
    BY <1>1
  <2> QED
    BY <2>2, <2>4, <2>5, <2>6, <2>7, <2>8 DEF DurableOK
<1>13. StepOK'
  BY <1>1 DEF StepOK, Free
<1>14. QueueOK(queue, users)'
  BY <1>1, <1>6, <1>10 DEF QueueOK
<1>15. UsersOK(users, events)'
  <2>1. \A x : x # r /\ Demanded(demands, x) => Demanded(demands', x)
    BY <1>10, DemandedBy
  <2>2. reserved' \subseteq users /\ leases' \subseteq reserved'
    BY <1>1, <1>6, <1>9 DEF UsersOK
  <2>3. \A x \in users : x \in reserved' \/ GrantOf(x) \in ToSet(events')
    BY <1>7, <1>9 DEF UsersOK
  <2>4. \A x \in ResRequests : GrantOf(x) \in ToSet(events') =>
           /\ x \in users /\ Once(events', GrantOf(x)) /\ x \notin leases'
           /\ x \in reserved' \/ Demanded(demands', x)
    BY <1>1, <1>7, <1>9, <2>1 DEF UsersOK
  <2> QED
    BY <1>1, <2>2, <2>3, <2>4 DEF UsersOK
<1>16. DemandsKnown(queue, events, resStep)'
  BY <1>1, <1>7, <1>10 DEF DemandsKnown
<1>17. Fair(queue, events, resStep)'
  BY <1>1, <1>7, <1>9, <1>10 DEF Fair
<1>18. NoneSpare(queue, users, events)'
  BY <1>1, <1>8 DEF NoneSpare
<1> QED
  BY <1>11, <1>12, <1>13, <1>14, <1>15, <1>16, <1>17, <1>18

\* The demand is deleted: the backend has forgotten it before.
LEMMA DeleteDemandInv ==
    ASSUME ResInv, NEW r \in ResRequests, DeleteDemand(r)
    PROVE  ResInv'
<1> USE DEF ResInv
<1>1. /\ resStep = <<"cancel", r>> /\ running = TRUE /\ running' = TRUE /\ releasing = {} /\ resStep' = Free
      /\ demands' = Without(demands, r)
      /\ UNCHANGED <<reserved, releasing, running, queue, users, events, leases, known, resCrashes>>
  BY DEF DeleteDemand, StepOK, Free, ResTypeOK, backend
<1>2. Demanded(demands, r) /\ ~Demanded(queue, r) /\ r \notin users
  BY <1>1 DEF StepOK
<1>3. PICK d \in ToSet(demands) : d.req = r
  BY <1>2, DemandedBy
<1>4. \A a, b \in ToSet(demands) : a.req = b.req => a = b
  BY DEF DurableOK
<1>5. /\ demands' \in Seq(Demand) /\ ToSet(demands') = ToSet(demands) \ {d}
      /\ \A a, b : Before(demands', a, b) => Before(demands, a, b)
      /\ \A v : Once(demands, v) => Once(demands', v)
  <2>1. demands' = Without(demands, d.req) /\ Once(demands, d) /\ demands \in Seq(Demand)
    BY <1>1, <1>3 DEF DurableOK, ResTypeOK
  <2> QED
    BY <1>4, <2>1, WithoutFacts
<1>6. \A a \in ToSet(demands') : a \in ToSet(demands) /\ a.req # r
  BY <1>3, <1>4, <1>5
<1>7. d \notin ToSet(queue) /\ GrantOf(r) \notin ToSet(events)
  BY <1>2, <1>3, DemandedBy DEF UsersOK
<1>8. ResTypeOK'
  BY <1>1, <1>5 DEF ResTypeOK
<1>9. DurableOK'
  <2>1. \A a \in ToSet(demands') : Once(demands', a) /\ a.req \notin reserved'
    BY <1>1, <1>5, <1>6 DEF DurableOK
  <2>2. ByPriority(demands')
    BY <1>5, <1>6 DEF DurableOK, ByPriority
  <2> QED
    BY <1>1, <1>4, <1>6, <2>1, <2>2 DEF DurableOK
<1>10. StepOK'
  BY <1>1 DEF StepOK, Free
<1>11. QueueOK(queue, users)'
  BY <1>1, <1>5, <1>7 DEF QueueOK
<1>12. UsersOK(users, events)'
  <2>1. \A x : x # r /\ Demanded(demands, x) => Demanded(demands', x)
    BY <1>3, <1>5, DemandedBy
  <2> QED
    BY <1>1, <1>7, <2>1 DEF UsersOK
<1>13. \A x : resStep # <<"submit", x>> /\ (resStep = <<"cancel", x>> => x = r)
  BY <1>1
<1>14. DemandsKnown(queue, events, resStep)'
  BY <1>1, <1>6, <1>13 DEF DemandsKnown
<1>15. Fair(queue, events, resStep)'
  BY <1>1, <1>5, <1>6, <1>13 DEF Fair
<1>16. NoneSpare(queue, users, events)'
  BY <1>1 DEF NoneSpare
<1> QED
  BY <1>8, <1>9, <1>10, <1>11, <1>12, <1>14, <1>15, <1>16

\* The backend forgets a request that waits, or takes its unit back and offers
\* it with a release event.
LEMMA CancelPendingInv ==
    ASSUME ResInv, NEW r \in ResRequests, CancelPending(r)
    PROVE  ResInv'
<1> USE DEF ResInv
<1>1. /\ resStep = Free /\ running = TRUE /\ running' = TRUE /\ releasing = {}
      /\ resStep' = <<"cancel", r>> /\ Demanded(demands, r)
      /\ UNCHANGED <<demands, reserved, releasing, running, leases, known, resCrashes>>
  BY DEF CancelPending, MayCallResource, Idle, StepOK, Free, ResTypeOK, resDurable
<1>2. demands \in Seq(Demand) /\ queue \in Seq(Demand) /\ events \in Seq(Event)
      /\ users \in SUBSET ResRequests
  BY DEF ResTypeOK
<1>3. PICK d \in ToSet(demands) : d.req = r
  BY <1>1, DemandedBy
<1>4. \A a, b \in ToSet(demands) : a.req = b.req => a = b
  BY DEF DurableOK
<1>5. DurableOK'
  BY <1>1 DEF DurableOK
<1>6. \A x : resStep # <<"cancel", x>> /\ resStep # <<"submit", x>>
  BY <1>1 DEF Free
<1>7. ASSUME queue' \in Seq(Demand), users' \in SUBSET ResRequests, events' \in Seq(Event)
      PROVE  ResTypeOK'
  BY <1>1, <1>7 DEF ResTypeOK, Steps
<1>8. ASSUME ~Demanded(queue', r), r \notin users'
      PROVE  StepOK'
  <2>1. \A x \in ResRequests :
           /\ resStep' # <<"release", x>>
           /\ resStep' \in {<<"submit", x>>, <<"cancel", x>>} =>
                 Demanded(demands', x) /\ ~Demanded(queue', x) /\ x \notin users'
    BY <1>1, <1>8
  <2>2. \A x : resStep' # <<"submit", x>>
    BY <1>1
  <2> QED
    BY <1>1, <2>1, <2>2 DEF StepOK
<1>9. CASE Demanded(queue, r) /\ queue' = Without(queue, r) /\ UNCHANGED <<users, events>>
  <2>1. d \in ToSet(queue) /\ Once(queue, d) /\ r \notin users
    BY <1>3, <1>4, <1>9, DemandedBy DEF QueueOK
  <2>2. \A a, b \in ToSet(queue) : a.req = b.req => a = b
    BY <1>4 DEF QueueOK
  <2>3. /\ queue' \in Seq(Demand) /\ ToSet(queue') = ToSet(queue) \ {d}
        /\ \A a, b : a # d /\ b # d => (Before(queue', a, b) <=> Before(queue, a, b))
        /\ \A a, b : Before(queue', a, b) => Before(queue, a, b)
        /\ \A v : Once(queue, v) => Once(queue', v)
    BY <1>2, <1>3, <1>9, <2>1, <2>2, WithoutFacts
  <2>4. ~Demanded(queue', r)
    BY <1>3, <2>1, <2>2, <2>3, DemandedBy
  <2>5. ResTypeOK' /\ StepOK'
    BY <1>2, <1>7, <1>8, <1>9, <2>1, <2>3, <2>4
  <2>6. QueueOK(queue, users)'
    BY <1>1, <1>9, <2>3 DEF QueueOK, ByPriority
  <2>7. UsersOK(users, events)'
    BY <1>1, <1>9 DEF UsersOK
  <2>8. DemandsKnown(queue, events, resStep)'
    BY <1>1, <1>3, <1>6, <1>9, <2>3 DEF DemandsKnown
  <2>9. Fair(queue, events, resStep)'
    BY <1>1, <1>6, <1>9, <2>3 DEF Fair
  <2>10. NoneSpare(queue, users, events)'
    <3>1. queue # <<>>
      BY <2>1 DEF ToSet
    <3> QED
      BY <1>9, <3>1 DEF NoneSpare
  <2> QED
    BY <1>5, <2>5, <2>6, <2>7, <2>8, <2>9, <2>10
<1>10. CASE /\ r \in users /\ users' = users \ {r} /\ queue' = queue
            /\ events' = Append(RemoveAt(events, CHOOSE i \in DOMAIN events : events[i] = <<"grant", r>>),
                                <<"release", "none">>)
  <2> DEFINE i == CHOOSE k \in DOMAIN events : events[k] = GrantOf(r)
             e == RemoveAt(events, i)
  <2>1. r \notin reserved /\ GrantOf(r) \in ToSet(events) /\ Once(events, GrantOf(r))
    BY <1>3, <1>10 DEF DurableOK, UsersOK
  <2>2. i \in DOMAIN events /\ events[i] = GrantOf(r)
    BY <2>1 DEF ToSet
  <2>3. events' = Append(e, ReleaseEvent)
    BY <1>10 DEF ReleaseEvent, GrantOf
  <2> HIDE DEF i
  <2>4. e \in Seq(Event) /\ Dropped(events, i, e)
    <3>1. i \in 1..Len(events)
      BY <1>2, <2>2, LenProperties
    <3> QED
      BY <1>2, <3>1, Removed DEF Dropped
  <2> HIDE DEF e
  <2>5. /\ \A a : a # events[i] => (a \in ToSet(e) <=> a \in ToSet(events))
        /\ \A a, b : a # events[i] /\ b # events[i] => (Before(e, a, b) <=> Before(events, a, b))
        /\ \A v : Once(events, v) => Once(e, v)
        /\ Once(events, events[i]) => events[i] \notin ToSet(e)
    BY <1>2, <2>2, <2>4, DropFacts
  <2>6. ReleaseEvent \in Event
    BY DEF ReleaseEvent, Event
  <2>7. /\ events' \in Seq(Event) /\ ToSet(events') = ToSet(e) \cup {ReleaseEvent}
        /\ \A a, b : Before(events', a, b) <=> Before(e, a, b) \/ (a \in ToSet(e) /\ b = ReleaseEvent)
        /\ \A a : a # ReleaseEvent /\ Once(e, a) => Once(events', a)
    BY <2>3, <2>4, <2>6, AppendFacts
  <2>8. \A x : GrantOf(x) # ReleaseEvent /\ (GrantOf(x) = GrantOf(r) <=> x = r)
    BY DEF GrantOf, ReleaseEvent
  <2>9. /\ \A x : GrantOf(x) \in ToSet(events') <=> GrantOf(x) \in ToSet(events) /\ x # r
        /\ \A x, y : x # r /\ y # r =>
              (Before(events', GrantOf(x), GrantOf(y)) <=> Before(events, GrantOf(x), GrantOf(y)))
        /\ \A x : Once(events, GrantOf(x)) => Once(events', GrantOf(x))
    BY <2>1, <2>2, <2>5, <2>7, <2>8
  <2>10. Occurrences(events', ReleaseEvent) = Occurrences(events, ReleaseEvent) + 1
    <3>1. Occurrences(e, ReleaseEvent)
             = Occurrences(events, ReleaseEvent) - (IF events[i] = ReleaseEvent THEN 1 ELSE 0)
      BY <1>2, <2>2, <2>4, OccurrencesDrop
    <3>2. Occurrences(events', ReleaseEvent)
             = Occurrences(e, ReleaseEvent) + (IF ReleaseEvent = ReleaseEvent THEN 1 ELSE 0)
      BY <2>3, <2>4, <2>6, OccurrencesAppend
    <3>3. Occurrences(events, ReleaseEvent) \in Nat
      BY <1>2, OccurrencesType
    <3> QED
      BY <2>2, <2>8, <3>1, <3>2, <3>3
  <2>11. /\ IsFiniteSet(users') /\ Cardinality(users') = Cardinality(users) - 1
         /\ Cardinality(users) \in Nat
    BY <1>10, FS_RemoveElement, FS_CardinalityType DEF UsersOK
  <2>12. ~Demanded(queue', r) /\ r \notin users'
    BY <1>10, DemandedBy DEF QueueOK
  <2>13. ResTypeOK' /\ StepOK'
    BY <1>2, <1>7, <1>8, <1>10, <2>7, <2>12
  <2>14. QueueOK(queue, users)'
    BY <1>1, <1>10 DEF QueueOK
  <2>15. UsersOK(users, events)'
    <3>1. Cardinality(users') <= ResCapacity
      BY <2>11, ResourceAssumption DEF UsersOK
    <3>2. reserved' \subseteq users' /\ leases' \subseteq reserved'
      BY <1>1, <1>10, <2>1 DEF UsersOK
    <3>3. \A x \in users' : x \in reserved' \/ GrantOf(x) \in ToSet(events')
      BY <1>1, <1>10, <2>9 DEF UsersOK
    <3>4. \A x \in ResRequests : GrantOf(x) \in ToSet(events') =>
             /\ x \in users' /\ Once(events', GrantOf(x)) /\ x \notin leases'
             /\ x \in reserved' \/ Demanded(demands', x)
      BY <1>1, <1>10, <2>9 DEF UsersOK
    <3> QED
      BY <2>11, <3>1, <3>2, <3>3, <3>4 DEF UsersOK
  <2>16. DemandsKnown(queue, events, resStep)'
    BY <1>1, <1>6, <1>10, <2>9 DEF DemandsKnown
  <2>17. Fair(queue, events, resStep)'
    BY <1>1, <1>6, <1>10, <2>9 DEF Fair
  <2>18. NoneSpare(queue, users, events)'
    <3>1. Occurrences(events, ReleaseEvent) \in Nat
      BY <1>2, OccurrencesType
    <3> QED
      BY <1>10, <2>10, <2>11, <3>1, ResourceAssumption DEF NoneSpare
  <2> QED
    BY <1>5, <2>13, <2>14, <2>15, <2>16, <2>17, <2>18
<1> QED
  BY <1>9, <1>10 DEF CancelPending

\* The intent to release is persisted; nothing else moves.
LEMMA ReleaseIntentInv ==
    ASSUME ResInv, NEW r \in ResRequests, ReleaseIntent(r)
    PROVE  ResInv'
<1> USE DEF ResInv
<1>1. /\ resStep = Free /\ running = TRUE /\ running' = TRUE /\ releasing = {} /\ r \in reserved
      /\ resStep' = <<"release", r>> /\ releasing' = {r}
      /\ UNCHANGED <<demands, reserved, running, queue, users, events, leases, known, resCrashes>>
  BY DEF ReleaseIntent, MayCallResource, Idle, StepOK, Free, ResTypeOK, backend
<1>2. ResTypeOK'
  BY <1>1 DEF ResTypeOK, Steps
<1>3. DurableOK'
  BY <1>1 DEF DurableOK
<1>4. \A x : /\ resStep' # <<"cancel", x>> /\ resStep' # <<"submit", x>>
             /\ resStep # <<"cancel", x>> /\ resStep # <<"submit", x>>
  BY <1>1 DEF Free
<1>5. StepOK'
  BY <1>1, <1>4 DEF StepOK
<1>6. QueueOK(queue, users)' /\ UsersOK(users, events)'
  BY <1>1 DEF QueueOK, UsersOK
<1>7. DemandsKnown(queue, events, resStep)'
  BY <1>1, <1>4 DEF DemandsKnown
<1>8. Fair(queue, events, resStep)'
  BY <1>1, <1>4 DEF Fair
<1>9. NoneSpare(queue, users, events)'
  BY <1>1 DEF NoneSpare
<1> QED
  BY <1>2, <1>3, <1>5, <1>6, <1>7, <1>8, <1>9

\* The unit is given up and offered with a release event.
LEMMA FinalizeReleaseInv ==
    ASSUME ResInv, NEW r \in ResRequests, FinalizeRelease(r)
    PROVE  ResInv'
<1> USE DEF ResInv
<1>1. /\ resStep = <<"release", r>> /\ running = TRUE /\ running' = TRUE /\ releasing = {r} /\ r \in leases
      /\ resStep' = Free /\ releasing' = {} /\ reserved' = reserved \ {r} /\ leases' = leases \ {r}
      /\ users' = users \ {r} /\ events' = Append(events, ReleaseEvent) /\ known' = known \ {r}
      /\ UNCHANGED <<demands, running, queue, resCrashes>>
  BY DEF FinalizeRelease, StepOK, Free, ResTypeOK, ReleaseEvent
<1>2. demands \in Seq(Demand) /\ queue \in Seq(Demand) /\ events \in Seq(Event)
      /\ users \in SUBSET ResRequests
  BY DEF ResTypeOK
<1>3. ReleaseEvent \in Event
  BY DEF ReleaseEvent, Event
<1>4. /\ events' \in Seq(Event) /\ ToSet(events') = ToSet(events) \cup {ReleaseEvent}
      /\ \A a, b : Before(events', a, b) <=> Before(events, a, b) \/ (a \in ToSet(events) /\ b = ReleaseEvent)
      /\ \A a : a # ReleaseEvent /\ Once(events, a) => Once(events', a)
  BY <1>1, <1>2, <1>3, AppendFacts
<1>5. \A x : GrantOf(x) # ReleaseEvent
  BY DEF GrantOf, ReleaseEvent
<1>6. /\ \A x : GrantOf(x) \in ToSet(events') <=> GrantOf(x) \in ToSet(events)
      /\ \A x, y : Before(events, GrantOf(x), GrantOf(y)) => Before(events', GrantOf(x), GrantOf(y))
      /\ \A x : Once(events, GrantOf(x)) => Once(events', GrantOf(x))
  BY <1>4, <1>5
<1>7. r \in reserved /\ r \in users /\ GrantOf(r) \notin ToSet(events)
  BY <1>1 DEF UsersOK
<1>8. Occurrences(events', ReleaseEvent) = Occurrences(events, ReleaseEvent) + 1
      /\ Occurrences(events, ReleaseEvent) \in Nat
  <2>1. Occurrences(events', ReleaseEvent)
           = Occurrences(events, ReleaseEvent) + (IF ReleaseEvent = ReleaseEvent THEN 1 ELSE 0)
    BY <1>1, <1>2, <1>3, OccurrencesAppend
  <2>2. Occurrences(events, ReleaseEvent) \in Nat
    BY <1>2, OccurrencesType
  <2> QED
    BY <2>1, <2>2
<1>9. IsFiniteSet(users') /\ Cardinality(users') = Cardinality(users) - 1 /\ Cardinality(users) \in Nat
  BY <1>1, <1>7, FS_RemoveElement, FS_CardinalityType DEF UsersOK
<1>10. IsFiniteSet(reserved') /\ Cardinality(reserved') = Cardinality(reserved) - 1
       /\ Cardinality(reserved) \in Nat
  BY <1>1, <1>7, FS_RemoveElement, FS_CardinalityType DEF DurableOK
<1>11. ResTypeOK'
  BY <1>1, <1>4 DEF ResTypeOK
<1>12. DurableOK'
  <2>1. Cardinality(reserved') <= ResCapacity
    BY <1>10, ResourceAssumption DEF DurableOK
  <2> QED
    BY <1>1, <1>10, <2>1 DEF DurableOK
<1>13. \A x : /\ resStep # <<"cancel", x>> /\ resStep # <<"submit", x>>
              /\ resStep' # <<"cancel", x>> /\ resStep' # <<"submit", x>> /\ resStep' # <<"release", x>>
  BY <1>1 DEF Free
<1>14. StepOK'
  BY <1>1, <1>13 DEF StepOK
<1>15. QueueOK(queue, users)'
  BY <1>1 DEF QueueOK
<1>16. UsersOK(users, events)'
  <2>1. Cardinality(users') <= ResCapacity
    BY <1>9, ResourceAssumption DEF UsersOK
  <2>2. reserved' \subseteq users' /\ leases' \subseteq reserved'
    BY <1>1 DEF UsersOK
  <2>3. \A x \in users' : x \in reserved' \/ GrantOf(x) \in ToSet(events')
    BY <1>1, <1>6 DEF UsersOK
  <2>4. \A x \in ResRequests : GrantOf(x) \in ToSet(events') =>
           /\ x \in users' /\ Once(events', GrantOf(x)) /\ x \notin leases'
           /\ x \in reserved' \/ Demanded(demands', x)
    BY <1>1, <1>6, <1>7 DEF UsersOK
  <2> QED
    BY <1>9, <2>1, <2>2, <2>3, <2>4 DEF UsersOK
<1>17. DemandsKnown(queue, events, resStep)'
  BY <1>1, <1>6, <1>13 DEF DemandsKnown
<1>18. Fair(queue, events, resStep)'
  BY <1>1, <1>6, <1>13 DEF Fair
<1>19. NoneSpare(queue, users, events)'
  BY <1>1, <1>8, <1>9, ResourceAssumption DEF NoneSpare
<1> QED
  BY <1>11, <1>12, <1>14, <1>15, <1>16, <1>17, <1>18, <1>19

\* The process is gone, with all that it only had in memory.
LEMMA DeadInv ==
    ASSUME ResInv, Dead, resCrashes' \in 0..ResMaxCrashes
    PROVE  ResInv'
<1> USE DEF ResInv
<1>1. /\ running' = FALSE /\ resStep' = Free /\ queue' = <<>> /\ users' = {} /\ events' = <<>>
      /\ leases' = {} /\ known' = {} /\ UNCHANGED <<demands, reserved, releasing>>
  BY DEF Dead, resDurable
<1>2. ToSet(<<>>) = {} /\ <<>> \in Seq(Demand) /\ <<>> \in Seq(Event)
  BY DEF ToSet
<1>3. IsFiniteSet({}) /\ Cardinality({}) = 0
  BY FS_EmptySet
<1>4. ResTypeOK'
  BY <1>1, <1>2 DEF ResTypeOK
<1>5. DurableOK'
  BY <1>1 DEF DurableOK
<1>6. StepOK'
  BY <1>1 DEF StepOK, Free
<1>7. QueueOK(queue, users)' /\ UsersOK(users, events)'
  BY <1>1, <1>2, <1>3, ResourceAssumption DEF QueueOK, UsersOK, ByPriority
<1>8. DemandsKnown(queue, events, resStep)' /\ Fair(queue, events, resStep)'
      /\ NoneSpare(queue, users, events)'
  BY <1>1, <1>2 DEF DemandsKnown, Fair, NoneSpare
<1> QED
  BY <1>4, <1>5, <1>6, <1>7, <1>8

\* An interrupted release is completed while no process runs.
LEMMA FinalizeInterruptedInv ==
    ASSUME ResInv, NEW r \in ResRequests, FinalizeInterrupted(r)
    PROVE  ResInv'
<1> USE DEF ResInv
<1>1. /\ running = FALSE /\ resStep = Free /\ queue = <<>> /\ users = {} /\ events = <<>> /\ leases = {}
      /\ reserved' = reserved \ {r} /\ releasing' = releasing \ {r} /\ r \in releasing
      /\ UNCHANGED <<demands, running, resStep, queue, users, events, leases, known, resCrashes>>
  BY DEF FinalizeInterrupted, StepOK, ResTypeOK, backend
<1>2. ToSet(<<>>) = {}
  BY DEF ToSet
<1>3. IsFiniteSet(reserved') /\ Cardinality(reserved') = Cardinality(reserved) - 1
      /\ Cardinality(reserved) \in Nat
  BY <1>1, FS_RemoveElement, FS_CardinalityType DEF DurableOK
<1>4. ResTypeOK'
  BY <1>1 DEF ResTypeOK
<1>5. DurableOK'
  <2>1. Cardinality(reserved') <= ResCapacity
    BY <1>3, ResourceAssumption DEF DurableOK
  <2> QED
    BY <1>1, <1>3, <2>1 DEF DurableOK
<1>6. StepOK'
  BY <1>1 DEF StepOK, Free
<1>7. QueueOK(queue, users)' /\ UsersOK(users, events)'
  BY <1>1, <1>2 DEF QueueOK, UsersOK, ByPriority
<1>8. DemandsKnown(queue, events, resStep)' /\ Fair(queue, events, resStep)'
      /\ NoneSpare(queue, users, events)'
  BY <1>1, <1>2 DEF DemandsKnown, Fair, NoneSpare
<1> QED
  BY <1>4, <1>5, <1>6, <1>7, <1>8

-----------------------------------------------------------------------------
\* A finite set is listed without repetition.
LEMMA Listed ==
    ASSUME NEW S, IsFiniteSet(S)
    PROVE  /\ SetToSeq(S) \in Seq(S) /\ Len(SetToSeq(S)) = Cardinality(S)
           /\ \A i, j \in 1..Cardinality(S) : SetToSeq(S)[i] = SetToSeq(S)[j] => i = j
<1> DEFINE n == Cardinality(S)
           f == SetToSeq(S)
<1>1. n \in Nat /\ ExistsBijection(1..n, S)
  BY FS_CardinalityType
<1>2. \E g \in [1..n -> S] : IsInjective(g)
  BY <1>1 DEF ExistsBijection, Bijection, Injection
<1>3. f \in [1..n -> S] /\ IsInjective(f)
  BY <1>2 DEF SetToSeq
<1> HIDE DEF f, n
<1>4. f \in Seq(S) /\ Len(f) = n
  BY <1>1, <1>3
<1>5. \A i, j \in 1..n : f[i] = f[j] => i = j
  BY <1>3 DEF IsInjective
<1> QED
  BY <1>4, <1>5 DEF f, n

\* What a rebuild leaves in the backend: after the m restored owners, the first
\* k demands are granted and the others wait.
LEMMA Rebuilt ==
    ASSUME ResInv, Rebuild
    PROVE  \E m \in Nat, k \in 0..Len(demands), own \in Seq(reserved) :
           /\ Len(own) = m /\ m = Cardinality(reserved)
           /\ \A i, j \in 1..m : own[i] = own[j] => i = j
           /\ m + k <= ResCapacity /\ (k < Len(demands) => m + k = ResCapacity)
           /\ users' = reserved \cup {demands[i].req : i \in 1..k}
           /\ queue' \in Seq(Demand) /\ Len(queue') = Len(demands) - k
           /\ \A i \in 1..Len(demands) - k : queue'[i] = demands[k + i]
           /\ events' \in Seq(Event) /\ Len(events') = m + k
           /\ \A i \in 1..m : events'[i] = GrantOf(own[i])
           /\ \A i \in 1..k : events'[m + i] = GrantOf(demands[i].req)
<1> USE DEF ResInv, ResourceAssumption
<1> DEFINE own == SetToSeq(reserved)
           m == Cardinality(reserved)
           n == Len(demands)
           k == IF n < ResCapacity - m THEN n ELSE ResCapacity - m
           first == SubSeq(demands, 1, k)
           E1 == [i \in 1..Len(own) |-> <<"grant", own[i]>>]
           E2 == [i \in DOMAIN first |-> <<"grant", first[i].req>>]
<1>1. demands \in Seq(Demand) /\ n \in Nat /\ DOMAIN demands = 1..n
      /\ IsFiniteSet(reserved) /\ m \in Nat /\ m <= ResCapacity /\ reserved \subseteq ResRequests
  BY LenProperties, FS_CardinalityType DEF ResTypeOK, DurableOK
<1>2. own \in Seq(reserved) /\ Len(own) = m /\ \A i, j \in 1..m : own[i] = own[j] => i = j
  BY <1>1, Listed
<1>3. /\ users' = reserved \cup {first[i].req : i \in DOMAIN first}
      /\ queue' = SubSeq(demands, Len(first) + 1, n)
      /\ events' = E1 \o E2
  BY DEF Rebuild
<1>4. k \in 0..n /\ m + k <= ResCapacity /\ (k < n => m + k = ResCapacity)
  BY <1>1, ResourceAssumption
<1> HIDE DEF own, m, n, k
<1>5. first \in Seq(Demand) /\ Len(first) = k /\ DOMAIN first = 1..k
      /\ \A i \in 1..k : first[i] = demands[i]
  <2>1. 1..k \subseteq 1..n
    BY <1>1, <1>4
  <2> QED
    BY <1>1, <1>4, <2>1 DEF n
<1> HIDE DEF first
<1>6. queue' \in Seq(Demand) /\ Len(queue') = n - k
      /\ \A i \in 1..n - k : queue'[i] = demands[k + i]
  <2>1. queue' = SubSeq(demands, k + 1, Len(demands)) /\ k \in 0..Len(demands)
    BY <1>3, <1>4, <1>5 DEF n
  <2> QED
    BY <1>1, <2>1, Rest DEF n
<1>7. users' = reserved \cup {demands[i].req : i \in 1..k}
  BY <1>3, <1>5
<1>8. E1 \in Seq(Event) /\ Len(E1) = m /\ \A i \in 1..m : E1[i] = GrantOf(own[i])
  <2>1. \A i \in 1..m : <<"grant", own[i]>> \in Event
    BY <1>1, <1>2 DEF Event
  <2>2. E1 \in [1..m -> Event]
    BY <1>2, <2>1
  <2> QED
    BY <1>1, <1>2, <2>2 DEF GrantOf
<1>9. E2 \in Seq(Event) /\ Len(E2) = k /\ \A i \in 1..k : E2[i] = GrantOf(demands[i].req)
  <2>1. \A i \in 1..k : first[i].req = demands[i].req /\ first[i].req \in ResRequests
    <3>1. \A i \in 1..k : first[i] \in Demand
      BY <1>5
    <3> QED
      BY <1>5, <3>1 DEF Demand
  <2>2. \A i \in 1..k : <<"grant", first[i].req>> \in Event
    BY <2>1 DEF Event
  <2>3. E2 \in [1..k -> Event]
    BY <1>5, <2>2
  <2> QED
    BY <1>4, <1>5, <2>1, <2>3 DEF GrantOf
<1> HIDE DEF E1, E2
<1>10. /\ events' \in Seq(Event) /\ Len(events') = m + k
       /\ \A i \in 1..m + k : events'[i] = IF i <= m THEN E1[i] ELSE E2[i - m]
  BY <1>3, <1>8, <1>9, ConcatProperties
<1>11. \A i \in 1..m : events'[i] = GrantOf(own[i])
  BY <1>1, <1>4, <1>8, <1>10
<1>12. \A i \in 1..k : events'[m + i] = GrantOf(demands[i].req)
  <2> SUFFICES ASSUME NEW i \in 1..k PROVE events'[m + i] = GrantOf(demands[i].req)
    OBVIOUS
  <2>1. m + i \in 1..m + k /\ ~(m + i <= m) /\ (m + i) - m = i
    BY <1>1, <1>4
  <2>2. events'[m + i] = E2[i]
    BY <1>10, <2>1
  <2> QED
    BY <1>9, <2>2
<1>13. k \in 0..Len(demands) /\ m = Cardinality(reserved) /\ n = Len(demands)
  BY <1>4 DEF n, m
<1> QED
  BY <1>1, <1>2, <1>4, <1>6, <1>7, <1>10, <1>11, <1>12, <1>13

\* A rebuild restores the owners first and then serves the demands in order.
LEMMA RebuildInv ==
    ASSUME ResInv, Rebuild
    PROVE  ResInv'
<1> USE DEF ResInv
<1>1. /\ resStep' = Free /\ releasing = {} /\ running' = TRUE /\ leases' = {}
      /\ UNCHANGED <<demands, reserved, releasing, known, resCrashes>>
  BY DEF Rebuild, resDurable
<1>2. PICK m \in Nat, k \in 0..Len(demands), own \in Seq(reserved) :
           /\ Len(own) = m /\ m = Cardinality(reserved)
           /\ \A i, j \in 1..m : own[i] = own[j] => i = j
           /\ m + k <= ResCapacity /\ (k < Len(demands) => m + k = ResCapacity)
           /\ users' = reserved \cup {demands[i].req : i \in 1..k}
           /\ queue' \in Seq(Demand) /\ Len(queue') = Len(demands) - k
           /\ \A i \in 1..Len(demands) - k : queue'[i] = demands[k + i]
           /\ events' \in Seq(Event) /\ Len(events') = m + k
           /\ \A i \in 1..m : events'[i] = GrantOf(own[i])
           /\ \A i \in 1..k : events'[m + i] = GrantOf(demands[i].req)
  BY Rebuilt
<1> DEFINE n == Len(demands)
           D == {demands[i].req : i \in 1..k}
<1>3. demands \in Seq(Demand) /\ n \in Nat /\ k \in Nat /\ k <= n /\ DOMAIN demands = 1..n
      /\ DOMAIN queue' = 1..n - k /\ DOMAIN events' = 1..m + k
      /\ \A i \in 1..m : own[i] \in reserved
  BY <1>2, LenProperties DEF ResTypeOK
<1>4. \A i \in 1..n : demands[i].req \in ResRequests /\ demands[i].req \notin reserved
      /\ demands[i] \in ToSet(demands)
  <2>1. \A i \in 1..n : demands[i] \in ToSet(demands)
    BY <1>3 DEF ToSet
  <2> QED
    BY <1>3, <2>1, Elements DEF DurableOK
<1>5. \A i, j \in 1..n : demands[i].req = demands[j].req => i = j
  <2>1. \A i, j \in 1..n : demands[i].req = demands[j].req => demands[i] = demands[j]
    BY <1>4 DEF DurableOK
  <2>2. \A i, j \in 1..n : demands[i] = demands[j] => i = j
    BY <1>3, <1>4 DEF DurableOK, Once
  <2> QED
    BY <2>1, <2>2
<1> HIDE DEF n
<1>6. n = Len(demands)
  BY DEF n
<1>7. \A x : x \in D <=> \E i \in 1..k : demands[i].req = x
  OBVIOUS
\* The units that are taken.
<1>8. users' = reserved \cup D /\ IsFiniteSet(users') /\ Cardinality(users') = m + k
  <2> DEFINE f == [i \in 1..k |-> demands[i].req]
  <2>1. f \in Bijection(1..k, D)
    <3>1. 1..k \subseteq 1..n
      BY <1>3
    <3>2. f \in [1..k -> D]
      BY <1>7
    <3>3. \A i, j \in 1..k : f[i] = f[j] => i = j
      BY <1>5, <3>1
    <3>4. \A x \in D : \E i \in 1..k : f[i] = x
      BY <1>7
    <3> HIDE DEF f, D
    <3> QED
      BY <3>2, <3>3, <3>4, Fun_IsBij
  <2>2. IsFiniteSet(1..k) /\ Cardinality(1..k) = k
    BY <1>3, FS_Interval
  <2>3. IsFiniteSet(D) /\ Cardinality(D) = k
    <3> HIDE DEF f, D
    <3> QED
      BY <2>1, <2>2, FS_Bijection DEF ExistsBijection
  <2>4. reserved \cap D = {}
    <3>1. \A i \in 1..k : demands[i].req \notin reserved
      BY <1>3, <1>4
    <3> QED
      BY <3>1
  <2>5. users' = reserved \cup D
    BY <1>2
  <2> HIDE DEF D, f
  <2>6. IsFiniteSet(reserved \cup D)
        /\ Cardinality(reserved \cup D) = Cardinality(reserved) + Cardinality(D) - Cardinality(reserved \cap D)
    BY <2>3, FS_Union DEF DurableOK
  <2>7. Cardinality({}) = 0
    BY FS_EmptySet
  <2> QED
    <3>1. m = Cardinality(reserved)
      BY <1>2
    <3>2. Cardinality(reserved \cap D) = 0
      BY <2>4, <2>7
    <3>3. Cardinality(reserved \cup D) = m + k
      BY <1>3, <2>3, <2>6, <3>1, <3>2
    <3> QED
      BY <2>5, <2>6, <3>3
<1> HIDE DEF D
\* Who waits, and who has been granted.
<1>9. \A a : a \in ToSet(queue') <=> \E i \in k + 1..n : a = demands[i]
  <2>1. \A i \in 1..n - k : k + i \in k + 1..n /\ queue'[i] = demands[k + i]
    BY <1>2, <1>3, <1>6
  <2>2. \A i \in k + 1..n : i - k \in 1..n - k /\ queue'[i - k] = demands[i]
    <3> TAKE i \in k + 1..n
    <3>1. i - k \in 1..n - k /\ k + (i - k) = i
      BY <1>3
    <3> QED
      BY <2>1, <3>1
  <2> QED
    BY <1>3, <2>1, <2>2 DEF ToSet
<1>10. \A x : GrantOf(x) \in ToSet(events') <=> (\E i \in 1..m : own[i] = x) \/ x \in D
  <2>1. \A x, y : GrantOf(x) = GrantOf(y) <=> x = y
    BY DEF GrantOf
  <2>2. /\ \A i \in 1..m : i \in 1..m + k
        /\ \A i \in 1..k : m + i \in 1..m + k
        /\ \A j \in 1..m + k : j \in 1..m \/ \E i \in 1..k : j = m + i
    <3>1. \A j \in 1..m + k : j \in 1..m \/ (j - m \in 1..k /\ j = m + (j - m))
      BY <1>3
    <3> QED
      BY <1>3, <3>1
  <2>3. /\ \A i \in 1..m : events'[i] = GrantOf(own[i])
        /\ \A i \in 1..k : events'[m + i] = GrantOf(demands[i].req)
    BY <1>2
  <2>4. \A x : GrantOf(x) \in ToSet(events') <=> \E j \in 1..m + k : events'[j] = GrantOf(x)
    BY <1>3 DEF ToSet
  <2>5. ASSUME NEW x, GrantOf(x) \in ToSet(events')
        PROVE  (\E i \in 1..m : own[i] = x) \/ x \in D
    <3>1. PICK j \in 1..m + k : events'[j] = GrantOf(x)
      BY <2>4, <2>5
    <3>2. CASE j \in 1..m
      BY <2>1, <2>3, <3>1, <3>2
    <3>3. CASE \E i \in 1..k : j = m + i
      <4>1. PICK i \in 1..k : j = m + i
        BY <3>3
      <4>2. demands[i].req = x
        BY <2>1, <2>3, <3>1, <4>1
      <4> QED
        BY <1>7, <4>2
    <3> QED
      BY <2>2, <3>2, <3>3
  <2>6. ASSUME NEW x, (\E i \in 1..m : own[i] = x) \/ x \in D
        PROVE  GrantOf(x) \in ToSet(events')
    <3>1. CASE \E i \in 1..m : own[i] = x
      BY <2>2, <2>3, <2>4, <3>1
    <3>2. CASE x \in D
      <4>1. PICK i \in 1..k : demands[i].req = x
        BY <1>7, <3>2
      <4>2. m + i \in 1..m + k /\ events'[m + i] = GrantOf(x)
        BY <2>2, <2>3, <4>1
      <4> QED
        BY <2>4, <4>2
    <3> QED
      BY <2>6, <3>1, <3>2
  <2> QED
    BY <2>5, <2>6
<1>11. ResTypeOK'
  <2>1. users' \subseteq ResRequests
    <3>1. \A i \in 1..k : demands[i].req \in ResRequests
      BY <1>3, <1>4
    <3> QED
      BY <1>7, <1>8, <3>1 DEF ResTypeOK
  <2> QED
    BY <1>1, <1>2, <2>1 DEF ResTypeOK
<1>12. DurableOK'
  BY <1>1 DEF DurableOK
<1>13. StepOK'
  BY <1>1 DEF StepOK, Free
<1>14. \A a \in ToSet(queue') : a \in ToSet(demands) /\ a.req \notin users'
  <2> TAKE a \in ToSet(queue')
  <2>1. PICK i \in k + 1..n : a = demands[i]
    BY <1>9
  <2>2. i \in 1..n /\ \A j \in 1..k : j \in 1..n /\ j # i
    BY <1>3
  <2>3. a.req \notin D
    BY <1>5, <1>7, <2>1, <2>2
  <2> QED
    BY <1>4, <1>8, <2>1, <2>2, <2>3
\* Positions in the queue are positions among the demands, k further.
<1>15. /\ \A i, j \in 1..n - k : queue'[i] = queue'[j] => i = j
       /\ \A i, j \in 1..n - k : i < j => Before(demands, queue'[i], queue'[j])
       /\ \A i, j \in k + 1..n : i < j => Before(queue', demands[i], demands[j])
  <2>1. \A i \in 1..n - k : k + i \in 1..n /\ queue'[i] = demands[k + i]
    BY <1>2, <1>3, <1>6
  <2>2. \A i \in k + 1..n : i - k \in 1..n - k /\ queue'[i - k] = demands[i]
    <3> TAKE i \in k + 1..n
    <3>1. i - k \in 1..n - k /\ k + (i - k) = i
      BY <1>3
    <3> QED
      BY <2>1, <3>1
  <2>3. \A i, j \in 1..n - k : (k + i = k + j => i = j) /\ (i < j => k + i < k + j)
    BY <1>3
  <2>4. \A i, j \in k + 1..n : i < j => i - k < j - k
    BY <1>3
  <2>5. \A i, j \in 1..n - k : queue'[i] = queue'[j] => i = j
    BY <1>5, <2>1, <2>3
  <2>6. \A i, j \in 1..n - k : i < j => Before(demands, queue'[i], queue'[j])
    BY <1>3, <2>1, <2>3 DEF Before
  <2>7. \A i, j \in k + 1..n : i < j => Before(queue', demands[i], demands[j])
    BY <1>3, <2>2, <2>4 DEF Before
  <2> QED
    BY <2>5, <2>6, <2>7
<1>16. QueueOK(queue, users)'
  <2>1. \A a \in ToSet(queue') : Once(queue', a)
    BY <1>3, <1>15 DEF Once
  <2>2. \A a, b : Before(queue', a, b) => Before(demands, a, b)
    BY <1>3, <1>15 DEF Before
  <2>3. ByPriority(queue')
    BY <1>14, <2>2 DEF ByPriority, DurableOK
  <2> QED
    BY <1>1, <1>14, <2>1, <2>3 DEF QueueOK
<1>17. \A i, j \in DOMAIN events' : events'[i] = events'[j] => i = j
  <2> SUFFICES ASSUME NEW i \in 1..m + k, NEW j \in 1..m + k, events'[i] = events'[j], i <= j
               PROVE  i = j
    BY <1>3
  <2>1. \A x, y : GrantOf(x) = GrantOf(y) <=> x = y
    BY DEF GrantOf
  <2>2. \A h \in 1..m + k : h > m =>
           h - m \in 1..k /\ h - m \in 1..n /\ events'[h] = GrantOf(demands[h - m].req)
    <3> TAKE h \in 1..m + k
    <3> HAVE h > m
    <3>1. h - m \in 1..k /\ h - m \in 1..n /\ m + (h - m) = h
      BY <1>3
    <3> QED
      BY <1>2, <3>1
  <2>3. CASE j <= m
    <3>1. i \in 1..m /\ j \in 1..m
      BY <1>3, <2>3
    <3>2. own[i] = own[j]
      BY <1>2, <2>1, <3>1
    <3> QED
      BY <1>2, <3>1, <3>2
  <2>4. CASE i > m
    <3>1. j > m
      BY <2>4
    <3>2. demands[i - m].req = demands[j - m].req /\ i - m \in 1..n /\ j - m \in 1..n
      BY <2>1, <2>2, <2>4, <3>1
    <3>3. i - m = j - m
      BY <1>5, <3>2
    <3> QED
      BY <1>3, <3>3
  <2>5. CASE i <= m /\ j > m
    <3>1. i \in 1..m
      BY <1>3, <2>5
    <3>2. own[i] = demands[j - m].req /\ j - m \in 1..n
      BY <1>2, <2>1, <2>2, <2>5, <3>1
    <3>3. own[i] \in reserved
      BY <1>3, <3>1
    <3> QED
      BY <1>4, <3>2, <3>3
  <2> QED
    BY <1>3, <2>3, <2>4, <2>5
<1>18. \A x \in D : Demanded(demands, x) /\ x \notin reserved
  <2> TAKE x \in D
  <2>1. PICK i \in 1..k : demands[i].req = x
    BY <1>7
  <2>2. i \in 1..n
    BY <1>3
  <2> QED
    BY <1>3, <1>4, <2>1, <2>2 DEF Demanded
<1>19. UsersOK(users, events)'
  <2>1. Cardinality(users') <= ResCapacity
    BY <1>2, <1>8
  <2>2. \A x \in users' : x \in reserved' \/ GrantOf(x) \in ToSet(events')
    BY <1>1, <1>8, <1>10
  <2>3. \A x \in ResRequests : GrantOf(x) \in ToSet(events') =>
           /\ x \in users' /\ Once(events', GrantOf(x)) /\ x \notin leases'
           /\ x \in reserved' \/ Demanded(demands', x)
    <3>1. \A x : Once(events', x)
      BY <1>17 DEF Once
    <3> QED
      BY <1>1, <1>3, <1>8, <1>10, <1>18, <3>1
  <2>4. reserved' \subseteq users' /\ leases' \subseteq reserved'
    BY <1>1, <1>8
  <2> QED
    BY <1>8, <2>1, <2>2, <2>3, <2>4 DEF UsersOK
<1>20. \A i \in 1..n : i \in 1..k \/ i \in k + 1..n
  BY <1>3
<1>21. DemandsKnown(queue, events, resStep)'
  <2> SUFFICES ASSUME NEW d \in ToSet(demands)
               PROVE  d \in ToSet(queue') \/ GrantOf(d.req) \in ToSet(events')
    BY <1>1 DEF DemandsKnown
  <2>1. PICK i \in 1..n : demands[i] = d
    BY <1>3 DEF ToSet
  <2> QED
    BY <1>7, <1>9, <1>10, <1>20, <2>1
<1>22. Fair(queue, events, resStep)'
  <2> SUFFICES ASSUME NEW a \in ToSet(demands), NEW b \in ToSet(demands), Before(demands, a, b)
               PROVE  /\ a \in ToSet(queue') /\ b \in ToSet(queue') => Before(queue', a, b)
                      /\ GrantOf(b.req) \in ToSet(events') =>
                            Before(events', GrantOf(a.req), GrantOf(b.req))
    BY <1>1 DEF Fair
  <2>1. PICK i, j \in 1..n : i < j /\ demands[i] = a /\ demands[j] = b
    BY <1>3 DEF Before
  <2>2. a \in ToSet(queue') /\ b \in ToSet(queue') => Before(queue', a, b)
    <3>1. ASSUME a \in ToSet(queue') PROVE i \in k + 1..n
      <4>1. PICK h \in k + 1..n : demands[h] = a
        BY <1>9, <3>1
      <4>2. h \in 1..n
        BY <1>3
      <4> QED
        BY <1>5, <2>1, <4>1, <4>2
    <3>2. i \in k + 1..n => j \in k + 1..n
      BY <1>3, <2>1
    <3> QED
      BY <1>15, <2>1, <3>1, <3>2
  <2>3. ASSUME GrantOf(b.req) \in ToSet(events')
        PROVE  Before(events', GrantOf(a.req), GrantOf(b.req))
    <3>1. b.req \in D
      BY <1>3, <1>4, <1>10, <2>1, <2>3
    <3>2. PICK h \in 1..k : demands[h].req = b.req
      BY <1>7, <3>1
    <3>3. h = j
      <4>1. h \in 1..n
        BY <1>3
      <4> QED
        BY <1>5, <2>1, <3>2, <4>1
    <3>4. i \in 1..k /\ j \in 1..k
      BY <1>3, <2>1, <3>3
    <3>5. m + i \in 1..m + k /\ m + j \in 1..m + k /\ m + i < m + j
      BY <1>3, <2>1, <3>4
    <3>6. events'[m + i] = GrantOf(a.req) /\ events'[m + j] = GrantOf(b.req)
      BY <1>2, <2>1, <3>4
    <3> QED
      BY <1>3, <3>5, <3>6 DEF Before
  <2> QED
    BY <2>2, <2>3
<1>23. NoneSpare(queue, users, events)'
  <2>1. queue' # <<>> => k < n
    BY <1>2, <1>3, <1>6, EmptySeq
  <2>2. Occurrences(events', ReleaseEvent) \in Nat
    BY <1>2, OccurrencesType
  <2> QED
    BY <1>2, <1>3, <1>6, <1>8, <2>1, <2>2 DEF NoneSpare
<1> QED
  BY <1>11, <1>12, <1>13, <1>16, <1>19, <1>21, <1>22, <1>23

LEMMA NextInv == ResInv /\ [ResNext]_resVars => ResInv'
<1> SUFFICES ASSUME ResInv, [ResNext]_resVars PROVE ResInv'
  OBVIOUS
<1>1. CASE \E r \in ResRequests, p \in ResPriorities : Request(r, p)
  BY <1>1, RequestInv
<1>2. CASE ProcessRelease
  BY <1>2, ProcessReleaseInv
<1>3. CASE RecordGrant
  BY <1>3, RecordGrantInv
<1>4. ASSUME NEW r \in ResRequests, SubmitDemand(r) \/ DeleteDemand(r)
      PROVE  ResInv'
  BY <1>4, SubmitInv, DeleteDemandInv
<1>5. ASSUME NEW r \in ResRequests,
             CancelPending(r) \/ ReleaseIntent(r) \/ FinalizeRelease(r) \/ FinalizeInterrupted(r)
      PROVE  ResInv'
  BY <1>5, CancelPendingInv, ReleaseIntentInv, FinalizeReleaseInv, FinalizeInterruptedInv
<1>6. ASSUME NEW r \in ResRequests, ReleaseRaises(r)
      PROVE  ResInv'
  <2>1. Dead /\ resCrashes' \in 0..ResMaxCrashes
    BY <1>6 DEF ReleaseRaises, ResInv, ResTypeOK
  <2> QED
    BY <2>1, DeadInv
<1>7. CASE ResCrash
  <2>1. Dead
    BY <1>7 DEF ResCrash
  <2>2. resCrashes' \in 0..ResMaxCrashes
    BY <1>7, ResourceAssumption DEF ResCrash, ResInv, ResTypeOK
  <2> QED
    BY <2>1, <2>2, DeadInv
<1>8. CASE Rebuild
  BY <1>8, RebuildInv
<1>9. CASE UNCHANGED resVars
  BY <1>9 DEF resVars, resDurable, backend, ResInv, ResTypeOK, DurableOK, StepOK, QueueOK, UsersOK,
              DemandsKnown, Fair, NoneSpare
<1> QED
  BY <1>1, <1>2, <1>3, <1>4, <1>5, <1>6, <1>7, <1>8, <1>9 DEF ResNext, ResServe, ResFinish

\* The inductive invariant of the manager and its backend.
THEOREM ResourceInvariant == ResSpec => []ResInv
<1> QED
  BY InitInv, NextInv, PTL DEF ResSpec

\* The reservations that are not being released fit the capacity, and a running
\* backend holds a unit for each of them.
THEOREM OwnersKeepUnits == ResSpec => []ReservationsBacked
<1>1. ResInv => ReservationsBacked
  <2> SUFFICES ASSUME ResInv PROVE ReservationsBacked
    OBVIOUS
  <2>1. IsFiniteSet(reserved) /\ Cardinality(reserved) <= ResCapacity
    BY DEF ResInv, DurableOK
  <2>2. Cardinality(reserved \ releasing) <= Cardinality(reserved) /\ IsFiniteSet(reserved \ releasing)
    BY <2>1, FS_Subset
  <2>3. Cardinality(reserved \ releasing) <= ResCapacity
    BY <2>1, <2>2, FS_CardinalityType, ResourceAssumption
  <2>4. running => reserved \ releasing \subseteq users
    BY DEF ResInv, UsersOK
  <2> QED
    BY <2>3, <2>4 DEF ReservationsBacked
<1> QED
  BY <1>1, ResourceInvariant, PTL

\* Every durable demand is in the backend's queue or granted with its callback
\* to come, and none waits beside free capacity without a release event ahead.
THEOREM DemandsAreKept == ResSpec => []NoLostDemand
<1>1. ResInv => NoLostDemand
  <2> SUFFICES ASSUME ResInv PROVE NoLostDemand
    OBVIOUS
  <2>1. ASSUME Idle, NEW i \in DOMAIN demands
        PROVE  \/ Demanded(queue, demands[i].req)
               \/ <<"grant", demands[i].req>> \in ToSet(events)
    <3>1. demands[i] \in ToSet(demands)
      BY DEF ToSet
    <3>2. running /\ \A x : resStep \notin {<<"submit", x>>, <<"cancel", x>>}
      BY <2>1 DEF Idle, Free
    <3>3. demands[i] \in ToSet(queue) \/ GrantOf(demands[i].req) \in ToSet(events)
      BY <3>1, <3>2 DEF ResInv, DemandsKnown
    <3> QED
      BY <3>3, DemandedBy DEF GrantOf
  <2>2. ASSUME queue # <<>>, Cardinality(users) < ResCapacity
        PROVE  \E i \in DOMAIN events : events[i][1] = "release"
    <3>1. events \in Seq(Event) /\ Cardinality(users) \in Nat
      BY FS_CardinalityType DEF ResInv, ResTypeOK, UsersOK
    <3>2. Occurrences(events, ReleaseEvent) \in Nat
          /\ (Occurrences(events, ReleaseEvent) = 0 <=> ReleaseEvent \notin ToSet(events))
      BY <3>1, OccurrencesType
    <3>3. ResCapacity <= Cardinality(users) + Occurrences(events, ReleaseEvent)
      BY <2>2 DEF ResInv, NoneSpare
    <3>4. ReleaseEvent \in ToSet(events)
      BY <2>2, <3>1, <3>2, <3>3, ResourceAssumption
    <3>5. PICK i \in DOMAIN events : events[i] = ReleaseEvent
      BY <3>4 DEF ToSet
    <3>6. events[i][1] = "release"
      BY <3>5 DEF ReleaseEvent
    <3> QED
      BY <3>6
  <2> QED
    BY <2>1, <2>2 DEF NoLostDemand
<1> QED
  BY <1>1, ResourceInvariant, PTL

-----------------------------------------------------------------------------
(***************************************************************************)
(* The refinement                                                          *)
(***************************************************************************)

\* The library's operators are the same in the abstract specification.
LEMMA SameOperators ==
    /\ \A S : Abstract!Cardinality(S) = Cardinality(S)
    /\ \A q, i : Abstract!RemoveAt(q, i) = RemoveAt(q, i)
    /\ \A q, i, x : Abstract!InsertAt(q, i, x) = InsertAt(q, i, x)
<1>1. \A S : Abstract!Cardinality(S) = Cardinality(S)
  BY Zenon DEF Abstract!Cardinality, Cardinality
<1>2. \A q, i : Abstract!RemoveAt(q, i) = RemoveAt(q, i)
  BY Zenon DEF Abstract!RemoveAt, RemoveAt
<1>3. \A q, i, x : Abstract!InsertAt(q, i, x) = InsertAt(q, i, x)
  BY Zenon DEF Abstract!InsertAt, InsertAt
<1> QED
  BY <1>1, <1>2, <1>3

\* A recorded grant is of a demand that no other of its priority precedes.
LEMMA GrantStep ==
    ASSUME ResInv, RecordGrant
    PROVE  UNCHANGED <<demands, reserved, releasing>> \/ \E i \in DOMAIN demands : Abstract!Grant(i)
<1> USE DEF ResInv
<1> DEFINE r == Head(events)[2]
<1>1. /\ resStep = Free /\ running = TRUE /\ releasing = {} /\ releasing' = {}
      /\ events # <<>> /\ Head(events)[1] = "grant"
  BY DEF RecordGrant, Idle, StepOK, Free, ResTypeOK
<1>2. \/ demands' = demands /\ reserved' = reserved
      \/ r \notin reserved /\ Demanded(demands, r) /\ demands' = Without(demands, r)
         /\ reserved' = reserved \cup {r}
  BY DEF RecordGrant
<1>3. demands \in Seq(Demand) /\ events \in Seq(Event) /\ IsFiniteSet(users) /\ IsFiniteSet(reserved)
  BY DEF ResTypeOK, UsersOK, DurableOK
<1>4. Head(events) = events[1] /\ 1 \in DOMAIN events
  BY <1>1, <1>3, TailDrops
<1>5. events[1] = GrantOf(r) /\ r \in ResRequests /\ GrantOf(r) \in ToSet(events)
  <2>1. events[1] \in Event
    BY <1>3, <1>4, LenProperties
  <2>2. events[1] \in {"grant"} \X ResRequests
    BY <1>1, <1>4, <2>1 DEF Event
  <2>3. events[1] = <<"grant", r>> /\ r \in ResRequests
    BY <1>4, <2>2
  <2> QED
    BY <1>4, <2>3 DEF GrantOf, ToSet
<1> HIDE DEF r
<1>6. ASSUME r \notin reserved, Demanded(demands, r), demands' = Without(demands, r),
             reserved' = reserved \cup {r}
      PROVE  \E i \in DOMAIN demands : Abstract!Grant(i)
  <2>1. PICK d \in ToSet(demands) : d.req = r
    BY <1>6, DemandedBy
  <2>2. \A a, b \in ToSet(demands) : a.req = b.req => a = b
    BY DEF DurableOK
  <2>3. PICK i \in DOMAIN demands : demands[i] = d /\ demands' = RemoveAt(demands, i)
    <3>1. \E k \in DOMAIN demands : demands[k] = d /\ Without(demands, d.req) = RemoveAt(demands, k)
      BY <1>3, <2>2, WithoutDrops
    <3> QED
      BY <1>6, <2>1, <3>1
  <2>4. Once(events, GrantOf(r)) /\ r \in users /\ reserved \subseteq users
    BY <1>1, <1>5 DEF UsersOK
  <2>5. Cardinality(reserved) < ResCapacity
    <3>1. IsFiniteSet(reserved \cup {r}) /\ Cardinality(reserved \cup {r}) = Cardinality(reserved) + 1
      BY <1>3, <1>6, FS_AddElement
    <3>2. reserved \cup {r} \subseteq users
      BY <2>4
    <3>3. Cardinality(reserved \cup {r}) <= Cardinality(users)
      BY <1>3, <3>2, FS_Subset
    <3>4. Cardinality(reserved) \in Nat /\ Cardinality(users) \in Nat
      BY <1>3, FS_CardinalityType
    <3> QED
      BY <3>1, <3>3, <3>4, ResourceAssumption DEF UsersOK
  <2>6. \A j \in 1..i - 1 : demands[j].prio < demands[i].prio
    <3> TAKE j \in 1..i - 1
    <3>1. j \in DOMAIN demands /\ j < i
      BY <1>3, LenProperties
    <3>2. demands[j] \in ToSet(demands) /\ Before(demands, demands[j], d)
      BY <2>3, <3>1 DEF Before, ToSet
    <3>3. demands[j].prio <= d.prio /\ demands[j].prio \in Int /\ d.prio \in Int
      BY <1>3, <3>2, Elements DEF DurableOK, ByPriority
    <3>4. \A x : ~Before(events, x, GrantOf(r))
      BY <1>3, <1>4, <1>5, <2>4, LenProperties DEF Before, Once
    <3>5. \A x : resStep # <<"cancel", x>>
      BY <1>1 DEF Free
    <3>6. demands[j].prio # d.prio
      BY <1>5, <2>1, <3>2, <3>4, <3>5 DEF Fair
    <3> QED
      BY <2>3, <3>3, <3>6
  <2>7. reserved \ releasing = reserved /\ reserved' \ releasing' = reserved \cup {demands[i].req}
    BY <1>1, <1>6, <2>1, <2>3
  <2>8. Abstract!Grant(i)
    BY <2>3, <2>5, <2>6, <2>7, SameOperators DEF Abstract!Grant
  <2> QED
    BY <2>8
<1> QED
  BY <1>1, <1>2, <1>6

\* Every step of the manager is a step of the abstract resource or invisible to it.
LEMMA StepImplements ==
    ResInv /\ [ResNext]_resVars => [Abstract!Next]_<<demands, reserved \ releasing>>
<1> SUFFICES ASSUME ResInv, [ResNext]_resVars
             PROVE  Abstract!Next \/ UNCHANGED <<demands, reserved \ releasing>>
  OBVIOUS
<1> USE DEF ResInv
<1>1. ASSUME NEW r \in ResRequests, NEW p \in ResPriorities, Request(r, p)
      PROVE  Abstract!Next
  <2> DEFINE d == [req |-> r, prio |-> p]
             c == Cardinality({i \in DOMAIN demands : demands[i].prio <= p})
  <2>1. d.prio = p
    OBVIOUS
  <2>2. /\ ~Demanded(demands, r) /\ r \notin reserved
        /\ demands' = Insert(demands, d) /\ UNCHANGED <<reserved, releasing>>
    BY <1>1 DEF Request
  <2> HIDE DEF d
  <2>3. demands' = InsertAt(demands, c + 1, d)
    BY <2>1, <2>2 DEF Insert
  <2>4. Abstract!Ask(r, p)
    BY <2>2, <2>3, SameOperators DEF Abstract!Ask, Abstract!Waits, Demanded, d
  <2> QED
    BY <2>4 DEF Abstract!Next
<1>2. CASE RecordGrant
  BY <1>2, GrantStep DEF Abstract!Next
<1>3. ASSUME NEW r \in ResRequests, DeleteDemand(r)
      PROVE  Abstract!Next
  <2>1. resStep = <<"cancel", r>> /\ demands' = Without(demands, r) /\ UNCHANGED <<reserved, releasing>>
    BY <1>3 DEF DeleteDemand
  <2>2. PICK d \in ToSet(demands) : d.req = r
    BY <2>1, DemandedBy DEF StepOK
  <2>3. demands \in Seq(Demand) /\ \A a, b \in ToSet(demands) : a.req = b.req => a = b
    BY DEF DurableOK, ResTypeOK
  <2>4. \E k \in DOMAIN demands : demands[k] = d /\ Without(demands, d.req) = RemoveAt(demands, k)
    BY <2>3, WithoutDrops
  <2>5. PICK i \in DOMAIN demands : demands' = RemoveAt(demands, i)
    BY <2>1, <2>2, <2>4
  <2>6. Abstract!Withdraw(i)
    BY <2>1, <2>5, SameOperators DEF Abstract!Withdraw
  <2> QED
    BY <2>6 DEF Abstract!Next
<1>4. ASSUME NEW r \in ResRequests, ReleaseIntent(r)
      PROVE  Abstract!Next
  <2>1. resStep = Free /\ running /\ r \in reserved /\ releasing' = releasing \cup {r}
        /\ UNCHANGED <<demands, reserved>>
    BY <1>4 DEF ReleaseIntent, MayCallResource, Idle
  <2>2. releasing = {}
    BY <2>1 DEF StepOK, Free
  <2>3. Abstract!GiveBack(r)
    BY <2>1, <2>2 DEF Abstract!GiveBack
  <2> QED
    BY <2>3 DEF Abstract!Next
<1>5. ASSUME NEW r \in ResRequests, FinalizeRelease(r) \/ FinalizeInterrupted(r)
      PROVE  UNCHANGED <<demands, reserved \ releasing>>
  <2>1. demands' = demands /\ reserved' = reserved \ {r} /\ releasing' = releasing \ {r} /\ r \in releasing
    BY <1>5 DEF FinalizeRelease, FinalizeInterrupted, StepOK
  <2> QED
    BY <2>1
<1>6. ASSUME UNCHANGED <<demands, reserved, releasing>>
      PROVE  UNCHANGED <<demands, reserved \ releasing>>
  BY <1>6
<1>7. CASE ProcessRelease \/ ResCrash \/ Rebuild \/ UNCHANGED resVars
  BY <1>6, <1>7 DEF ProcessRelease, ResCrash, Dead, Rebuild, resVars, resDurable
<1>8. ASSUME NEW r \in ResRequests, SubmitDemand(r) \/ CancelPending(r) \/ ReleaseRaises(r)
      PROVE  UNCHANGED <<demands, reserved \ releasing>>
  BY <1>6, <1>8 DEF SubmitDemand, CancelPending, ReleaseRaises, Dead, resDurable
<1> QED
  BY <1>1, <1>2, <1>3, <1>4, <1>5, <1>6, <1>7, <1>8 DEF ResNext, ResServe, ResFinish

\* The manager with its backend, its crashes, its rebuilds and its interrupted
\* releases implements the abstract resource.
THEOREM ManagerImplements == ResSpec => ImplementsResource
<1>1. ResInit => Abstract!Init
  BY DEF ResInit, Abstract!Init
<1> QED
  BY <1>1, ResourceInvariant, StepImplements, PTL DEF ResSpec, ImplementsResource, Abstract!Spec

=============================================================================
