----------------------------- MODULE SharedPool -----------------------------
(***************************************************************************)
(* Organizations that execute their work on the instances of one shared    *)
(* pool.  Each organization is a deterministic source of steps             *)
(* (sose/organizational/od5a_durable.py).  A recurring tick                *)
(* (od5a_recurring.py) claims the next step with a lease and an epoch,     *)
(* plans it, lets an ephemeral SimPy backend grant its slots, and commits  *)
(* the step, the job's checkpoint and the bookings of the pool's ledger    *)
(* (sose/persistence/postgres_resource_ledger.py) in one transaction.  A   *)
(* step that the pool has no room for is recorded as a wait.               *)
(*                                                                         *)
(* A transaction is one action: the organization's advisory lock and the   *)
(* pool's serialize them.  Wording, hashes, causal ids and validation of   *)
(* records that nobody forges are left out; logical time is a number.      *)
(***************************************************************************)
EXTENDS Naturals, Sequences, FiniteSets, SequencesExt

CONSTANTS
    Orgs,         \* job ids of the organizations
    Workers,      \* owner ids of the workers that run their ticks
    Job,          \* Job[w]: the organization whose ticks worker w is called for
    Recovering,   \* the workers that are called with recover
    Work,         \* Work[o]: what organization o has to do, see below
    Foreign,      \* bookings that others may ask the ledger for
    Outages,      \* outages that may be reported to the ledger
    Horizon,      \* bound on the starts that are asked of the ledger
    MaxPoolUse,   \* bound on what others do with the pool
    MaxFaults     \* bound on the leases that expire and the workers that die

WholePool == "pool"

ASSUME PoolAssumption ==
    /\ Job \in [Workers -> Orgs] /\ Recovering \subseteq Workers /\ Horizon \in Nat
    /\ \A r \in Foreign :
          /\ r.owner \notin Orgs /\ r.instance # WholePool
          /\ r.start \in Nat /\ r.end \in Nat /\ r.start < r.end
    /\ \A x \in Outages :
          /\ x = [id |-> x.id, instance |-> x.instance, start |-> x.start, until |-> x.until,
                  recovered |-> FALSE]
          /\ x.start \in Nat /\ x.until \in Nat /\ x.start < x.until

(***************************************************************************)
(* Work[o].stations is the sequence of stations, .edges the dependencies   *)
(* between them, .items the sequence of items, each with its arrival `at`  *)
(* and its `service` per station; .latency is the time of a handoff and    *)
(* .slots[k] the instance of the shared pool that execution slot k is      *)
(* bound to.  Slot 0 is the organization's own coordination slot.          *)
(***************************************************************************)
Free == [item |-> 0]

\* What initialize_od5a_durable and SharedPhysicalPoolBinding require of it: every
\* item has a service time per station, edges join stations, and no two slots
\* share an instance.
ASSUME WorkAssumption ==
    \A o \in Orgs :
        LET stations == ToSet(Work[o].stations) IN
        /\ Work[o].stations \in Seq(stations)
        /\ Work[o].edges \subseteq stations \X stations
        /\ Work[o].items \in Seq([at : Nat, service : [stations -> Nat]])
        /\ Work[o].latency \in Nat
        /\ Work[o].slots \in Seq(ToSet(Work[o].slots))
        /\ WholePool \notin ToSet(Work[o].slots)
        /\ \A j, k \in DOMAIN Work[o].slots : Work[o].slots[j] = Work[o].slots[k] => j = k

VARIABLES
    src,       \* attributes of the od5a_durable_pilot entity
    job,       \* SimulationJobState: steps run, active and last trigger
    lease,     \* the od5a_runner_lease entity
    waits,     \* od5a_shared_capacity_wait entities, by organization
    bookings,  \* ledger: TemporalReservation
    outages,   \* ledger: TemporalOutage
    call,      \* what each worker is doing
    faults

source == <<src, job, lease, waits>>
ledger == <<bookings, outages>>
vars == <<source, ledger, call, faults>>

-----------------------------------------------------------------------------
(***************************************************************************)
(* The source of an organization                                           *)
(***************************************************************************)

SlotsOf(o) == DOMAIN Work[o].slots
Incoming(o, t) == {e[1] : e \in {e \in Work[o].edges : e[2] = t}}
Request(i, s, t) == [item |-> i, source |-> s, target |-> t]

SourceInit(o) ==
    [clock |-> 0, step |-> 0,
     actions |-> [i \in DOMAIN Work[o].items |->
                     [at |-> Work[o].items[i].at, kind |-> "arrival", of |-> i]],
     active |-> [k \in SlotsOf(o) \cup {0} |-> Free],
     execution |-> <<>>, coordination |-> <<>>, finished |-> {}, received |-> {}]

\* The earliest action, the first that was scheduled among those; actions are
\* kept in the order of their sequence numbers.
NextIndex(s) ==
    CHOOSE i \in DOMAIN s.actions :
        \A j \in DOMAIN s.actions :
            \/ s.actions[i].at < s.actions[j].at
            \/ s.actions[i].at = s.actions[j].at /\ i <= j

NextAction(s) == s.actions[NextIndex(s)]

\* The place of k in a set of numbers, and the n-th of them.
Rank(S, k) == Cardinality({j \in S : j <= k})
Nth(S, n) == CHOOSE k \in S : Rank(S, k) = n

FreeSlots(o, s) == {k \in SlotsOf(o) : s.active[k] = Free}

\* As many of the first requests as there are free slots, in their order.
Executions(o, s) ==
    LET free == Cardinality(FreeSlots(o, s))
    IN  IF free < Len(s.execution) THEN free ELSE Len(s.execution)

Begun(s, r) == [item |-> r.item, source |-> r.source, target |-> r.target, start |-> s.clock]

\* Execution slots and the coordination slot are given out; the completion of
\* what they begin is scheduled.
Dispatch(o, s) ==
    LET free == FreeSlots(o, s)
        n == Executions(o, s)
        handoff == s.active[0] = Free /\ s.coordination # <<>>
    IN  [s EXCEPT
            !.execution = SubSeq(@, n + 1, Len(@)),
            !.coordination = IF handoff THEN Tail(@) ELSE @,
            !.active = [k \in DOMAIN @ |->
                           IF k \in free /\ Rank(free, k) <= n
                           THEN Begun(s, s.execution[Rank(free, k)])
                           ELSE IF k = 0 /\ handoff THEN Begun(s, Head(s.coordination))
                           ELSE @[k]],
            !.actions = @
                \o [i \in 1..n |->
                       [at |-> s.clock + Work[o].items[s.execution[i].item]
                                             .service[s.execution[i].target],
                        kind |-> "execution", of |-> Nth(free, i)]]
                \o IF handoff
                   THEN <<[at |-> s.clock + Work[o].latency, kind |-> "coordination", of |-> 0]>>
                   ELSE <<>>]

\* The stations of a set in their order.
InOrder(o, stations) ==
    LET places == {n \in DOMAIN Work[o].stations : Work[o].stations[n] \in stations}
    IN  [n \in 1..Cardinality(places) |-> Work[o].stations[Nth(places, n)]]

\* An item arrives: every station without a predecessor is asked for.
Arrive(o, s, item) ==
    LET roots == InOrder(o, {t \in ToSet(Work[o].stations) : Incoming(o, t) = {}})
    IN  [s EXCEPT !.execution = @ \o [n \in DOMAIN roots |-> Request(item, roots[n], roots[n])]]

\* A station is done with an item: each of its successors is handed it.
FinishExecution(o, s, k) ==
    LET a == s.active[k]
        next == InOrder(o, {t \in ToSet(Work[o].stations) : <<a.target, t>> \in Work[o].edges})
    IN  [s EXCEPT !.active[k] = Free,
                  !.finished = @ \cup {<<a.item, a.target>>},
                  !.coordination = @ \o [n \in DOMAIN next |-> Request(a.item, a.target, next[n])]]

\* A handoff is done: the station is asked for when it was the last one.
FinishCoordination(o, s) ==
    LET a == s.active[0]
        received == s.received \cup {<<a.item, a.source, a.target>>}
        complete == \A p \in Incoming(o, a.target) : <<a.item, p, a.target>> \in received
    IN  [s EXCEPT !.active[0] = Free, !.received = received,
                  !.execution = IF complete THEN Append(@, Request(a.item, a.target, a.target))
                                ELSE @]

\* Every item went through every station.
Done(o, s) ==
    /\ s.actions = <<>>
    /\ s.finished = (DOMAIN Work[o].items) \X ToSet(Work[o].stations)

Begin(s) ==
    [s EXCEPT !.actions = RemoveAt(@, NextIndex(s)), !.clock = NextAction(s).at, !.step = @ + 1]

Act(o, s, a) ==
    CASE a.kind = "arrival" -> Arrive(o, s, a.of)
      [] a.kind = "execution" -> FinishExecution(o, s, a.of)
      [] a.kind = "coordination" -> FinishCoordination(o, s)

\* _transition: the next action, then the slots that can be given out.  The
\* stages are elements of singletons, which TLC evaluates only once.
Transition(o, s) ==
    CHOOSE t \in {Dispatch(o, acted) :
                     acted \in {Act(o, begun, NextAction(s)) : begun \in {Begin(s)}}} : TRUE

-----------------------------------------------------------------------------
(***************************************************************************)
(* The ledger of the pool                                                  *)
(***************************************************************************)

Overlap(a, b, c, d) == a < d /\ c < b

\* The addressed instance, or every instance when it is the whole pool.
Addresses(x, instance) == x.instance \in {WholePool, instance}

\* Whether [start, end) of an instance is free.  `until` is the effective end
\* of a booking or an outage; an interval that ended where it started is empty.
FitsIn(instance, start, end, taken) ==
    \A x \in taken :
        x.start < x.until /\ Addresses(x, instance) => ~Overlap(start, end, x.start, x.until)

Fits(r, held) == FitsIn(r.instance, r.start, r.end, held \cup outages)

Booked(r) ==
    [id |-> r.id, instance |-> r.instance, owner |-> r.owner, start |-> r.start,
     end |-> r.end, until |-> r.end, priority |-> r.priority, status |-> "reserved"]

Stopped(b, at, status) == [b EXCEPT !.until = at, !.status = status]

\* release: inside the interval, and only a booking that nothing ended.
Released(held, id, at) ==
    {IF b.id = id THEN Stopped(b, at, "released") ELSE b : b \in held}

\* The booking of a lower priority that a preempting request may stop: at most one
\* covers the start of the request on its instance.
Victims(r) ==
    {b \in bookings :
        /\ b.status = "reserved" /\ b.priority > r.priority
        /\ b.instance = r.instance /\ b.start <= r.start
        /\ Overlap(r.start, r.end, b.start, b.until)}

Preempted(r) ==
    (bookings \ Victims(r)) \cup {Stopped(b, r.start, "preempted") : b \in Victims(r)}

\* Another user of the pool reserves; a repeated request returns the booking.
ForeignReserve(r) ==
    /\ \A b \in bookings : b.id # r.id
    /\ \/ Fits(r, bookings) /\ bookings' = bookings \cup {Booked(r)}
       \/ /\ ~Fits(r, bookings) /\ r.preempt
          /\ Fits(r, Preempted(r))
          /\ bookings' = Preempted(r) \cup {Booked(r)}
    /\ UNCHANGED <<source, outages, call, faults>>

ForeignRelease(b, at) ==
    /\ b.owner \notin Orgs /\ b.status = "reserved"
    /\ bookings' = Released(bookings, b.id, at)
    /\ UNCHANGED <<source, outages, call, faults>>

\* An outage interrupts the bookings it overlaps.
PoolFails(x) ==
    LET hit == {b \in bookings : /\ b.status = "reserved" /\ Addresses(x, b.instance)
                                 /\ Overlap(b.start, b.until, x.start, x.until)}
        from(b) == IF b.start > x.start THEN b.start ELSE x.start
    IN  /\ \A y \in outages : y.id # x.id
        /\ outages' = outages \cup {x}
        /\ bookings' = (bookings \ hit) \cup {Stopped(b, from(b), "failed") : b \in hit}
        /\ UNCHANGED <<source, call, faults>>

PoolRecovers(x, at) ==
    /\ ~x.recovered
    /\ outages' = (outages \ {x}) \cup {[x EXCEPT !.until = at, !.recovered = TRUE]}
    /\ UNCHANGED <<source, bookings, call, faults>>

-----------------------------------------------------------------------------
(***************************************************************************)
(* What a step of an organization asks of its slots and of the pool        *)
(***************************************************************************)

\* The slots that a step gives out, and the one that it gives back.
Granted(s, t) == {k \in DOMAIN t.active : t.active[k] # Free /\ t.active[k] # s.active[k]}
GivenBack(s) == IF NextAction(s).kind = "arrival" THEN {} ELSE {NextAction(s).of}

\* The slots that the ephemeral backend is given as taken.
Held(s) == {k \in DOMAIN s.active : s.active[k] # Free}

\* The backend gets back the released slot and grants each request: one unit per
\* slot, and as many units of the execution pool as there are execution slots.
NativeGrants(o, s, t) ==
    LET kept == Held(s) \ GivenBack(s)
    IN  /\ Granted(s, t) \cap kept = {}
        /\ Cardinality((Granted(s, t) \cup kept) \ {0}) <= Len(Work[o].slots)

\* When the execution in slot k will be done.
EndOf(t, k) ==
    (CHOOSE a \in ToSet(t.actions) : a.kind = "execution" /\ a.of = k).at

BookingId(o, a) == <<o, a.item, a.target>>

Requests(o, s, t) ==
    {[id |-> BookingId(o, t.active[k]), instance |-> Work[o].slots[k], owner |-> o,
      start |-> t.active[k].start, end |-> EndOf(t, k), priority |-> 100]
     : k \in Granted(s, t) \ {0}}

\* Every execution that is under way has its live booking.
HoldingsBooked(o, s) ==
    \A k \in SlotsOf(o) :
        s.active[k] # Free =>
            \E b \in bookings :
                /\ b.id = BookingId(o, s.active[k]) /\ b.status = "reserved"
                /\ b.owner = o /\ b.instance = Work[o].slots[k]
                /\ b.start = s.active[k].start
                /\ b.start <= NextAction(s).at /\ NextAction(s).at <= b.end

\* A new booking is positive and its id is not known to the ledger.
NewBookings(o, s, t) ==
    \A r \in Requests(o, s, t) :
        /\ r.start < r.end
        /\ \A x \in bookings \cup (Requests(o, s, t) \ {r}) : x.id # r.id

\* The ledger after the release of a step.
AfterRelease(o, s) ==
    LET a == NextAction(s)
    IN  IF a.kind = "execution"
        THEN Released(bookings, BookingId(o, s.active[a.of]), a.at)
        ELSE bookings

\* Mutant of StepFits: only the organization's own bookings count.
StepFitsLocally(o, s, t) ==
    \A r \in Requests(o, s, t) : Fits(r, {b \in AfterRelease(o, s) : b.owner = o})

\* Whether the pool has room for the step of organization o from s to t.
StepFits(o, s, t) == \A r \in Requests(o, s, t) : Fits(r, AfterRelease(o, s))

-----------------------------------------------------------------------------
(***************************************************************************)
(* The recurring tick                                                      *)
(*                                                                         *)
(* Triggers of an organization are numbered, 0 is none: the identifier of  *)
(* a trigger is derived from the number of steps that were run.            *)
(***************************************************************************)

Nobody == "nobody"
Idle == [at |-> "idle"]

Init ==
    /\ src = [o \in Orgs |-> SourceInit(o)]
    /\ job = [o \in Orgs |-> [run |-> 0, active |-> 0, last |-> 0]]
    /\ lease = [o \in Orgs |-> [state |-> "none", owner |-> Nobody, epoch |-> 0,
                                trigger |-> 0, wait |-> 0, expired |-> FALSE]]
    /\ waits = [o \in Orgs |-> {}]
    /\ bookings = {} /\ outages = {}
    /\ call = [w \in Workers |-> Idle]
    /\ faults = 0

\* _read_job: the checkpoint agrees with the organization.
CheckpointAgrees(o) ==
    /\ job[o].run = src[o].step /\ job[o].last = job[o].run
    /\ Done(o, src[o]) => job[o].active = 0

\* _assert_completed_released_lease
CompletedIsReleased(o) ==
    job[o].last # 0 /\ job[o].active = 0 =>
        /\ lease[o].state = "released" /\ lease[o].owner = Nobody
        /\ lease[o].trigger = job[o].last /\ lease[o].wait = 0
        /\ lease[o].epoch >= job[o].run

\* _assert_active_claimed_lease
ActiveIsClaimed(o) ==
    job[o].active # 0 =>
        /\ job[o].active = job[o].run + 1
        /\ lease[o].state = "claimed" /\ lease[o].owner \in Workers
        /\ lease[o].trigger = job[o].active
        /\ lease[o].epoch >= job[o].run + 1
        /\ lease[o].wait \in {0, job[o].active}

Readable(o) == CheckpointAgrees(o) /\ CompletedIsReleased(o)

\* The scheduler asks for the next trigger.  A trigger that completed, and any
\* trigger of an organization that is done, is answered and changes nothing.
RunTick(w) ==
    LET o == Job[w] IN
    /\ call[w] = Idle
    /\ Readable(o)
    /\ ~(Done(o, src[o]) /\ job[o].active = 0)
    /\ call' = [call EXCEPT ![w] = [at |-> "claim", org |-> o, trigger |-> job[o].run + 1]]
    /\ UNCHANGED <<source, ledger, faults>>

\* The worker's own claim of this trigger, which is still alive.
OwnClaim(w, o, t) ==
    /\ lease[o].state = "claimed" /\ lease[o].owner = w /\ ~lease[o].expired
    /\ job[o].active = t

\* Mutant of OpenClaim: an expired claim is never taken over.
OpenClaimReleased(w, o, t) ==
    lease[o].state # "claimed" /\ job[o].active = 0

\* Nobody's claim is alive; an unfinished trigger is taken over only by a worker
\* that was told to recover.
OpenClaim(w, o, t) ==
    /\ lease[o].state = "claimed" => lease[o].expired
    /\ job[o].active # 0 => job[o].active = t /\ w \in Recovering

Admitted(w) ==
    LET c == call[w] IN
    /\ Readable(c.org) /\ ~Done(c.org, src[c.org])
    /\ c.trigger = job[c.org].run + 1
    /\ OwnClaim(w, c.org, c.trigger) \/ OpenClaim(w, c.org, c.trigger)

Claimed(w, epoch) ==
    call' = [call EXCEPT ![w] = [at |-> "look", org |-> call[w].org,
                                 trigger |-> call[w].trigger, epoch |-> epoch]]

\* Mutant of ClaimTick: a new epoch forgets that the trigger waits.
ClaimTickUnmarked(w) ==
    LET c == call[w] IN
    /\ c.at = "claim" /\ Admitted(w)
    /\ Claimed(w, lease[c.org].epoch + 1)
    /\ lease' = [lease EXCEPT ![c.org] =
                    [state |-> "claimed", owner |-> w, epoch |-> @.epoch + 1,
                     trigger |-> c.trigger, wait |-> 0, expired |-> FALSE]]
    /\ job' = [job EXCEPT ![c.org].active = c.trigger]
    /\ UNCHANGED <<src, waits, ledger, faults>>

\* The claim is committed with a new epoch; the mark of a wait stays on it.
ClaimTick(w) ==
    LET c == call[w] IN
    /\ c.at = "claim" /\ Admitted(w)
    /\ \/ /\ OwnClaim(w, c.org, c.trigger)
          /\ Claimed(w, lease[c.org].epoch)
          /\ UNCHANGED <<lease, job>>
       \/ /\ ~OwnClaim(w, c.org, c.trigger)
          /\ Claimed(w, lease[c.org].epoch + 1)
          /\ lease' = [lease EXCEPT ![c.org] =
                          [state |-> "claimed", owner |-> w, epoch |-> @.epoch + 1,
                           trigger |-> c.trigger, wait |-> @.wait, expired |-> FALSE]]
          /\ job' = [job EXCEPT ![c.org].active = c.trigger]
    /\ UNCHANGED <<src, waits, ledger, faults>>

Return(w) == call' = [call EXCEPT ![w] = Idle]

\* The claim is refused, or the trigger completed in the meantime.
NotAdmitted(w) ==
    /\ call[w].at = "claim" /\ ~Admitted(w)
    /\ Return(w)
    /\ UNCHANGED <<source, ledger, faults>>

\* _assert_claim: the lease is still the one of this epoch, and alive.
ClaimHolds(w) ==
    LET c == call[w] IN
    /\ CheckpointAgrees(c.org)
    /\ lease[c.org].state = "claimed" /\ ~lease[c.org].expired
    /\ lease[c.org].owner = w /\ lease[c.org].epoch = c.epoch
    /\ lease[c.org].trigger = c.trigger /\ job[c.org].active = c.trigger

\* The claim holds and something is scheduled: _transition raises when nothing is,
\* although the organization is not done.
Steps(w) == ClaimHolds(w) /\ src[call[w].org].actions # <<>>

\* The first transaction reads which action is due, the second plans it.
Look(w) ==
    /\ call[w].at = "look" /\ Steps(w)
    /\ call' = [call EXCEPT ![w] = [at |-> "plan", org |-> @.org, trigger |-> @.trigger,
                                    epoch |-> @.epoch, due |-> NextAction(src[@.org])]]
    /\ UNCHANGED <<source, ledger, faults>>

Plan(w) ==
    LET c == call[w]  s == src[c.org] IN
    /\ c.at = "plan" /\ Steps(w)
    /\ NextAction(s) = c.due
    /\ \E t \in {Transition(c.org, s)} :
          /\ NativeGrants(c.org, s, t)
          /\ call' = [call EXCEPT ![w] = [at |-> "commit", org |-> c.org, trigger |-> c.trigger,
                                          epoch |-> c.epoch, seen |-> s, planned |-> t]]
    /\ UNCHANGED <<source, ledger, faults>>

WaitOf(o, t) == {x \in waits[o] : x.trigger = t}

\* The wait of a trigger and the mark on the lease come and go together, and
\* the wait was written by this epoch or an earlier one.
WaitAgrees(o, t, epoch) ==
    /\ lease[o].wait = (IF WaitOf(o, t) = {} THEN 0 ELSE t)
    /\ \A x \in WaitOf(o, t) :
          /\ x.state = "waiting"
          /\ 1 <= x.origin /\ x.origin <= x.last /\ x.last <= epoch

\* The claim, the source and the wait are as they were when it was planned.
Unchanged(w) ==
    LET c == call[w] IN
    /\ ClaimHolds(w) /\ src[c.org] = c.seen
    /\ WaitAgrees(c.org, c.trigger, c.epoch)

\* The step, its bookings, the checkpoint, the lease and the wait, in one
\* transaction.
Commit(w) ==
    LET c == call[w]  o == c.org  s == c.seen IN
    /\ c.at = "commit" /\ Unchanged(w)
    /\ HoldingsBooked(o, s) /\ NewBookings(o, s, c.planned) /\ StepFits(o, s, c.planned)
    /\ src' = [src EXCEPT ![o] = c.planned]
    /\ bookings' = AfterRelease(o, s) \cup {Booked(r) : r \in Requests(o, s, c.planned)}
    /\ waits' = [waits EXCEPT ![o] =
                    {IF x.trigger = c.trigger
                     THEN [x EXCEPT !.state = "satisfied", !.last = c.epoch] ELSE x : x \in @}]
    /\ job' = [job EXCEPT ![o] = [run |-> @.run + 1, active |-> 0, last |-> c.trigger]]
    /\ lease' = [lease EXCEPT ![o].state = "released", ![o].owner = Nobody, ![o].wait = 0]
    /\ Return(w)
    /\ UNCHANGED <<outages, faults>>

\* The pool has no room: the transaction is rolled back.
NoRoom(w) ==
    LET c == call[w] IN
    /\ c.at = "commit" /\ Unchanged(w)
    /\ HoldingsBooked(c.org, c.seen) /\ NewBookings(c.org, c.seen, c.planned)
    /\ ~StepFits(c.org, c.seen, c.planned)
    /\ call' = [call EXCEPT ![w].at = "wait"]
    /\ UNCHANGED <<source, ledger, faults>>

\* The booking of an execution was preempted or failed, or the id of a new one is
\* taken: every attempt raises.
HoldingLost(w) ==
    LET c == call[w] IN
    /\ c.at = "commit" /\ Unchanged(w)
    /\ ~(HoldingsBooked(c.org, c.seen) /\ NewBookings(c.org, c.seen, c.planned))
    /\ Return(w)
    /\ UNCHANGED <<source, ledger, faults>>

\* The wait is recorded by the first epoch that meets it, and then kept.
RecordWait(w) ==
    LET c == call[w]  o == c.org IN
    /\ c.at = "wait" /\ Unchanged(w)
    /\ \/ /\ WaitOf(o, c.trigger) = {}
          /\ waits' = [waits EXCEPT ![o] =
                          @ \cup {[trigger |-> c.trigger, state |-> "waiting",
                                   origin |-> c.epoch, last |-> c.epoch]}]
          /\ lease' = [lease EXCEPT ![o].wait = c.trigger]
       \/ /\ WaitOf(o, c.trigger) # {}
          /\ waits' = [waits EXCEPT ![o] = {IF x.trigger = c.trigger
                                             THEN [x EXCEPT !.last = c.epoch] ELSE x : x \in @}]
          /\ UNCHANGED lease
    /\ Return(w)
    /\ UNCHANGED <<src, job, ledger, faults>>

\* A claim that expired or was superseded: the call raises.
Stale(w) ==
    /\ \/ call[w].at \in {"look", "plan"} /\ ~Steps(w)
       \/ call[w].at \in {"commit", "wait"} /\ ~Unchanged(w)
    /\ Return(w)
    /\ UNCHANGED <<source, ledger, faults>>

LeaseExpires(o) ==
    /\ lease[o].state = "claimed" /\ ~lease[o].expired /\ faults < MaxFaults
    /\ lease' = [lease EXCEPT ![o].expired = TRUE]
    /\ faults' = faults + 1
    /\ UNCHANGED <<src, job, waits, ledger, call>>

\* A worker dies between two transactions; its successor has the same owner id.
WorkerDies(w) ==
    /\ call[w] # Idle /\ faults < MaxFaults
    /\ Return(w)
    /\ faults' = faults + 1
    /\ UNCHANGED <<source, ledger>>

Proceed(w) ==
    \/ ClaimTick(w) \/ NotAdmitted(w) \/ Look(w) \/ Plan(w)
    \/ Commit(w) \/ NoRoom(w) \/ HoldingLost(w) \/ RecordWait(w) \/ Stale(w)

\* Bookings, releases, outages and recoveries of others so far.
PoolUses ==
    LET others == {b \in bookings : b.owner \notin Orgs}
    IN  Cardinality(others) + Cardinality({b \in others : b.status = "released"})
            + Cardinality(outages) + Cardinality({x \in outages : x.recovered})

PoolUse ==
    /\ PoolUses < MaxPoolUse
    /\ \/ \E r \in Foreign : ForeignReserve(r)
       \/ \E b \in bookings : \E at \in b.start..b.end : ForeignRelease(b, at)
       \/ \E x \in Outages : PoolFails(x)
       \/ \E x \in outages : \E at \in x.start..x.until : PoolRecovers(x, at)

Next ==
    \/ \E w \in Workers : RunTick(w) \/ Proceed(w) \/ WorkerDies(w)
    \/ \E o \in Orgs : LeaseExpires(o)
    \/ PoolUse

\* The scheduler calls every worker again and again, and a call that runs goes on.
Spec ==
    /\ Init /\ [][Next]_vars
    /\ \A w \in Workers : WF_vars(RunTick(w) \/ Proceed(w))

-----------------------------------------------------------------------------
(***************************************************************************)
(* Advice for a step that waits                                            *)
(*                                                                         *)
(* A start is a set: one time, or empty when there is none up to `latest`. *)
(***************************************************************************)

Earliest(times) == {t \in times : \A u \in times : t <= u}

\* Bookings and outages that constrain a start in the window.
Window(r, from, latest) ==
    {x \in bookings \cup outages :
        x.start < x.until /\ Overlap(x.start, x.until, from, latest + (r.end - r.start))}

FitsAt(r, t, taken) == FitsIn(r.instance, t, t + (r.end - r.start), taken)

\* suggest_next_start: `from`, or the end of something on the instance.
SuggestNextStart(r, from, latest) ==
    LET taken == Window(r, from, latest)
        ends == {x.until : x \in {x \in taken : Addresses(x, r.instance)}}
    IN  Earliest({t \in {from} \cup {e \in ends : from < e /\ e <= latest} : FitsAt(r, t, taken)})

\* Mutant of AlignedStart: the latest of the suggestions, without asking again.
LatestHint(requests, from, latest) ==
    LET starts == {SuggestNextStart(r, from, latest) : r \in requests}
    IN  IF {} \in starts THEN {}
        ELSE {CHOOSE m \in UNION starts : \A n \in UNION starts : n <= m}

\* _aligned_physical_start: move on to the latest of the suggested starts until
\* every request suggests the same one.  The code gives up with an error, and no
\* advice, after 8192 rounds; a round here is always followed by the next.
AlignedStart(requests, from, latest) ==
    LET aligned[t \in from..latest] ==
            LET starts == {SuggestNextStart(r, t, latest) : r \in requests}
                last == CHOOSE m \in UNION starts : \A n \in UNION starts : n <= m
            IN  IF {} \in starts THEN {} ELSE IF last = t THEN {t} ELSE aligned[last]
    IN  aligned[from]

\* The requests of the step that waits, planned again from the source.
WaitingRequests(o) == Requests(o, src[o], Transition(o, src[o]))

-----------------------------------------------------------------------------
(***************************************************************************)
(* Properties                                                              *)
(***************************************************************************)

Bookable(o) == HoldingsBooked(o, src[o]) /\ StepFits(o, src[o], Transition(o, src[o]))

\* No instance is booked twice for a moment, whichever organization, other user,
\* preemption, release or recovery came first.
NoDoubleBooking ==
    \A b \in bookings :
        b.start < b.until => FitsIn(b.instance, b.start, b.until, bookings \ {b})

\* The ledger and the organizations agree: no instance is booked twice, a live
\* booking meets no outage, an execution that is under way has a booking until
\* its end, which only an outage or a preemption may have ended, and an
\* organization has no live booking of what it does not execute.
PoolBacked ==
    /\ NoDoubleBooking
    /\ \A b \in bookings :
          b.status = "reserved" =>
              /\ FitsIn(b.instance, b.start, b.until, outages)
              /\ b.owner \in Orgs =>
                    \E k \in SlotsOf(b.owner) :
                        /\ src[b.owner].active[k] # Free
                        /\ BookingId(b.owner, src[b.owner].active[k]) = b.id
    /\ \A o \in Orgs : \A k \in SlotsOf(o) :
          src[o].active[k] # Free =>
              \E b \in bookings :
                  /\ b.id = BookingId(o, src[o].active[k]) /\ b.instance = Work[o].slots[k]
                  /\ b.end = EndOf(src[o], k) /\ b.status # "released"

\* The records never contradict each other, so that no later call is refused:
\* the checkpoint tells the step of the source, its lease is released or claimed
\* as the job says, and a wait is marked on the lease of the active trigger and
\* satisfied with its commit, whichever epochs died or expired in between.
RecordsAgree ==
    \A o \in Orgs :
        /\ CheckpointAgrees(o) /\ CompletedIsReleased(o) /\ ActiveIsClaimed(o)
        /\ job[o].active # 0 => WaitAgrees(o, job[o].active, lease[o].epoch)
        /\ \A x \in waits[o] :
              /\ x.state = "waiting" <=> x.trigger = job[o].active
              /\ \A y \in waits[o] : y.trigger = x.trigger => x = y

\* The advice for a step that waits is exact: the earliest start at which all its
\* requests fit together, although it only looks at the ends of intervals, and
\* there is none when it says so.
AdviceExact ==
    \A o \in Orgs :
        lease[o].wait # 0 =>
            LET requests == WaitingRequests(o) IN
            /\ requests # {}
            /\ \A from \in NextAction(src[o]).at..Horizon : \A latest \in from..Horizon :
                   AlignedStart(requests, from, latest)
                       = Earliest({t \in from..latest :
                                     \A r \in requests : FitsAt(r, t, bookings \cup outages)})

\* Every organization goes on until it is done, or the pool has no room for its
\* next step, or the booking of an execution was ended by somebody else; workers
\* that die and leases that expire do not stop it, and a wait ends with the
\* reason for it.
SourcesFinish == \A o \in Orgs : <>[](Done(o, src[o]) \/ ~Bookable(o))
=============================================================================
