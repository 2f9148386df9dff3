------------------------- MODULE PreemptiveResources -------------------------
(***************************************************************************)
(* DurablePreemptiveResourceManager (sose/core/preemption.py) on the SimPy *)
(* backend (sose/backends/simpy.py).  A preemption reaches the manager as  *)
(* two callbacks, the loss of the holder and the acquisition of the new    *)
(* owner, and it is committed in one transaction when both have arrived.   *)
(*                                                                         *)
(* One resource and one process at a time, which serves one tick: what it  *)
(* rebuilds is requested at the start of the tick, what it is asked for    *)
(* later.  A process that raises is discarded.  A crash between the        *)
(* transaction of an operation and its call of the backend leaves what a   *)
(* crash after the call leaves, so the two are one step.                   *)
(***************************************************************************)
EXTENDS Integers, Sequences, FiniteSets, SequencesExt

CONSTANTS
    PreRequests,     \* request ids
    PrePriorities,   \* priorities, smaller is more urgent
    PreCapacity,     \* PreemptiveResourceDefinition.capacity
    PreMaxCrashes    \* bound on the number of crashes

NoStep == "none"

ASSUME PreemptiveAssumption ==
    /\ PreCapacity \in Nat \ {0} /\ PrePriorities \subseteq Int /\ PreMaxCrashes \in Nat
    /\ NoStep \notin PreRequests

VARIABLES
    preDemands,    \* PreemptiveResourceDemand, sorted by priority and sequence
    preReserved,   \* PreemptiveResourceReservation, in the order of sequence
    preReleasing,  \* reserved requests with a release intent
    preResults,    \* ResourcePreemptionResult, <<displaced, preempting>>
    preRunning,    \* a process with a rebuilt backend is running
    preStep,       \* the request its release() is working on, or NoStep
    preQueue,      \* backend: requests that wait, sorted by key
    preUsers,      \* backend: requests that occupy a unit of capacity
    preUrgent,     \* backend: urgent events, lifecycle starts and interrupts
    preNormal,     \* backend: normal events
    preLeased,     \* backend: requests whose lifecycle holds a lease
    tombstones,    \* backend: cancelled requests whose lifecycle has not noticed
    pendingLosses, \* manager: <<displaced, preempting>>, not yet committed
    preKnown,      \* manager: reservations whose lease it keeps
    preCrashes

preDurable == <<preDemands, preReserved, preReleasing, preResults>>
preBackend == <<preQueue, preUsers, preUrgent, preNormal, preLeased, tombstones>>
handshake == <<pendingLosses, preKnown>>
preVars == <<preDurable, preRunning, preStep, preBackend, handshake, preCrashes>>

Wanted == [req : PreRequests, prio : PrePriorities, preempt : BOOLEAN]
Asked == [req : PreRequests, prio : PrePriorities, preempt : BOOLEAN, late : BOOLEAN]

PreTypeOK ==
    /\ preDemands \in Seq(Wanted) /\ preReserved \in Seq(Wanted)
    /\ preReleasing \subseteq PreRequests
    /\ preResults \subseteq PreRequests \X PreRequests
    /\ preRunning \in BOOLEAN
    /\ preStep \in PreRequests \cup {NoStep}
    /\ preQueue \in Seq(Asked) /\ preUsers \subseteq Asked
    /\ preLeased \subseteq PreRequests /\ tombstones \subseteq PreRequests
    /\ pendingLosses \subseteq PreRequests \X PreRequests
    /\ preKnown \subseteq PreRequests
    /\ preCrashes \in 0..PreMaxCrashes

PreInit ==
    /\ preDemands = <<>> /\ preReserved = <<>> /\ preReleasing = {} /\ preResults = {}
    /\ preRunning = FALSE /\ preStep = NoStep
    /\ preQueue = <<>> /\ preUsers = {} /\ preUrgent = <<>> /\ preNormal = <<>>
    /\ preLeased = {} /\ tombstones = {}
    /\ pendingLosses = {} /\ preKnown = {}
    /\ preCrashes = 0

Named(q, r) == \E i \in DOMAIN q : q[i].req = r
Entry(q, r) == CHOOSE x \in ToSet(q) : x.req = r
Drop(q, r) == RemoveAt(q, CHOOSE i \in DOMAIN q : q[i].req = r)
Requests(s) == {x.req : x \in s}

-----------------------------------------------------------------------------
(***************************************************************************)
(* The backend.  The urgent events are the start of a lifecycle, with what *)
(* it asks for, and an interrupt with its cause.  The normal events are a  *)
(* grant, the end of a hold and a unit that was given back.                *)
(***************************************************************************)

InitEvent(x) == [kind |-> "init", req |-> x.req, asked |-> x]
Interrupt(r, by) == [kind |-> "interrupt", req |-> r, by |-> by]
GrantEvent(r) == [kind |-> "grant", req |-> r]
HoldEvent(r) == [kind |-> "hold", req |-> r]
UnitEvent == [kind |-> "release"]

\* What a demand or a reservation asks the backend for.
Ask(x, preempt, late) == [req |-> x.req, prio |-> x.prio, preempt |-> preempt, late |-> late]

\* SimPy orders requests by (priority, time, not preempt).
Key(x) == 4 * x.prio + (IF x.late THEN 2 ELSE 0) + (IF x.preempt THEN 0 ELSE 1)

ByKey(q, x) == InsertAt(q, Cardinality({i \in DOMAIN q : Key(q[i]) <= Key(x)}) + 1, x)

LastUser(us) == CHOOSE x \in us : \A y \in us : Key(y) <= Key(x)

\* The head of the queue is tried once.  It may take the unit of the last user,
\* whose process is interrupted.
PreTrigger(q, us, urgent, normal) ==
    LET h == Head(q)
        victim == LastUser(us)
        preempts == /\ Cardinality(us) >= PreCapacity
                    /\ h.preempt
                    /\ Key(victim) > Key(h)
        left == IF preempts THEN us \ {victim} ELSE us
    IN IF q # <<>> /\ Cardinality(IF preempts THEN left ELSE us) < PreCapacity
       THEN /\ preQueue' = Tail(q)
            /\ preUsers' = left \cup {h}
            /\ preUrgent' = IF preempts
                            THEN Append(urgent, Interrupt(victim.req, h.req))
                            ELSE urgent
            /\ preNormal' = Append(normal, GrantEvent(h.req))
       ELSE preQueue' = q /\ preUsers' = us /\ preUrgent' = urgent /\ preNormal' = normal

PreIdle == preRunning /\ preStep = NoStep
Quiet == preUrgent = <<>> /\ preNormal = <<>>
UrgentIs(kind) == PreIdle /\ preUrgent # <<>> /\ Head(preUrgent).kind = kind
NormalIs(kind) == PreIdle /\ preUrgent = <<>> /\ preNormal # <<>> /\ Head(preNormal).kind = kind

\* A lifecycle starts and makes its SimPy request.
StartLifecycle ==
    /\ UrgentIs("init")
    /\ PreTrigger(ByKey(preQueue, Head(preUrgent).asked), preUsers, Tail(preUrgent), preNormal)
    /\ UNCHANGED <<preDurable, preRunning, preStep, preLeased, tombstones, handshake, preCrashes>>

\* A lifecycle ends: the unit, if it still has one, is given back.
EndHold ==
    /\ NormalIs("hold")
    /\ LET r == Head(preNormal).req IN
          /\ preLeased' = preLeased \ {r}
          /\ preUsers' = {x \in preUsers : x.req # r}
          /\ preNormal' = IF r \in Requests(preUsers)
                          THEN Append(Tail(preNormal), UnitEvent)
                          ELSE Tail(preNormal)
    /\ UNCHANGED <<preDurable, preRunning, preStep, preQueue, preUrgent, tombstones, handshake, preCrashes>>

UnitFreed ==
    /\ NormalIs("release")
    /\ PreTrigger(preQueue, preUsers, preUrgent, Tail(preNormal))
    /\ UNCHANGED <<preDurable, preRunning, preStep, preLeased, tombstones, handshake, preCrashes>>

-----------------------------------------------------------------------------
(***************************************************************************)
(* The manager's callbacks                                                 *)
(***************************************************************************)

\* A grant that needs no preemption: not while a release is in progress, and
\* not while the durable reservations fill the capacity.
MayGrantNormally(r) ==
    /\ Named(preDemands, r)
    /\ preReleasing = {}
    /\ Len(preReserved) < PreCapacity

\* Mutant of MayPreempt: the two ends of a loss are swapped.
MayPreemptSwapped(r) ==
    /\ Named(preDemands, r)
    /\ \E l \in pendingLosses : l[1] = r /\ Named(preReserved, l[2])

\* The pair of callbacks is complete and both records are still there.
MayPreempt(r) ==
    /\ Named(preDemands, r)
    /\ \E l \in pendingLosses : l[2] = r /\ Named(preReserved, l[1])

\* Mutant of CommitPreemption: the displaced owner stays.
CommitPreemptionKeepsOwner(r) ==
    LET l == CHOOSE x \in pendingLosses : x[2] = r IN
    /\ l \notin preResults
    /\ preReserved' = Append(preReserved, Entry(preDemands, r))
    /\ preDemands' = Drop(preDemands, r)
    /\ preResults' = preResults \cup {l}
    /\ pendingLosses' = pendingLosses \ {l}
    /\ preKnown' = (preKnown \ {l[1]}) \cup {r}
    /\ UNCHANGED preReleasing

CommitPreemption(r) ==
    LET l == CHOOSE x \in pendingLosses : x[2] = r IN
    /\ l \notin preResults
    /\ preReserved' = Append(Drop(preReserved, l[1]), Entry(preDemands, r))
    /\ preDemands' = Drop(preDemands, r)
    /\ preResults' = preResults \cup {l}
    /\ pendingLosses' = pendingLosses \ {l}
    /\ preKnown' = (preKnown \ {l[1]}) \cup {r}
    /\ UNCHANGED preReleasing

CommitNormalGrant(r) ==
    /\ preReserved' = Append(preReserved, Entry(preDemands, r))
    /\ preDemands' = Drop(preDemands, r)
    /\ preKnown' = preKnown \cup {r}
    /\ UNCHANGED <<preReleasing, preResults, pendingLosses>>

\* _record_acquired: a restored reservation gets its lease back, a demand becomes
\* a reservation.  The manager would keep an acquisition that it cannot commit
\* yet; AcquisitionsCommit says that this backend never brings it one.
RecordAcquired ==
    /\ NormalIs("grant")
    /\ LET r == Head(preNormal).req IN
          \/ /\ r \in tombstones
             /\ tombstones' = tombstones \ {r}
             /\ UNCHANGED <<preDurable, preLeased, handshake>>
          \/ /\ r \notin tombstones
             /\ preLeased' = preLeased \cup {r}
             /\ UNCHANGED tombstones
             /\ \/ /\ Named(preReserved, r)
                   /\ preKnown' = preKnown \cup {r}
                   /\ UNCHANGED <<preDurable, pendingLosses>>
                \/ /\ ~Named(preReserved, r) /\ MayPreempt(r)
                   /\ CommitPreemption(r)
                \/ /\ ~Named(preReserved, r) /\ ~MayPreempt(r) /\ MayGrantNormally(r)
                   /\ CommitNormalGrant(r)
    /\ preNormal' = Tail(preNormal)
    /\ UNCHANGED <<preRunning, preStep, preQueue, preUsers, preUrgent, preCrashes>>

\* _record_preempted: the loss is kept until the new owner has acquired.
RecordPreempted ==
    /\ UrgentIs("interrupt")
    /\ LET v == Head(preUrgent).req
           loss == <<v, Head(preUrgent).by>> IN
          /\ v \in preLeased
          /\ preLeased' = preLeased \ {v}
          /\ preNormal' = IF HoldEvent(v) \in ToSet(preNormal)
                          THEN RemoveAt(preNormal, CHOOSE i \in DOMAIN preNormal : preNormal[i] = HoldEvent(v))
                          ELSE preNormal
          /\ pendingLosses' = IF Named(preReserved, v)
                              THEN {l \in pendingLosses : l[2] # loss[2]} \cup {loss}
                              ELSE pendingLosses
    /\ preUrgent' = Tail(preUrgent)
    /\ UNCHANGED <<preDurable, preRunning, preStep, preQueue, preUsers, tombstones,
                   preKnown, preCrashes>>

-----------------------------------------------------------------------------
(***************************************************************************)
(* Operations                                                              *)
(***************************************************************************)

\* The domains call ensure_requested and withdraw, which end with run_until: an
\* operation finds the backend without events.
MayCallPreemptive == PreIdle /\ Quiet

PreRequest(x) ==
    /\ MayCallPreemptive
    /\ ~Named(preDemands, x.req) /\ ~Named(preReserved, x.req)
    /\ preDemands' = InsertAt(preDemands, Cardinality({i \in DOMAIN preDemands : preDemands[i].prio <= x.prio}) + 1, x)
    /\ preUrgent' = Append(preUrgent, InitEvent(Ask(x, x.preempt, TRUE)))
    /\ UNCHANGED <<preReserved, preReleasing, preResults, preRunning, preStep, preQueue, preUsers,
                   preNormal, preLeased, tombstones, handshake, preCrashes>>

\* cancel_pending: the request leaves the queue, its lifecycle is woken to notice
\* that, and the demand is deleted.
PreCancelPending(r) ==
    /\ MayCallPreemptive
    /\ Named(preDemands, r) /\ Named(preQueue, r)
    /\ preQueue' = Drop(preQueue, r)
    /\ preNormal' = Append(preNormal, GrantEvent(r))
    /\ tombstones' = tombstones \cup {r}
    /\ preDemands' = Drop(preDemands, r)
    /\ pendingLosses' = {l \in pendingLosses : l[2] # r}
    /\ UNCHANGED <<preReserved, preReleasing, preResults, preRunning, preStep, preUsers, preUrgent,
                   preLeased, preKnown, preCrashes>>

PreReleaseIntent(r) ==
    /\ MayCallPreemptive
    /\ Named(preReserved, r) /\ r \in preKnown
    /\ preReleasing' = preReleasing \cup {r}
    /\ preStep' = r
    /\ UNCHANGED <<preDemands, preReserved, preResults, preRunning, preBackend, handshake, preCrashes>>

\* The hold succeeds, which the lifecycle notices later, and the reservation
\* is deleted.
PreFinalizeRelease(r) ==
    /\ preStep = r
    /\ preNormal' = Append(preNormal, HoldEvent(r))
    /\ preReserved' = Drop(preReserved, r)
    /\ preReleasing' = preReleasing \ {r}
    /\ preKnown' = preKnown \ {r}
    /\ preStep' = NoStep
    /\ UNCHANGED <<preDemands, preResults, preRunning, preQueue, preUsers, preUrgent, preLeased,
                   tombstones, pendingLosses, preCrashes>>

-----------------------------------------------------------------------------
(***************************************************************************)
(* Failures and rebuild                                                    *)
(***************************************************************************)

PreDead ==
    /\ preRunning' = FALSE /\ preStep' = NoStep
    /\ preQueue' = <<>> /\ preUsers' = {} /\ preUrgent' = <<>> /\ preNormal' = <<>>
    /\ preLeased' = {} /\ tombstones' = {}
    /\ pendingLosses' = {} /\ preKnown' = {}
    /\ UNCHANGED preDurable

PreCrash ==
    /\ preRunning
    /\ preCrashes < PreMaxCrashes
    /\ preCrashes' = preCrashes + 1
    /\ PreDead

\* The interrupt reaches a lifecycle that still waits for its own grant: nothing
\* catches it there, and run_until raises.
InterruptRaises ==
    /\ UrgentIs("interrupt")
    /\ Head(preUrgent).req \notin preLeased
    /\ PreDead
    /\ UNCHANGED preCrashes

\* The same pair of requests has been through a preemption before.
ResultRaises ==
    /\ NormalIs("grant")
    /\ LET r == Head(preNormal).req IN
          /\ r \notin tombstones /\ ~Named(preReserved, r) /\ MayPreempt(r)
          /\ (CHOOSE x \in pendingLosses : x[2] = r) \in preResults
    /\ PreDead
    /\ UNCHANGED preCrashes

PreFinalizeInterrupted(r) ==
    /\ ~preRunning
    /\ r \in preReleasing
    /\ preReserved' = Drop(preReserved, r)
    /\ preReleasing' = preReleasing \ {r}
    /\ UNCHANGED <<preDemands, preResults, preRunning, preStep, preBackend, handshake, preCrashes>>

\* Reservations are asked for again without preemption, then the demands.
PreRebuild ==
    /\ ~preRunning /\ preReleasing = {}
    /\ Len(preReserved) <= PreCapacity
    /\ \A i \in DOMAIN preDemands : ~Named(preReserved, preDemands[i].req)
    /\ preRunning' = TRUE
    /\ preUrgent' =
          [i \in DOMAIN preReserved |-> InitEvent(Ask(preReserved[i], FALSE, FALSE))]
          \o [i \in DOMAIN preDemands |-> InitEvent(Ask(preDemands[i], preDemands[i].preempt, FALSE))]
    /\ UNCHANGED <<preDurable, preStep, preQueue, preUsers, preNormal, preLeased, tombstones,
                   handshake, preCrashes>>

PreNext ==
    \/ StartLifecycle \/ EndHold \/ UnitFreed \/ RecordAcquired \/ RecordPreempted
    \/ \E x \in Wanted : PreRequest(x)
    \/ \E r \in PreRequests :
          \/ PreCancelPending(r) \/ PreReleaseIntent(r)
          \/ PreFinalizeRelease(r) \/ PreFinalizeInterrupted(r)
    \/ PreCrash \/ InterruptRaises \/ ResultRaises
    \/ PreRebuild

PreSpec == PreInit /\ [][PreNext]_preVars

-----------------------------------------------------------------------------
(***************************************************************************)
(* Properties                                                              *)
(***************************************************************************)

\* The two callbacks of a preemption never add up to more durable owners than
\* the capacity.  When the backend has nothing left to do, its users are the
\* durable owners and every durable demand waits in its queue, and only because
\* the capacity is used: after any sequence of preemptions, releases,
\* cancellations, crashes and rebuilds.
OwnersBacked ==
    /\ Len(preReserved) <= PreCapacity
    /\ PreIdle /\ Quiet =>
          /\ {preReserved[i].req : i \in DOMAIN preReserved} = Requests(preUsers)
          /\ \A i \in DOMAIN preDemands : Named(preQueue, preDemands[i].req)
          /\ preQueue # <<>> => Cardinality(preUsers) = PreCapacity

\* An acquisition can always be committed when it arrives: either the loss of
\* the displaced holder has arrived before it, or there is durable capacity and
\* no release in progress.
AcquisitionsCommit ==
    NormalIs("grant") =>
        LET r == Head(preNormal).req IN
            \/ r \in tombstones \/ Named(preReserved, r)
            \/ MayPreempt(r) \/ MayGrantNormally(r)
=============================================================================
