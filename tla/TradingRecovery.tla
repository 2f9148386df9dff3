-------------------------- MODULE TradingRecovery --------------------------
(***************************************************************************)
(* One customer order of the trading company, from the sales order to the  *)
(* posted journal entry, across eight boundary messages.  The path that    *)
(* starts the order (run_customer_demand_path) may die anywhere; recovery  *)
(* workers (TradingCustomerRecoveryRunner under a RecoverySchedule) then   *)
(* finish what the path left, a bounded number of actions per trigger.     *)
(*                                                                         *)
(* A boundary message is named by its place in the flow.  The entity that  *)
(* a message's intent moves is the number of its transitions that have     *)
(* committed: every transition commits on its own, so a worker may die     *)
(* between any two of them.  A trigger's identity is kept relative to the  *)
(* job: a worker holds the slot that is active or next ("current") or one  *)
(* that another worker has completed since ("done").                       *)
(***************************************************************************)
EXTENDS Naturals, FiniteSets, Sequences

CONSTANTS Workers,      \* the owner_ids of the recovery workers
          NoWriter,     \* the writer epoch is 0: fencing is not active
          Path,         \* the owner of run_customer_demand_path
          MaxActions,   \* TradingCustomerRecoveryRunner.max_actions
          MaxCrashes,   \* bound on the deaths of the workers
          MaxTakeovers, \* bound on claims that fence a worker at work
          MaxWaits      \* bound on the answers "no capacity yet"

ASSUME ActorsDiffer ==
    /\ Path \notin Workers /\ NoWriter \notin Workers
    /\ {"pending", "consumed"} \cap (Workers \cup {Path}) = {}
ASSUME BoundsAreNaturals ==
    /\ MaxActions \in Nat \ {0}
    /\ {MaxCrashes, MaxTakeovers, MaxWaits} \subseteq Nat

\* The boundary messages of the flow, in causal order.
Request == 1        \* o2c.fulfillment_requested
Reserve == 2        \* warehouse.inventory_reservation_requested
Reserved == 3       \* warehouse.inventory_reserved
Consume == 4        \* warehouse.inventory_consumption_requested
Dispatch == 5       \* warehouse.dispatch_ready
Delivered == 6      \* logistics.delivery_completed
Payment == 7        \* o2c.payment_requested
Entry == 8          \* accounting.entry_requested
Messages == 1..8

Recoverable == Reserved..Entry      \* intents a worker executes
Claimable == Consume..Entry         \* contracts a worker claims
Certifying == Dispatch..Entry       \* intents whose completion is certified

\* The transitions by which the intent of each message moves its entity: the
\* fulfillment order, the stock, the shipment, the sales order and its
\* receivable, the card payment and the journal entry.
Materialized == <<"requested">>
StockReserved == <<"reserved">>
Fulfillment ==
    <<"allocated", "picked", "consumption_requested", "packed", "shipped">>
StockConsumed == <<"consumed">>
Shipment ==
    <<"picked_up", "at_origin_hub", "in_transfer", "at_destination_hub",
      "out_for_delivery", "delivered">>
SalesOrder ==
    <<"fulfilling", "fulfilled", "shipped", "invoiced", "receivable_open">>
CardPayment == <<"authorized", "captured", "settlement_pending", "settled">>
Journal == <<"submitted", "posted">>

\* The number of transitions after which an intent has taken full effect.
Terminal ==
    <<Len(Materialized), Len(StockReserved), Len(Fulfillment), Len(StockConsumed),
      Len(Shipment), Len(SalesOrder), Len(CardPayment), Len(Journal)>>

Picked == 2         \* transitions of Fulfillment when the pick has committed
PublishesNext == 3  \* the one that asks for the stock to be consumed

VARIABLES
    published,  \* the durable messages
    delivery,   \* "pending", "consumed" or the owner that has claimed it
    live,       \* claimed messages whose lease has not expired
    pending,    \* messages whose intent is a durable Command
    certified,  \* messages whose effect has a BusinessEffectApplied
    done,       \* committed transitions of each message's entity
    job,        \* SimulationJobState: active trigger and what it enrolled
    writer,     \* the owner of the current writer epoch
    policies,   \* resource_policies: the intents that need a pool
    booking,    \* the delivery's reservation in the temporal ledger
    admitted,   \* trigger that admitted it: "none", "this" or "earlier"
    path,       \* [pc, stage] of run_customer_demand_path
    run,        \* each worker's trigger in progress
    crashes, takeovers, waits

durable == <<published, delivery, live, pending, certified, done, booking>>
counts == <<crashes, takeovers, waits>>
vars == <<durable, job, writer, policies, admitted, path, run, counts>>

NoJob == [active |-> FALSE, effects |-> {}, acks |-> {}, pubs |-> {}]
Idle == [pc |-> "idle", stage |-> Request, actions |-> 0,
         deferred |-> {}, emitted |-> FALSE, slot |-> "current"]

Init ==
    /\ published = {} /\ live = {} /\ pending = {} /\ certified = {}
    /\ delivery = [c \in Messages |-> "pending"]
    /\ done = [c \in Messages |-> 0]
    /\ job = NoJob /\ writer = NoWriter
    /\ policies \in SUBSET {Dispatch}
    /\ booking = "none" /\ admitted = "none"
    /\ path = [pc |-> "publish", stage |-> Request]
    /\ run = [w \in Workers |-> Idle]
    /\ crashes = 0 /\ takeovers = 0 /\ waits = 0

-----------------------------------------------------------------------------
\* What the path and the workers share.

\* _causal_predecessor_applied: the message before it has been consumed, and
\* its Command is no longer pending.
Applied(c) ==
    c > 1 => delivery[c - 1] = "consumed" /\ c - 1 \notin pending

\* The delivery is free, or its lease has expired.  (Mutant: a claim is never
\* taken over.)
FreeUnclaimed(c) == delivery[c] = "pending"
Free(c) == delivery[c] = "pending" \/ (delivery[c] # "consumed" /\ c \notin live)

Candidates(accepted) ==
    {c \in accepted \cap published : Free(c) /\ Applied(c)}

\* claim_next for the message c.
ClaimFor(a, c) ==
    /\ delivery' = [delivery EXCEPT ![c] = a]
    /\ live' = live \cup {c}
    /\ UNCHANGED <<published, pending, certified, done, booking>>

\* consume: the handler saves the Command in the transaction of the ACK.  Its
\* clock is the one of the claim, the start of the call, so that the owner never
\* finds its own lease expired; another worker may have taken the claim over.
AckAs(a, c) ==
    /\ delivery[c] = a /\ Applied(c)
    /\ delivery' = [delivery EXCEPT ![c] = "consumed"]
    /\ live' = live \ {c}
    /\ pending' = pending \cup {c}
    /\ UNCHANGED <<published, certified, done, booking>>

\* One transition of _execute_intent: it reads the durable state and goes on
\* from there.  Accepting the reservation publishes the request to consume.
Transition(c) ==
    /\ done[c] < Terminal[c]
    /\ done' = [done EXCEPT ![c] = @ + 1]
    /\ published' = IF c = Reserved /\ done[c] + 1 = PublishesNext
                    THEN published \cup {Consume} ELSE published
    /\ UNCHANGED <<delivery, live, pending, certified, booking>>

\* Mutant of Complete: before the entity has reached its terminal state.
CompleteEarly(c) ==
    /\ done[c] + 1 >= Terminal[c]
    /\ pending' = pending \ {c}
    /\ certified' = IF c \in Certifying THEN certified \cup {c} ELSE certified
    /\ UNCHANGED <<published, delivery, live, done, booking>>

\* BusinessEffectService.complete, or delete_command for the other intents.
Complete(c) ==
    /\ done[c] = Terminal[c]
    /\ pending' = pending \ {c}
    /\ certified' = IF c \in Certifying THEN certified \cup {c} ELSE certified
    /\ UNCHANGED <<published, delivery, live, done, booking>>

-----------------------------------------------------------------------------
\* run_customer_demand_path.  Its transactions carry no writer epoch: they are
\* rejected as soon as a worker has claimed one.  A call for an order that
\* exists is refused, so nobody starts the path again.

Dead(p) == IF p.pc = "done" THEN p ELSE [pc |-> "dead", stage |-> Request]

PathGoes(pc, c) == path' = [pc |-> pc, stage |-> c]

PathMay(pc) ==
    /\ path.pc = pc
    /\ UNCHANGED <<job, writer, policies, admitted, run, counts>>

PathPublish ==
    /\ PathMay("publish")
    /\ published' = published \cup {path.stage}
    /\ PathGoes("claim", path.stage)
    /\ UNCHANGED <<delivery, live, pending, certified, done, booking>>

PathClaim ==
    /\ PathMay("claim")
    /\ path.stage \in Candidates({path.stage})
    /\ ClaimFor(Path, path.stage)
    /\ PathGoes("consume", path.stage)

PathConsume ==
    /\ PathMay("consume")
    /\ AckAs(Path, path.stage)
    /\ PathGoes("execute", path.stage)

PathExecute ==
    /\ PathMay("execute")
    /\ Transition(path.stage)
    /\ UNCHANGED path

PathComplete ==
    /\ PathMay("execute")
    /\ Complete(path.stage)
    /\ IF path.stage = Entry THEN PathGoes("done", Entry)
       ELSE PathGoes("publish", path.stage + 1)

\* The process dies, or an error ends the call.
PathDies ==
    /\ path.pc \notin {"done", "dead"}
    /\ path' = Dead(path)
    /\ UNCHANGED <<durable, job, writer, policies, admitted, run, counts>>

-----------------------------------------------------------------------------
\* A recovery worker.  Every transaction carries the writer epoch that the
\* worker claimed: At(w, pc) is the guard of a step that still owns it.

At(w, pc) ==
    /\ run[w].pc = pc /\ writer = w
    /\ UNCHANGED <<writer, policies, path, crashes, takeovers>>

Goes(w, pc) == run' = [run EXCEPT ![w].pc = pc]

\* An action of the budget has committed: the next round begins.
Counts(w) ==
    run' = [run EXCEPT ![w].pc = "loop", ![w].stage = Request,
                       ![w].actions = @ + 1]

\* RecoverySchedule._next_slot, read without the epoch.
NextSlot(w) ==
    /\ run[w].pc = "idle"
    /\ run' = [run EXCEPT ![w] = [Idle EXCEPT !.pc = "start"]]
    /\ UNCHANGED <<durable, job, writer, policies, admitted, path, counts>>

\* run_trigger up to _run_bounded, under the job's registration guard.  The
\* claim fences every other worker, and the path: no transaction of the path
\* commits after it.  A slot that has been completed is answered at once.
StartTrigger(w) ==
    /\ run[w].pc = "start"
    /\ writer' = w
    /\ IF writer \in Workers \ {w} /\ run[writer].pc \notin {"idle", "start"}
       THEN takeovers < MaxTakeovers /\ takeovers' = takeovers + 1
       ELSE UNCHANGED takeovers
    /\ IF run[w].slot = "done"
       THEN Goes(w, "idle") /\ UNCHANGED job
       ELSE Goes(w, "reconstruct") /\ job' = [job EXCEPT !.active = TRUE]
    /\ path' = Dead(path)
    /\ UNCHANGED <<durable, policies, admitted, crashes, waits>>

\* An enrolled ACK or effect of which neither Command nor certificate is left.
Vanished ==
    \/ \E c \in job.acks : delivery[c] = "consumed" /\ c \notin pending \cup certified
    \/ job.effects \ (pending \cup certified) # {}

\* Mutant of Committed: the acknowledgements are not charged.
CommittedUncharged == Cardinality(job.pubs) + Cardinality(job.effects \cap certified)

\* The actions of the active trigger that had committed before a restart.
Committed ==
      Cardinality(job.pubs)
    + Cardinality({c \in job.acks : delivery[c] = "consumed"})
    + Cardinality(job.effects \cap certified)

\* Mutant of Settled: a booking that is still reserved is not looked for.
SettledReleased ==
    /\ policies # {} /\ Committed < MaxActions
    /\ Dispatch \in certified
    /\ booking = "released" /\ admitted = "this"

\* reconcile_certified: a certified delivery whose booking is still reserved,
\* or that this trigger admitted, is one more action of the trigger.
Settled ==
    /\ policies # {} /\ Committed < MaxActions
    /\ Dispatch \in certified
    /\ booking = "reserved" \/ (booking = "released" /\ admitted = "this")

\* The start of _run_bounded: charge what the trigger has already done.
Reconstruct(w) ==
    /\ At(w, "reconstruct")
    /\ ~Vanished /\ Committed <= MaxActions
    /\ LET actions == Committed + (IF Settled THEN 1 ELSE 0)
       IN run' = [run EXCEPT ![w].actions = actions,
                             ![w].pc = IF actions >= MaxActions
                                       THEN "checkpoint" ELSE "loop"]
    /\ booking' = IF Settled THEN "released" ELSE booking
    /\ UNCHANGED <<published, delivery, live, pending, certified, done,
                   job, admitted, waits>>

\* The head of the loop of _run_bounded: accepted intents come first, in the
\* order in which their messages were produced.  The loop makes max_actions
\* rounds; a round that commits nothing is the last one, or defers the only
\* intent of the flow, after which nothing else is left to do.
NextAction(w) ==
    /\ At(w, "loop")
    /\ LET r == run[w]
           effects == (pending \cap Recoverable) \ r.deferred
           first == CHOOSE c \in effects : \A d \in effects : c <= d
       IN  run' = [run EXCEPT ![w] =
             IF r.actions >= MaxActions
             THEN [r EXCEPT !.pc = "checkpoint"]
             ELSE IF effects # {}
             THEN [r EXCEPT !.pc = "admit", !.stage = first]
             ELSE [r EXCEPT !.pc = "egress"]]
    /\ UNCHANGED <<durable, job, admitted, waits>>

Defer(w) ==
    /\ waits < MaxWaits /\ waits' = waits + 1
    /\ run' = [run EXCEPT ![w].pc = "loop", ![w].stage = Request,
                          ![w].deferred = @ \cup {run[w].stage}]

\* The effect belongs to the trigger before it is executed: enrolled with the
\* job, or linked to the trigger in the ledger when it needs a pool.
Enrol(w) ==
    /\ At(w, "admit") /\ run[w].stage \notin policies
    /\ job' = [job EXCEPT !.effects = @ \cup {run[w].stage}]
    /\ Goes(w, "execute")
    /\ UNCHANGED <<durable, admitted, waits>>

Admit(w) ==
    /\ At(w, "admit") /\ run[w].stage \in policies
    /\ admitted # "earlier"
    /\ booking \in {"none", "reserved"}
    /\ booking' = "reserved" /\ admitted' = "this"
    /\ Goes(w, "execute")
    /\ UNCHANGED <<published, delivery, live, pending, certified, done, job, waits>>

\* The pool is full, or the retry delay of an earlier answer has not passed.
NotAdmitted(w) ==
    /\ At(w, "admit") /\ run[w].stage \in policies
    /\ admitted # "earlier" /\ booking = "none"
    /\ Defer(w)
    /\ UNCHANGED <<durable, job, admitted>>

Execute(w) ==
    /\ At(w, "execute")
    /\ Transition(run[w].stage)
    /\ UNCHANGED <<job, admitted, run, waits>>

\* DurableResourceWait: a dock, vehicle or courier of the delivery is taken.
ResourceWait(w) ==
    /\ At(w, "execute")
    /\ run[w].stage = Dispatch /\ done[Dispatch] < Terminal[Dispatch]
    /\ Defer(w)
    /\ UNCHANGED <<durable, job, admitted>>

CompleteEffect(w) ==
    /\ At(w, "execute")
    /\ Complete(run[w].stage)
    /\ Goes(w, "release")
    /\ UNCHANGED <<job, admitted, waits>>

\* IntentResourceCoordinator.complete, and the action is counted.
Release(w) ==
    /\ At(w, "release")
    /\ booking' = IF run[w].stage \in policies THEN "released" ELSE booking
    /\ Counts(w)
    /\ UNCHANGED <<published, delivery, live, pending, certified, done,
                   job, admitted, waits>>

\* The next message of the flow follows from committed facts: the pick, the
\* shipped order and its consumed stock, or the effect of the message before.
PickCommitted == delivery[Reserved] = "consumed" /\ done[Reserved] >= Picked

StockLeft ==
    /\ PickCommitted
    /\ done[Reserved] = Terminal[Reserved] /\ done[Consume] = Terminal[Consume]

Effected(c) ==
    delivery[c] = "consumed" /\ c \notin pending /\ done[c] = Terminal[c]

ShipmentDelivered == Effected(Dispatch)
OrderInvoiced == Effected(Delivered)
PaymentSettled == Effected(Payment)

Publishable ==
    {c \in Claimable \ published :
       \/ c = Consume /\ PickCommitted
       \/ c = Dispatch /\ StockLeft
       \/ c = Delivered /\ ShipmentDelivered
       \/ c = Payment /\ OrderInvoiced
       \/ c = Entry /\ PaymentSettled}

\* The four reconcile_*_egress calls: a message and its enrolment with the
\* job commit together.
Egress(w) ==
    /\ At(w, "egress")
    /\ LET new == Publishable
           spent == run[w].actions + Cardinality(new)
       IN  /\ published' = published \cup new
           /\ job' = [job EXCEPT !.pubs = @ \cup new]
           /\ run' = [run EXCEPT ![w].actions = spent, ![w].emitted = new # {},
                        ![w].pc = IF spent >= MaxActions THEN "checkpoint" ELSE "claim"]
    /\ UNCHANGED <<delivery, live, pending, certified, done, booking, admitted, waits>>

\* claim_next for each destination in turn.
Claim(w) ==
    /\ At(w, "claim")
    /\ \E c \in Candidates(Claimable) :
         /\ \A d \in Candidates(Claimable) : c <= d
         /\ ClaimFor(w, c)
         /\ run' = [run EXCEPT ![w].pc = "ack", ![w].stage = c, ![w].emitted = FALSE]
    /\ UNCHANGED <<job, admitted, waits>>

NothingToClaim(w) ==
    /\ At(w, "claim") /\ Candidates(Claimable) = {}
    /\ run' = [run EXCEPT ![w].pc = IF run[w].emitted THEN "loop" ELSE "checkpoint",
                          ![w].emitted = FALSE]
    /\ UNCHANGED <<durable, job, admitted, waits>>

\* The ACK is enrolled before it is committed.
EnrolAck(w) ==
    /\ At(w, "ack")
    /\ job' = [job EXCEPT !.acks = @ \cup {run[w].stage}]
    /\ Goes(w, "consume")
    /\ UNCHANGED <<durable, admitted, waits>>

ConsumeAck(w) ==
    /\ At(w, "consume")
    /\ AckAs(w, run[w].stage)
    /\ Counts(w)
    /\ UNCHANGED <<job, admitted, waits>>

\* The end of run_trigger: the trigger is complete and owns nothing more.
Checkpoint(w) ==
    /\ At(w, "checkpoint")
    /\ job' = NoJob
    /\ admitted' = IF admitted = "none" THEN "none" ELSE "earlier"
    /\ run' = [v \in Workers |->
                 IF v = w THEN Idle
                 ELSE IF run[v].pc = "start" THEN [run[v] EXCEPT !.slot = "done"]
                 ELSE run[v]]
    /\ UNCHANGED <<durable, waits>>

\* A worker's transaction is refused because another worker has the writer
\* epoch, or the trigger raises: what it enrolled has vanished, or an earlier
\* trigger admitted the effect.  Either way the call ends and nothing commits.
Raises(w) ==
    \/ run[w].pc \notin {"idle", "start"} /\ writer # w
    \/ run[w].pc = "reconstruct" /\ Vanished
    \/ /\ run[w].pc = "admit" /\ run[w].stage \in policies
       /\ admitted = "earlier"

CallEnds(w) ==
    /\ Raises(w)
    /\ run' = [run EXCEPT ![w] = Idle]
    /\ UNCHANGED <<durable, job, writer, policies, admitted, path, counts>>

Crash(w) ==
    /\ crashes < MaxCrashes /\ crashes' = crashes + 1
    /\ run[w].pc # "idle"
    /\ run' = [run EXCEPT ![w] = Idle]
    /\ UNCHANGED <<durable, job, writer, policies, admitted, path, takeovers, waits>>

\* The lease clock passes lease_expires_at.
LeaseExpires ==
    /\ live # {}
    /\ live' = {}
    /\ UNCHANGED <<published, delivery, pending, certified, done, booking, job,
                   writer, policies, admitted, path, run, counts>>

-----------------------------------------------------------------------------
PathStep == PathPublish \/ PathClaim \/ PathConsume \/ PathExecute \/ PathComplete

Bounded(w) ==
    \/ Reconstruct(w) \/ NextAction(w) \/ Enrol(w) \/ Admit(w) \/ Execute(w)
    \/ CompleteEffect(w) \/ Release(w) \/ Egress(w) \/ Claim(w)
    \/ NothingToClaim(w) \/ EnrolAck(w) \/ ConsumeAck(w) \/ Checkpoint(w)
    \/ CallEnds(w)

WorkerStep(w) == NextSlot(w) \/ StartTrigger(w) \/ Bounded(w)

Next ==
    \/ PathStep \/ PathDies \/ LeaseExpires
    \/ \E w \in Workers :
         WorkerStep(w) \/ NotAdmitted(w) \/ ResourceWait(w) \/ Crash(w)

\* The schedule calls every worker again and again, a call that runs goes on,
\* and time passes.  Nothing makes the path go on, or a busy pool answer twice.
Spec ==
    /\ Init /\ [][Next]_vars
    /\ \A w \in Workers : WF_vars(WorkerStep(w))
    /\ WF_vars(LeaseExpires)

-----------------------------------------------------------------------------
TypeOK ==
    /\ published \subseteq Messages /\ live \subseteq Messages
    /\ pending \subseteq Messages /\ certified \subseteq Messages
    /\ delivery \in [Messages -> {"pending", "consumed", Path} \cup Workers]
    /\ done \in [Messages -> Nat] /\ \A c \in Messages : done[c] <= Terminal[c]
    /\ job \in [active : BOOLEAN, effects : SUBSET Messages,
                acks : SUBSET Messages, pubs : SUBSET Messages]
    /\ writer \in Workers \cup {NoWriter}
    /\ policies \subseteq {Dispatch}
    /\ booking \in {"none", "reserved", "released"}
    /\ admitted \in {"none", "this", "earlier"}
    /\ path \in [pc : {"publish", "claim", "consume", "execute", "done", "dead"},
                 stage : Messages]
    /\ run \in [Workers ->
         [pc : {"idle", "start", "reconstruct", "loop", "admit", "execute",
                "release", "egress", "claim", "ack", "consume", "checkpoint"},
          stage : Messages, actions : Nat,
          deferred : SUBSET Messages, emitted : BOOLEAN,
          slot : {"current", "done"}]]
    /\ crashes \in Nat /\ takeovers \in Nat /\ waits \in Nat

\* No domain runs ahead of the one that causes its work, whoever executes what
\* and wherever they die: _causal_predecessor_applied and the egress
\* functions move an entity only when the entity before it in the flow has
\* reached its terminal state - no journal before the settlement, no payment
\* before the invoice and its receivable, no delivery before the stock of the
\* shipped order has been consumed.
Causality ==
    \A c \in Messages : c > 1 /\ done[c] > 0 => done[c - 1] = Terminal[c - 1]

\* An accepted message is never forgotten and never applied in halves: its
\* Command (saved by consume) is there until the entity has reached its
\* terminal state, and a certificate (BusinessEffectService.complete) never
\* stands beside a pending Command or for an effect that has not happened.
AcceptedIsApplied ==
    \A c \in Messages :
      /\ delivery[c] = "consumed" => c \in pending \/ done[c] = Terminal[c]
      /\ c \in pending => delivery[c] = "consumed" /\ c \notin certified
      /\ c \in certified => done[c] = Terminal[c]

\* The actions that a trigger has committed: what it published, acknowledged
\* and finished, in all the calls that it took.
Spent ==
      Cardinality(job.pubs)
    + Cardinality({c \in job.acks : delivery[c] = "consumed"})
    + Cardinality(job.effects \ pending)
    + (IF booking = "released" /\ admitted = "this" THEN 1 ELSE 0)

\* max_actions bounds what one trigger commits although workers die between a
\* commit and its count, resume the trigger, and take it from each other
\* (_run_bounded charges committed work to the trigger that enrolled it).
BudgetKept == Spent <= MaxActions

\* A booking of the temporal ledger is given back exactly when the delivery
\* it was made for is certified: never while the shipment still needs it
\* (IntentResourceCoordinator.complete), and at the latest by the trigger
\* that made it, when a death left it reserved (reconcile_certified).
BookingFollowsDelivery ==
    /\ booking = "released" => Dispatch \in certified
    /\ booking = "reserved" /\ Dispatch \in certified => job.active /\ admitted = "this"

\* A trigger that has been started and cannot be completed any more: every
\* call for it raises.
Unresumable ==
    \/ job.active /\ Vanished
    \/ policies # {} /\ admitted = "earlier" /\ Dispatch \in pending

\* Once the reservation has been accepted, recovery alone takes the order to
\* its posted journal entry, unless the job has become unresumable.
FlowCompletes ==
    delivery[Reserved] = "consumed" ~> (Entry \in certified \/ Unresumable)

\* "An operator must be able to resume a persisted PC6 recovery job": a
\* trigger that has been started is completed by some later call
\* (run_trigger, RecoverySchedule.run_due).
TriggersComplete == job.active ~> ~job.active
=============================================================================
