----------------------- MODULE TradingRecoveryProofs -----------------------
(***************************************************************************)
(* Proofs about TradingRecovery, for any number of workers, any budget and *)
(* any number of crashes, waits and takeovers.                             *)
(***************************************************************************)
EXTENDS TradingRecovery, FiniteSetTheorems, TLAPS

\* The number of transitions of each message's intent.
LEMMA TerminalPositive ==
    \A c \in Messages : Terminal[c] \in Nat \ {0}
<1>1. /\ Len(Materialized) = 1 /\ Len(StockReserved) = 1 /\ Len(StockConsumed) = 1
      /\ Len(Journal) = 2
  BY DEF Materialized, StockReserved, StockConsumed, Journal
<1>2. Len(CardPayment) = 4 /\ Len(Fulfillment) = 5
  BY DEF CardPayment, Fulfillment
<1>3. Len(SalesOrder) = 5 /\ Len(Shipment) = 6
  BY DEF SalesOrder, Shipment
<1>4. QED
  BY <1>1, <1>2, <1>3
     DEF Messages, Terminal, Request, Reserve, Reserved, Consume, Dispatch, Delivered,
         Payment, Entry

LEMMA MessagesAreNumbers ==
    /\ Messages \subseteq Nat
    /\ Recoverable \subseteq Messages /\ Claimable \subseteq Messages
    /\ Request \in Messages /\ Entry \in Messages /\ Dispatch \in Messages
    /\ \A c \in Messages : c > 1 => c - 1 \in Messages
    /\ \A c \in Messages : c # Entry => c + 1 \in Messages
  BY DEF Messages, Recoverable, Claimable, Request, Reserved, Consume, Dispatch, Entry

\* The first of the intents that a worker may execute is one of them.
LEMMA FirstExists ==
    ASSUME NEW S \in SUBSET Messages, S # {}
    PROVE  (CHOOSE c \in S : \A d \in S : c <= d) \in S
<1>1. ASSUME \A c \in S : \E d \in S : d < c
      PROVE  FALSE
  <2>1. S \subseteq 1..8 /\ \A c \in S : \E d \in S : d < c
    BY <1>1 DEF Messages
  <2>2. 1 \notin S
    BY <2>1
  <2>3. 2 \notin S
    BY <2>1, <2>2
  <2>4. 3 \notin S
    BY <2>1, <2>2, <2>3
  <2>5. 4 \notin S
    BY <2>1, <2>2, <2>3, <2>4
  <2>6. 5 \notin S
    BY <2>1, <2>2, <2>3, <2>4, <2>5
  <2>7. 6 \notin S
    BY <2>1, <2>2, <2>3, <2>4, <2>5, <2>6
  <2>8. 7 \notin S
    BY <2>1, <2>2, <2>3, <2>4, <2>5, <2>6, <2>7
  <2>9. 8 \notin S
    BY <2>1, <2>2, <2>3, <2>4, <2>5, <2>6, <2>7, <2>8
  <2>10. PICK c \in S : TRUE
    OBVIOUS
  <2>11. c \in {1, 2, 3, 4, 5, 6, 7, 8}
    BY <2>1
  <2>12. QED
    BY <2>2, <2>3, <2>4, <2>5, <2>6, <2>7, <2>8, <2>9, <2>11
<1>2. PICK c \in S : \A d \in S : ~(d < c)
  BY <1>1
<1>3. \A d \in S : c <= d
  BY <1>2 DEF Messages
<1>4. \E x \in S : \A d \in S : x <= d
  BY <1>3
<1>5. QED
  BY <1>4

\* A set of messages has a natural number of elements.
LEMMA MessagesCounted ==
    ASSUME NEW S \in SUBSET Messages
    PROVE  Cardinality(S) \in Nat
<1>1. IsFiniteSet(Messages)
  <2>1. 1 \in Int /\ 8 \in Int
    OBVIOUS
  <2>2. IsFiniteSet(1..8)
    BY <2>1, FS_Interval
  <2>3. QED
    BY <2>2 DEF Messages
<1>2. IsFiniteSet(S)
  BY <1>1, FS_Subset
<1>3. QED
  BY <1>2, FS_CardinalityType

-----------------------------------------------------------------------------
(***************************************************************************)
(* The inductive invariant.  Causality alone is not inductive: that an     *)
(* intent is only executed after the effect of its cause follows from the  *)
(* Command it is read from, the Command from the acknowledgement that      *)
(* saved it, and the acknowledgement from the completed Command before it. *)
(***************************************************************************)

\* What the database holds has its type.
DurableTypeOK ==
    /\ published \subseteq Messages /\ live \subseteq Messages
    /\ pending \subseteq Messages /\ certified \subseteq Messages
    /\ delivery \in [Messages -> {"pending", "consumed", Path} \cup Workers]
    /\ done \in [Messages -> Nat] /\ \A c \in Messages : done[c] <= Terminal[c]
    /\ booking \in {"none", "reserved", "released"}

\* What the path and the workers hold has its type.
Runs == [pc : {"idle", "start", "reconstruct", "loop", "admit", "execute",
               "release", "egress", "claim", "ack", "consume", "checkpoint"},
         stage : Messages, actions : Nat, deferred : SUBSET Messages,
         emitted : BOOLEAN, slot : {"current", "done"}]

ControlTypeOK ==
    /\ job \in [active : BOOLEAN, effects : SUBSET Messages,
                acks : SUBSET Messages, pubs : SUBSET Messages]
    /\ writer \in Workers \cup {NoWriter}
    /\ policies \subseteq {Dispatch}
    /\ admitted \in {"none", "this", "earlier"}
    /\ path \in [pc : {"publish", "claim", "consume", "execute", "done", "dead"},
                 stage : Messages]
    /\ run \in [Workers -> Runs]
    /\ crashes \in Nat /\ takeovers \in Nat /\ waits \in Nat

\* An entity moves only for an accepted message, and a message is accepted
\* only after the effect of the message before it.
StartedConsumed == \A c \in Messages : done[c] > 0 => delivery[c] = "consumed"
Ordered ==
    \A c \in Messages :
        c > 1 /\ delivery[c] = "consumed" => done[c - 1] = Terminal[c - 1]

Flow == AcceptedIsApplied /\ StartedConsumed /\ Ordered

\* Whoever executes an intent executes one that is pending, and the path is
\* fenced by the first writer epoch.
PathOwns == path.pc = "execute" => path.stage \in pending
PathAlone == path.pc \notin {"done", "dead"} => writer = NoWriter
WorkerOwns ==
    \A w \in Workers :
        writer = w /\ run[w].pc \in {"admit", "execute"} => run[w].stage \in pending

Inv ==
    /\ DurableTypeOK /\ ControlTypeOK /\ Flow
    /\ PathOwns /\ PathAlone /\ WorkerOwns

LEMMA TypeParts == DurableTypeOK /\ ControlTypeOK <=> TypeOK
  BY DEF DurableTypeOK, ControlTypeOK, Runs, TypeOK

-----------------------------------------------------------------------------
\* What the operations that the path and the workers share do to the flow.

LEMMA ClaimKeepsFlow ==
    ASSUME DurableTypeOK, Flow, NEW a \in Workers \cup {Path}, NEW c \in Messages,
           Free(c), ClaimFor(a, c)
    PROVE  DurableTypeOK' /\ Flow' /\ UNCHANGED pending
<1>1. delivery[c] # "consumed" /\ a # "consumed" /\ c \in DOMAIN delivery
  BY ActorsDiffer DEF Free, DurableTypeOK
<1>2. \A d \in Messages : delivery'[d] = "consumed" <=> delivery[d] = "consumed"
  BY <1>1 DEF ClaimFor, DurableTypeOK
<1>3. DurableTypeOK'
  BY DEF ClaimFor, DurableTypeOK
<1>4. UNCHANGED <<pending, certified, done>>
  BY DEF ClaimFor
<1>5. AcceptedIsApplied'
  BY <1>2, <1>4 DEF Flow, AcceptedIsApplied
<1>6. StartedConsumed' /\ Ordered'
  BY <1>2, <1>4 DEF Flow, StartedConsumed, Ordered
<1>7. QED
  BY <1>3, <1>4, <1>5, <1>6 DEF Flow

\* The acknowledgement saves the Command, and only after the effect before it.
LEMMA AckKeepsFlow ==
    ASSUME DurableTypeOK, Flow, NEW a \in Workers \cup {Path}, NEW c \in Messages,
           AckAs(a, c)
    PROVE  DurableTypeOK' /\ Flow' /\ pending' = pending \cup {c}
<1>1. delivery[c] # "consumed"
  BY ActorsDiffer DEF AckAs
<1>2. /\ UNCHANGED <<certified, done>> /\ pending' = pending \cup {c}
      /\ delivery'[c] = "consumed"
      /\ \A d \in Messages \ {c} : delivery'[d] = delivery[d]
  BY DEF AckAs, DurableTypeOK
<1>3. DurableTypeOK'
  BY DEF AckAs, DurableTypeOK
<1>4. c \notin certified
  BY <1>1, TerminalPositive DEF Flow, AcceptedIsApplied, StartedConsumed, DurableTypeOK
<1>5. AcceptedIsApplied'
  BY <1>2, <1>4 DEF Flow, AcceptedIsApplied
<1>6. StartedConsumed'
  BY <1>2 DEF Flow, StartedConsumed
<1>7. c > 1 => done[c - 1] = Terminal[c - 1]
  BY MessagesAreNumbers DEF AckAs, Applied, Flow, AcceptedIsApplied
<1>8. Ordered'
  BY <1>2, <1>7 DEF Flow, Ordered
<1>9. QED
  BY <1>2, <1>3, <1>5, <1>6, <1>8 DEF Flow

\* A transition of a pending intent moves an entity whose cause has had its
\* full effect.
LEMMA TransitionKeepsFlow ==
    ASSUME DurableTypeOK, Flow, NEW c \in Messages, c \in pending, Transition(c)
    PROVE  DurableTypeOK' /\ Flow' /\ UNCHANGED pending
<1>1. delivery[c] = "consumed" /\ c \notin certified
  BY DEF Flow, AcceptedIsApplied
<1>2. /\ UNCHANGED <<delivery, pending, certified>>
      /\ done'[c] = done[c] + 1 /\ done[c] < Terminal[c]
      /\ \A d \in Messages \ {c} : done'[d] = done[d]
  BY DEF Transition, DurableTypeOK
<1>3. Consume \in Messages
  BY DEF Consume, Messages
<1>4. done' \in [Messages -> Nat] /\ \A d \in Messages : done'[d] <= Terminal[d]
  BY <1>2, TerminalPositive DEF Transition, DurableTypeOK
<1>5. DurableTypeOK'
  BY <1>3, <1>4 DEF Transition, DurableTypeOK
<1>6. AcceptedIsApplied'
  BY <1>1, <1>2 DEF Flow, AcceptedIsApplied
<1>7. StartedConsumed'
  BY <1>1, <1>2 DEF Flow, StartedConsumed
<1>8. \A d \in Messages : d > 1 /\ d - 1 = c => delivery[d] # "consumed"
  BY <1>2, TerminalPositive DEF Flow, Ordered, DurableTypeOK
<1>9. Ordered'
  BY <1>2, <1>8, MessagesAreNumbers DEF Flow, Ordered
<1>10. QED
  BY <1>2, <1>5, <1>6, <1>7, <1>9 DEF Flow

\* A Command is deleted, and certified, only at the terminal state.
LEMMA CompleteKeepsFlow ==
    ASSUME DurableTypeOK, Flow, NEW c \in Messages, Complete(c)
    PROVE  DurableTypeOK' /\ Flow' /\ pending' = pending \ {c}
<1>1. /\ UNCHANGED <<delivery, done>> /\ done[c] = Terminal[c]
      /\ pending' = pending \ {c} /\ certified' \subseteq certified \cup {c}
  BY DEF Complete
<1>2. DurableTypeOK'
  BY <1>1 DEF Complete, DurableTypeOK
<1>3. AcceptedIsApplied'
  BY <1>1 DEF Flow, AcceptedIsApplied
<1>4. StartedConsumed' /\ Ordered'
  BY <1>1 DEF Flow, StartedConsumed, Ordered
<1>5. QED
  BY <1>1, <1>2, <1>3, <1>4 DEF Flow

\* A step that leaves deliveries, Commands, certificates and entities alone.
LEMMA FlowUntouched ==
    ASSUME Flow, UNCHANGED <<delivery, pending, certified, done>>
    PROVE  Flow'
  BY DEF Flow, AcceptedIsApplied, StartedConsumed, Ordered

-----------------------------------------------------------------------------
\* The steps of the path and of time: no worker has claimed the epoch yet.

LEMMA InitInv == Init => Inv
<1>1. SUFFICES ASSUME Init PROVE Inv
  OBVIOUS
<1>2. DurableTypeOK
  BY <1>1, TerminalPositive DEF Init, DurableTypeOK
<1>3. Idle \in Runs
  BY MessagesAreNumbers DEF Idle, Runs
<1>4. ControlTypeOK
  BY <1>1, <1>3, MessagesAreNumbers DEF Init, ControlTypeOK, NoJob
<1>5. Flow
  BY <1>1 DEF Init, Flow, AcceptedIsApplied, StartedConsumed, Ordered
<1>6. PathOwns /\ PathAlone /\ WorkerOwns
  BY <1>1, ActorsDiffer DEF Init, PathOwns, PathAlone, WorkerOwns
<1>7. QED
  BY <1>2, <1>4, <1>5, <1>6 DEF Inv

\* The path goes on: everything but the flow and its own place stays.
LEMMA PathKeeps ==
    ASSUME Inv, path.pc \notin {"done", "dead"},
           UNCHANGED <<job, writer, policies, admitted, run, counts>>,
           DurableTypeOK', Flow',
           path' \in [pc : {"publish", "claim", "consume", "execute", "done", "dead"},
                      stage : Messages],
           path'.pc = "execute" => path'.stage \in pending'
    PROVE  Inv'
<1>1. writer = NoWriter /\ writer' = NoWriter
  BY DEF Inv, PathAlone
<1>2. ControlTypeOK'
  BY DEF Inv, ControlTypeOK, counts
<1>3. PathOwns' /\ PathAlone' /\ WorkerOwns'
  BY <1>1, ActorsDiffer DEF PathOwns, PathAlone, WorkerOwns
<1>4. QED
  BY <1>2, <1>3 DEF Inv

LEMMA PathStepKeeps == ASSUME Inv, PathStep \/ PathDies PROVE Inv'
<1> USE DEF Inv
<1>1. path.stage \in Messages /\ Path \in Workers \cup {Path}
  BY DEF ControlTypeOK
<1>2. CASE PathPublish
  <2>1. DurableTypeOK'
    BY <1>1, <1>2 DEF PathPublish, DurableTypeOK
  <2>2. Flow'
    BY <1>2, FlowUntouched DEF PathPublish
  <2>3. QED
    BY <1>1, <1>2, <2>1, <2>2, PathKeeps DEF PathPublish, PathMay, PathGoes
<1>3. CASE PathClaim
  <2>1. Free(path.stage) /\ ClaimFor(Path, path.stage)
    BY <1>3 DEF PathClaim, Candidates
  <2>2. DurableTypeOK' /\ Flow'
    BY <1>1, <2>1, ClaimKeepsFlow
  <2>3. QED
    BY <1>1, <1>3, <2>2, PathKeeps DEF PathClaim, PathMay, PathGoes
<1>4. CASE PathConsume
  <2>1. DurableTypeOK' /\ Flow' /\ path.stage \in pending'
    BY <1>1, <1>4, AckKeepsFlow DEF PathConsume
  <2>2. QED
    BY <1>1, <1>4, <2>1, PathKeeps DEF PathConsume, PathMay, PathGoes
<1>5. CASE PathExecute
  <2>1. path.stage \in pending
    BY <1>5 DEF PathExecute, PathMay, PathOwns
  <2>2. DurableTypeOK' /\ Flow' /\ path.stage \in pending'
    BY <1>1, <1>5, <2>1, TransitionKeepsFlow DEF PathExecute
  <2>3. path' = path /\ path.pc = "execute"
    BY <1>5 DEF PathExecute, PathMay
  <2>4. QED
    BY <1>5, <2>2, <2>3, PathKeeps DEF PathExecute, PathMay, ControlTypeOK
<1>6. CASE PathComplete
  <2>1. DurableTypeOK' /\ Flow'
    BY <1>1, <1>6, CompleteKeepsFlow DEF PathComplete
  <2>2. path' \in [pc : {"publish", "done"}, stage : Messages]
    <3>1. CASE path.stage = Entry
      BY <1>6, <3>1, MessagesAreNumbers DEF PathComplete, PathGoes
    <3>2. CASE path.stage # Entry
      <4>1. path.stage + 1 \in Messages
        BY <1>1, <3>2, MessagesAreNumbers
      <4>2. path' = [pc |-> "publish", stage |-> path.stage + 1]
        BY <1>6, <3>2 DEF PathComplete, PathGoes
      <4>3. QED
        BY <4>1, <4>2
    <3>3. QED
      BY <3>1, <3>2
  <2>3. QED
    BY <1>6, <2>1, <2>2, PathKeeps DEF PathComplete, PathMay
<1>7. CASE PathDies
  <2>1. DurableTypeOK' /\ Flow'
    BY <1>7, FlowUntouched DEF PathDies, durable, DurableTypeOK
  <2>2. path' = [pc |-> "dead", stage |-> Request]
    BY <1>7 DEF PathDies, Dead
  <2>3. QED
    BY <1>7, <2>1, <2>2, MessagesAreNumbers, PathKeeps DEF PathDies
<1>8. QED
  BY <1>2, <1>3, <1>4, <1>5, <1>6, <1>7 DEF PathStep

LEMMA LeaseKeeps == ASSUME Inv, LeaseExpires PROVE Inv'
<1>1. DurableTypeOK'
  BY DEF Inv, LeaseExpires, DurableTypeOK
<1>2. ControlTypeOK'
  BY DEF Inv, LeaseExpires, ControlTypeOK, counts
<1>3. Flow'
  BY FlowUntouched DEF Inv, LeaseExpires
<1>4. PathOwns' /\ PathAlone' /\ WorkerOwns'
  BY DEF Inv, LeaseExpires, PathOwns, PathAlone, WorkerOwns
<1>5. QED
  BY <1>1, <1>2, <1>3, <1>4 DEF Inv

-----------------------------------------------------------------------------
\* The steps of a worker that owns the epoch: the path is over, and no other
\* worker executes anything.

LEMMA OwnerKeeps ==
    ASSUME Inv, NEW w \in Workers, NEW pc, At(w, pc),
           DurableTypeOK', Flow',
           job' \in [active : BOOLEAN, effects : SUBSET Messages,
                     acks : SUBSET Messages, pubs : SUBSET Messages],
           admitted' \in {"none", "this", "earlier"}, waits' \in Nat,
           run' \in [Workers -> Runs],
           run'[w].pc \in {"admit", "execute"} => run'[w].stage \in pending'
    PROVE  Inv'
<1>1. writer = w /\ writer' = w /\ w # NoWriter /\ path' = path
  BY ActorsDiffer DEF At
<1>2. path.pc \in {"done", "dead"}
  BY <1>1 DEF Inv, PathAlone
<1>3. ControlTypeOK'
  BY DEF Inv, ControlTypeOK, At
<1>4. PathOwns' /\ PathAlone' /\ WorkerOwns'
  BY <1>1, <1>2 DEF PathOwns, PathAlone, WorkerOwns
<1>5. QED
  BY <1>3, <1>4 DEF Inv

\* A worker that goes on keeps a well-typed run.
LEMMA GoesTyped ==
    ASSUME ControlTypeOK, NEW w \in Workers,
           NEW pc \in {"idle", "start", "reconstruct", "loop", "admit", "execute",
               "release", "egress", "claim", "ack", "consume", "checkpoint"}, Goes(w, pc)
    PROVE  /\ run' \in [Workers -> Runs]
           /\ run'[w].pc = pc /\ run'[w].stage = run[w].stage
  BY DEF ControlTypeOK, Runs, Goes

LEMMA CountsTyped ==
    ASSUME ControlTypeOK, NEW w \in Workers, Counts(w)
    PROVE  run' \in [Workers -> Runs] /\ run'[w].pc = "loop"
  BY MessagesAreNumbers DEF ControlTypeOK, Runs, Counts

LEMMA DeferredTyped ==
    ASSUME NEW r \in Runs, NEW D \in SUBSET Messages
    PROVE  [r EXCEPT !.pc = "loop", !.stage = Request, !.deferred = D] \in Runs
  BY MessagesAreNumbers DEF Runs

LEMMA DeferTyped ==
    ASSUME ControlTypeOK, NEW w \in Workers, Defer(w)
    PROVE  run' \in [Workers -> Runs] /\ run'[w].pc = "loop" /\ waits' \in Nat
<1>1. run[w].deferred \cup {run[w].stage} \in SUBSET Messages
  BY DEF ControlTypeOK, Runs
<1>2. waits' \in Nat
  BY DEF Defer, ControlTypeOK
<1>3. run' = [run EXCEPT ![w].pc = "loop", ![w].stage = Request,
                ![w].deferred = run[w].deferred \cup {run[w].stage}]
  BY DEF Defer, ControlTypeOK
<1>4. run[w] \in Runs /\ run \in [Workers -> Runs]
  BY DEF ControlTypeOK
<1>5. [run[w] EXCEPT !.pc = "loop", !.stage = Request,
          !.deferred = run[w].deferred \cup {run[w].stage}] \in Runs
  BY <1>1, <1>4, DeferredTyped
<1>6. run' = [run EXCEPT ![w] = [run[w] EXCEPT !.pc = "loop", !.stage = Request,
                  !.deferred = run[w].deferred \cup {run[w].stage}]]
  BY <1>3, <1>4
<1>7. run' \in [Workers -> Runs]
  BY <1>4, <1>5, <1>6
<1>8. run'[w].pc = "loop"
  BY <1>4, <1>6 DEF Runs
<1>9. QED
  BY <1>2, <1>7, <1>8

LEMMA IdleTyped == Idle \in Runs /\ [Idle EXCEPT !.pc = "start"] \in Runs
  BY MessagesAreNumbers DEF Idle, Runs

\* The budget is counted in natural numbers.
LEMMA CommittedIsNatural ==
    ASSUME ControlTypeOK PROVE Committed \in Nat
<1>1. /\ job.pubs \subseteq Messages
      /\ {c \in job.acks : delivery[c] = "consumed"} \subseteq Messages
      /\ job.effects \cap certified \subseteq Messages
  BY DEF ControlTypeOK
<1>2. /\ Cardinality(job.pubs) \in Nat
      /\ Cardinality({c \in job.acks : delivery[c] = "consumed"}) \in Nat
      /\ Cardinality(job.effects \cap certified) \in Nat
  BY <1>1, MessagesCounted
<1>3. QED
  BY <1>2 DEF Committed

\* The steps that only read the database, or move the job and the booking.
LEMMA LoopKeeps ==
    ASSUME Inv, NEW w \in Workers,
           \/ Reconstruct(w) \/ NextAction(w) \/ Release(w) \/ Egress(w)
           \/ NothingToClaim(w) \/ Checkpoint(w)
    PROVE  Inv'
<1> USE DEF Inv
<1>1. run[w] \in Runs /\ run \in [Workers -> Runs]
  BY DEF ControlTypeOK
<1>2. CASE Reconstruct(w)
  <2>1. DurableTypeOK' /\ Flow'
    BY <1>2, FlowUntouched DEF Reconstruct, DurableTypeOK
  <2>2. PICK n \in Nat, pc \in {"checkpoint", "loop"} :
           run' = [run EXCEPT ![w].actions = n, ![w].pc = pc]
    <3> DEFINE spent == Committed + (IF Settled THEN 1 ELSE 0)
               pc == IF spent >= MaxActions THEN "checkpoint" ELSE "loop"
    <3>1. spent \in Nat
      BY CommittedIsNatural
    <3>2. pc \in {"checkpoint", "loop"}
      OBVIOUS
    <3>3. run' = [run EXCEPT ![w].actions = spent, ![w].pc = pc]
      BY <1>2, Zenon DEF Reconstruct
    <3>4. QED
      BY <3>1, <3>2, <3>3, Zenon
  <2>3. run' \in [Workers -> Runs] /\ run'[w].pc \in {"checkpoint", "loop"}
    BY <1>1, <2>2 DEF Runs
  <2>4. At(w, "reconstruct") /\ UNCHANGED <<job, admitted, waits>>
    BY <1>2 DEF Reconstruct
  <2>5. QED
    BY <2>1, <2>3, <2>4, OwnerKeeps DEF ControlTypeOK
<1>3. CASE NextAction(w)
  <2> DEFINE effects == (pending \cap Recoverable) \ run[w].deferred
             first == CHOOSE c \in effects : \A d \in effects : c <= d
  <2>1. DurableTypeOK' /\ Flow' /\ pending' = pending
    BY <1>3, FlowUntouched DEF NextAction, durable, DurableTypeOK
  <2>2. effects \in SUBSET Messages
    BY DEF DurableTypeOK
  <2>3. effects # {} => first \in effects
    BY <2>2, FirstExists
  <2>4. \/ run' = [run EXCEPT ![w] = [run[w] EXCEPT !.pc = "checkpoint"]]
        \/ run' = [run EXCEPT ![w] = [run[w] EXCEPT !.pc = "admit", !.stage = first]]
           /\ effects # {}
        \/ run' = [run EXCEPT ![w] = [run[w] EXCEPT !.pc = "egress"]]
    <3>1. CASE run[w].actions >= MaxActions
      BY <1>3, <3>1, Zenon DEF NextAction
    <3>2. CASE ~(run[w].actions >= MaxActions) /\ effects # {}
      BY <1>3, <3>2, Zenon DEF NextAction
    <3>3. CASE ~(run[w].actions >= MaxActions) /\ ~(effects # {})
      BY <1>3, <3>3, Zenon DEF NextAction
    <3>4. QED
      BY <3>1, <3>2, <3>3
  <2>5. effects # {} => first \in Messages /\ first \in pending
    BY <2>2, <2>3
  <2> HIDE DEF effects, first
  <2>6. /\ run' \in [Workers -> Runs]
        /\ run'[w].pc \in {"admit", "execute"} => run'[w].stage \in pending
    <3>1. CASE run' = [run EXCEPT ![w] = [run[w] EXCEPT !.pc = "checkpoint"]]
      BY <1>1, <3>1 DEF Runs
    <3>2. CASE run' = [run EXCEPT ![w] = [run[w] EXCEPT !.pc = "admit", !.stage = first]]
               /\ effects # {}
      <4>1. [run[w] EXCEPT !.pc = "admit", !.stage = first] \in Runs
        BY <1>1, <2>5, <3>2 DEF Runs
      <4>2. run'[w].stage = first
        BY <1>1, <3>2 DEF Runs
      <4>3. QED
        BY <1>1, <2>5, <3>2, <4>1, <4>2
    <3>3. CASE run' = [run EXCEPT ![w] = [run[w] EXCEPT !.pc = "egress"]]
      BY <1>1, <3>3 DEF Runs
    <3>4. QED
      BY <2>4, <3>1, <3>2, <3>3
  <2>7. At(w, "loop") /\ UNCHANGED <<job, admitted, waits>>
    BY <1>3 DEF NextAction
  <2>8. QED
    BY <2>1, <2>6, <2>7, OwnerKeeps DEF ControlTypeOK
<1>4. CASE Release(w)
  <2>1. DurableTypeOK' /\ Flow'
    BY <1>4, FlowUntouched DEF Release, DurableTypeOK
  <2>2. run' \in [Workers -> Runs] /\ run'[w].pc = "loop"
    BY <1>4, CountsTyped DEF Release
  <2>3. At(w, "release") /\ UNCHANGED <<job, admitted, waits>>
    BY <1>4 DEF Release
  <2>4. QED
    BY <2>1, <2>2, <2>3, OwnerKeeps DEF ControlTypeOK
<1>5. CASE Egress(w)
  <2>1. Publishable \in SUBSET Messages
    BY MessagesAreNumbers DEF Publishable
  <2>2. DurableTypeOK' /\ Flow'
    BY <1>5, <2>1, FlowUntouched DEF Egress, DurableTypeOK
  <2>3. run[w].actions + Cardinality(Publishable) \in Nat
    BY <1>1, <2>1, MessagesCounted DEF Runs
  <2>4. PICK n \in Nat, b \in BOOLEAN, pc \in {"checkpoint", "claim"} :
           run' = [run EXCEPT ![w].actions = n, ![w].emitted = b, ![w].pc = pc]
    <3> DEFINE spent == run[w].actions + Cardinality(Publishable)
               pc == IF spent >= MaxActions THEN "checkpoint" ELSE "claim"
    <3>1. spent \in Nat /\ (Publishable # {}) \in BOOLEAN
      BY <2>3, Zenon
    <3>2. pc \in {"checkpoint", "claim"}
      OBVIOUS
    <3>3. run' = [run EXCEPT ![w].actions = spent, ![w].emitted = Publishable # {},
                             ![w].pc = pc]
      BY <1>5, Zenon DEF Egress
    <3>4. QED
      BY <3>1, <3>2, <3>3, Zenon
  <2>5. run' \in [Workers -> Runs] /\ run'[w].pc \in {"checkpoint", "claim"}
    BY <1>1, <2>4 DEF Runs
  <2>6. job' \in [active : BOOLEAN, effects : SUBSET Messages,
                  acks : SUBSET Messages, pubs : SUBSET Messages]
    BY <1>5, <2>1 DEF Egress, ControlTypeOK
  <2>7. At(w, "egress") /\ UNCHANGED <<admitted, waits>>
    BY <1>5 DEF Egress
  <2>8. QED
    BY <2>2, <2>5, <2>6, <2>7, OwnerKeeps DEF ControlTypeOK
<1>6. CASE NothingToClaim(w)
  <2>1. DurableTypeOK' /\ Flow'
    BY <1>6, FlowUntouched DEF NothingToClaim, durable, DurableTypeOK
  <2>2. run' \in [Workers -> Runs] /\ run'[w].pc \in {"checkpoint", "loop"}
    BY <1>1, <1>6 DEF NothingToClaim, Runs
  <2>3. At(w, "claim") /\ UNCHANGED <<job, admitted, waits>>
    BY <1>6 DEF NothingToClaim
  <2>4. QED
    BY <2>1, <2>2, <2>3, OwnerKeeps DEF ControlTypeOK
<1>7. CASE Checkpoint(w)
  <2>1. DurableTypeOK' /\ Flow'
    BY <1>7, FlowUntouched DEF Checkpoint, durable, DurableTypeOK
  <2>2. \A v \in Workers : [run[v] EXCEPT !.slot = "done"] \in Runs
    BY <1>1 DEF Runs
  <2>3. run' \in [Workers -> Runs]
    BY <1>1, <1>7, <2>2, IdleTyped DEF Checkpoint
  <2>4. run'[w].pc = "idle"
    BY <1>7 DEF Checkpoint, Idle
  <2>5. /\ job' \in [active : BOOLEAN, effects : SUBSET Messages,
                     acks : SUBSET Messages, pubs : SUBSET Messages]
        /\ admitted' \in {"none", "this", "earlier"}
    BY <1>7 DEF Checkpoint, NoJob
  <2>6. At(w, "checkpoint") /\ UNCHANGED waits
    BY <1>7 DEF Checkpoint
  <2>7. QED
    BY <2>1, <2>3, <2>4, <2>5, <2>6, OwnerKeeps DEF ControlTypeOK
<1>8. QED
  BY <1>2, <1>3, <1>4, <1>5, <1>6, <1>7

\* The steps that claim, acknowledge, admit, execute and complete.
LEMMA WorkKeeps ==
    ASSUME Inv, NEW w \in Workers,
           \/ Enrol(w) \/ Admit(w) \/ NotAdmitted(w) \/ Execute(w) \/ ResourceWait(w)
           \/ CompleteEffect(w) \/ Claim(w) \/ EnrolAck(w) \/ ConsumeAck(w)
    PROVE  Inv'
<1> USE DEF Inv
<1>1. /\ run[w] \in Runs /\ run \in [Workers -> Runs] /\ w \in Workers \cup {Path}
      /\ run[w].stage \in Messages
  BY DEF ControlTypeOK, Runs
<1>2. ASSUME At(w, "admit") \/ At(w, "execute") PROVE run[w].stage \in pending
  BY <1>2 DEF At, WorkerOwns
<1>3. CASE Enrol(w)
  <2>1. DurableTypeOK' /\ Flow' /\ run[w].stage \in pending'
    BY <1>2, <1>3, FlowUntouched DEF Enrol, durable, DurableTypeOK
  <2>2. run' \in [Workers -> Runs] /\ run'[w].stage = run[w].stage
    BY <1>3, GoesTyped DEF Enrol
  <2>3. job' \in [active : BOOLEAN, effects : SUBSET Messages,
                  acks : SUBSET Messages, pubs : SUBSET Messages]
    BY <1>1, <1>3 DEF Enrol, ControlTypeOK
  <2>4. At(w, "admit") /\ UNCHANGED <<admitted, waits>>
    BY <1>3 DEF Enrol
  <2>5. QED
    BY <2>1, <2>2, <2>3, <2>4, OwnerKeeps DEF ControlTypeOK
<1>4. CASE Admit(w)
  <2>1. DurableTypeOK' /\ Flow' /\ run[w].stage \in pending'
    BY <1>2, <1>4, FlowUntouched DEF Admit, DurableTypeOK
  <2>2. run' \in [Workers -> Runs] /\ run'[w].stage = run[w].stage
    BY <1>4, GoesTyped DEF Admit
  <2>3. At(w, "admit") /\ UNCHANGED <<job, waits>> /\ admitted' = "this"
    BY <1>4 DEF Admit
  <2>4. QED
    BY <2>1, <2>2, <2>3, OwnerKeeps DEF ControlTypeOK
<1>5. CASE NotAdmitted(w) \/ ResourceWait(w)
  <2>1. DurableTypeOK' /\ Flow'
    BY <1>5, FlowUntouched DEF NotAdmitted, ResourceWait, durable, DurableTypeOK
  <2>2. run' \in [Workers -> Runs] /\ run'[w].pc = "loop" /\ waits' \in Nat
    BY <1>5, DeferTyped DEF NotAdmitted, ResourceWait
  <2>3. PICK pc \in {"admit", "execute"} : At(w, pc)
    BY <1>5 DEF NotAdmitted, ResourceWait
  <2>4. UNCHANGED <<job, admitted>>
    BY <1>5 DEF NotAdmitted, ResourceWait
  <2>5. QED
    BY <2>1, <2>2, <2>3, <2>4, OwnerKeeps DEF ControlTypeOK
<1>6. CASE Execute(w)
  <2>1. At(w, "execute") /\ UNCHANGED <<job, admitted, run, waits>>
    BY <1>6 DEF Execute
  <2>2. run[w].stage \in pending
    BY <1>2, <2>1
  <2>3. DurableTypeOK' /\ Flow' /\ run[w].stage \in pending'
    BY <1>1, <1>6, <2>2, TransitionKeepsFlow DEF Execute
  <2>4. QED
    BY <2>1, <2>3, OwnerKeeps DEF ControlTypeOK
<1>7. CASE CompleteEffect(w)
  <2>1. DurableTypeOK' /\ Flow'
    BY <1>1, <1>7, CompleteKeepsFlow DEF CompleteEffect
  <2>2. run' \in [Workers -> Runs] /\ run'[w].pc = "release"
    BY <1>7, GoesTyped DEF CompleteEffect
  <2>3. At(w, "execute") /\ UNCHANGED <<job, admitted, waits>>
    BY <1>7 DEF CompleteEffect
  <2>4. QED
    BY <2>1, <2>2, <2>3, OwnerKeeps DEF ControlTypeOK
<1>8. CASE Claim(w)
  <2>1. PICK c \in Candidates(Claimable) :
           /\ ClaimFor(w, c)
           /\ run' = [run EXCEPT ![w].pc = "ack", ![w].stage = c, ![w].emitted = FALSE]
    BY <1>8 DEF Claim
  <2>2. c \in Messages /\ Free(c)
    BY MessagesAreNumbers DEF Candidates
  <2>3. DurableTypeOK' /\ Flow'
    BY <1>1, <2>1, <2>2, ClaimKeepsFlow
  <2>4. run' \in [Workers -> Runs] /\ run'[w].pc = "ack"
    BY <1>1, <2>1, <2>2 DEF Runs
  <2>5. At(w, "claim") /\ UNCHANGED <<job, admitted, waits>>
    BY <1>8 DEF Claim
  <2>6. QED
    BY <2>3, <2>4, <2>5, OwnerKeeps DEF ControlTypeOK
<1>9. CASE EnrolAck(w)
  <2>1. DurableTypeOK' /\ Flow'
    BY <1>9, FlowUntouched DEF EnrolAck, durable, DurableTypeOK
  <2>2. run' \in [Workers -> Runs] /\ run'[w].pc = "consume"
    BY <1>9, GoesTyped DEF EnrolAck
  <2>3. job' \in [active : BOOLEAN, effects : SUBSET Messages,
                  acks : SUBSET Messages, pubs : SUBSET Messages]
    BY <1>1, <1>9 DEF EnrolAck, ControlTypeOK
  <2>4. At(w, "ack") /\ UNCHANGED <<admitted, waits>>
    BY <1>9 DEF EnrolAck
  <2>5. QED
    BY <2>1, <2>2, <2>3, <2>4, OwnerKeeps DEF ControlTypeOK
<1>10. CASE ConsumeAck(w)
  <2>1. DurableTypeOK' /\ Flow'
    BY <1>1, <1>10, AckKeepsFlow DEF ConsumeAck
  <2>2. run' \in [Workers -> Runs] /\ run'[w].pc = "loop"
    BY <1>10, CountsTyped DEF ConsumeAck
  <2>3. At(w, "consume") /\ UNCHANGED <<job, admitted, waits>>
    BY <1>10 DEF ConsumeAck
  <2>4. QED
    BY <2>1, <2>2, <2>3, OwnerKeeps DEF ControlTypeOK
<1>11. QED
  BY <1>3, <1>4, <1>5, <1>6, <1>7, <1>8, <1>9, <1>10

-----------------------------------------------------------------------------
\* The steps in which a call begins or ends.

LEMMA CallKeeps ==
    ASSUME Inv, NEW w \in Workers,
           NextSlot(w) \/ StartTrigger(w) \/ CallEnds(w) \/ Crash(w)
    PROVE  Inv'
<1> USE DEF Inv
<1>1. run[w] \in Runs /\ run \in [Workers -> Runs]
  BY DEF ControlTypeOK
<1>2. DurableTypeOK' /\ Flow' /\ pending' = pending
  BY FlowUntouched DEF NextSlot, StartTrigger, CallEnds, Crash, durable, DurableTypeOK
<1>3. CASE NextSlot(w) \/ CallEnds(w) \/ Crash(w)
  <2>1. /\ UNCHANGED <<job, writer, policies, admitted, path, takeovers, waits>>
        /\ crashes' \in Nat
    <3>1. UNCHANGED <<job, writer, policies, admitted, path, takeovers, waits>>
      BY <1>3 DEF NextSlot, CallEnds, Crash, counts
    <3>2. crashes' = crashes \/ crashes' = crashes + 1
      BY <1>3 DEF NextSlot, CallEnds, Crash, counts
    <3>3. QED
      BY <3>1, <3>2 DEF ControlTypeOK
  <2>2. PICK r \in {Idle, [Idle EXCEPT !.pc = "start"]} : run' = [run EXCEPT ![w] = r]
    <3>1. CASE NextSlot(w)
      BY <3>1, Zenon DEF NextSlot
    <3>2. CASE CallEnds(w) \/ Crash(w)
      BY <3>2, Zenon DEF CallEnds, Crash
    <3>3. QED
      BY <1>3, <3>1, <3>2
  <2>3. r \in Runs /\ r.pc \notin {"admit", "execute"}
    <3>1. Idle.pc = "idle" /\ [Idle EXCEPT !.pc = "start"].pc = "start"
      BY DEF Idle
    <3>2. QED
      BY <2>2, <3>1, IdleTyped
  <2>4. run' \in [Workers -> Runs] /\ \A v \in Workers : v # w => run'[v] = run[v]
    BY <1>1, <2>2, <2>3
  <2>5. run'[w].pc \notin {"admit", "execute"}
    BY <1>1, <2>2, <2>3
  <2>6. ControlTypeOK'
    BY <2>1, <2>4 DEF ControlTypeOK
  <2>7. PathOwns' /\ PathAlone'
    BY <1>2, <2>1 DEF PathOwns, PathAlone
  <2>8. WorkerOwns'
    BY <1>2, <2>1, <2>4, <2>5 DEF WorkerOwns
  <2>9. QED
    BY <1>2, <2>6, <2>7, <2>8
<1>4. CASE StartTrigger(w)
  <2>1. writer' = w /\ UNCHANGED <<policies, admitted, crashes, waits>>
    BY <1>4 DEF StartTrigger
  <2>2. path' \in [pc : {"done", "dead"}, stage : Messages]
    <3>1. path' = Dead(path)
      BY <1>4 DEF StartTrigger
    <3>2. CASE path.pc = "done"
      BY <3>1, <3>2 DEF Dead, ControlTypeOK
    <3>3. CASE path.pc # "done"
      BY <3>1, <3>3, MessagesAreNumbers DEF Dead
    <3>4. QED
      BY <3>2, <3>3
  <2>3. takeovers' \in Nat
    BY <1>4 DEF StartTrigger, ControlTypeOK
  <2>4. Goes(w, "idle") \/ Goes(w, "reconstruct")
    BY <1>4 DEF StartTrigger
  <2>5. run' \in [Workers -> Runs] /\ run'[w].pc \in {"idle", "reconstruct"}
    BY <2>4, GoesTyped
  <2>6. job' \in [active : BOOLEAN, effects : SUBSET Messages,
                  acks : SUBSET Messages, pubs : SUBSET Messages]
    BY <1>4 DEF StartTrigger, ControlTypeOK
  <2>7. ControlTypeOK'
    BY <2>1, <2>2, <2>3, <2>5, <2>6 DEF ControlTypeOK
  <2>8. PathOwns' /\ PathAlone'
    BY <2>2 DEF PathOwns, PathAlone
  <2>9. WorkerOwns'
    BY <2>1, <2>5 DEF WorkerOwns
  <2>10. QED
    BY <1>2, <2>7, <2>8, <2>9
<1>5. QED
  BY <1>3, <1>4

LEMMA NextKeeps == Inv /\ [Next]_vars => Inv'
<1>1. SUFFICES ASSUME Inv, [Next]_vars PROVE Inv'
  OBVIOUS
<1>2. CASE UNCHANGED vars
  <2>1. Flow'
    BY <1>1, <1>2, FlowUntouched DEF vars, durable, Inv
  <2>2. DurableTypeOK' /\ ControlTypeOK'
    BY <1>1, <1>2 DEF vars, durable, counts, Inv, DurableTypeOK, ControlTypeOK
  <2>3. PathOwns' /\ PathAlone' /\ WorkerOwns'
    BY <1>1, <1>2 DEF vars, durable, Inv, PathOwns, PathAlone, WorkerOwns
  <2>4. QED
    BY <2>1, <2>2, <2>3 DEF Inv
<1>3. CASE PathStep \/ PathDies
  BY <1>1, <1>3, PathStepKeeps
<1>4. CASE LeaseExpires
  BY <1>1, <1>4, LeaseKeeps
<1>5. ASSUME NEW w \in Workers,
             WorkerStep(w) \/ NotAdmitted(w) \/ ResourceWait(w) \/ Crash(w)
      PROVE  Inv'
  BY <1>1, <1>5, LoopKeeps, WorkKeeps, CallKeeps DEF WorkerStep, Bounded
<1>6. QED
  BY <1>1, <1>2, <1>3, <1>4, <1>5 DEF Next

LEMMA Invariance == Spec => []Inv
  BY InitInv, NextKeeps, PTL DEF Spec

-----------------------------------------------------------------------------
\* Every variable keeps its type, through any number of workers and deaths.
THEOREM TypeCorrect == Spec => []TypeOK
<1>1. Inv => TypeOK
  BY TypeParts DEF Inv
<1>2. QED
  BY <1>1, Invariance, PTL

\* A message that has been acknowledged keeps its Command until its entity is
\* in its terminal state, and a certificate is only written there
\* (BoundaryProtocol.consume, BusinessEffectService.complete).
THEOREM NothingForgotten == Spec => []AcceptedIsApplied
<1>1. Inv => AcceptedIsApplied
  BY DEF Inv, Flow
<1>2. QED
  BY <1>1, Invariance, PTL

\* No domain of the trading company runs ahead of the one that causes its work
\* (_causal_predecessor_applied).
THEOREM CausalOrder == Spec => []Causality
<1>1. Inv => Causality
  BY DEF Inv, Flow, StartedConsumed, Ordered, Causality
<1>2. QED
  BY <1>1, Invariance, PTL

-----------------------------------------------------------------------------
(***************************************************************************)
(* The budget and the booking.  The two go together: a booking that a      *)
(* death left reserved is given back only while the budget of the trigger  *)
(* is not used up (Settled), so that it is never left behind because the   *)
(* certified delivery is charged to the trigger before it is counted.      *)
(***************************************************************************)

\* What the active trigger has committed, each kind of action for itself.  The
\* delivery that needs a pool is charged from its certificate on.
ChargedPubs == Cardinality(job.pubs)
ChargedAcks == Cardinality({c \in job.acks : delivery[c] = "consumed"})
ChargedEffects == Cardinality(job.effects \ pending)
ChargedDelivery == IF admitted = "this" /\ Dispatch \in certified THEN 1 ELSE 0
Charged == ChargedPubs + ChargedAcks + ChargedEffects + ChargedDelivery

\* Nobody claims a message that has not been published.
ClaimedPublished == \A c \in Messages : delivery[c] # "pending" => c \in published

\* The booking, the trigger that admitted it and the job agree.
BookingAgrees ==
    /\ writer = NoWriter => job = NoJob /\ admitted = "none"
    /\ booking = "none" <=> admitted = "none"
    /\ admitted # "none" => Dispatch \in policies
    /\ job.effects \cap policies = {}
    /\ ~job.active => job = NoJob /\ admitted # "this"
    /\ booking = "released" => Dispatch \in certified
    /\ booking = "reserved" /\ Dispatch \in certified => admitted = "this"

\* Where the booking of a certified delivery may still be reserved.
MaySettle(r) ==
    \/ r.pc \in {"idle", "start", "reconstruct"}
    \/ r.pc = "release" /\ r.stage = Dispatch

\* The owner of the epoch holds what it executes, and has counted what its
\* trigger has committed, except for the effect that it is about to count.
OwnerAgrees(r) ==
    /\ r.pc \notin {"idle", "start"} => job.active
    /\ r.pc \in {"execute", "release"} /\ r.stage \in policies =>
         admitted = "this" /\ booking = "reserved"
    /\ r.pc = "release" /\ r.stage \in policies => Dispatch \in certified
    /\ booking = "reserved" /\ Dispatch \in certified => MaySettle(r)
    /\ r.pc = "ack" => delivery[r.stage] # "consumed"
OwnerCounts(r) ==
    /\ r.pc \in {"admit", "execute", "release", "egress", "claim", "ack", "consume"} =>
         r.actions < MaxActions
    /\ r.pc \in {"loop", "admit", "execute", "egress", "claim", "ack", "consume",
                 "checkpoint"} => Charged <= r.actions
    /\ r.pc = "release" => Charged <= r.actions + 1

OwnersAgree == \A w \in Workers : writer = w => OwnerAgrees(run[w])
OwnersCount == \A w \in Workers : writer = w => OwnerCounts(run[w])

BudgetInv ==
    /\ ClaimedPublished /\ BookingAgrees /\ OwnersAgree /\ OwnersCount
    /\ Charged <= MaxActions

\* Every kind of action is counted in natural numbers.
LEMMA ChargesCounted ==
    ASSUME ControlTypeOK, ControlTypeOK'
    PROVE  /\ ChargedPubs \in Nat /\ ChargedPubs' \in Nat
           /\ ChargedAcks \in Nat /\ ChargedAcks' \in Nat
           /\ ChargedEffects \in Nat /\ ChargedEffects' \in Nat
           /\ ChargedDelivery \in Nat /\ ChargedDelivery' \in Nat
           /\ ChargedDelivery' <= 1
<1>1. /\ job.pubs \in SUBSET Messages /\ job'.pubs \in SUBSET Messages
      /\ {c \in job.acks : delivery[c] = "consumed"} \in SUBSET Messages
      /\ {c \in job'.acks : delivery'[c] = "consumed"} \in SUBSET Messages
      /\ job.effects \ pending \in SUBSET Messages
      /\ job'.effects \ pending' \in SUBSET Messages
  BY DEF ControlTypeOK
<1>2. QED
  BY <1>1, MessagesCounted
     DEF ChargedPubs, ChargedAcks, ChargedEffects, ChargedDelivery

LEMMA MessagesFinite == ASSUME NEW S \in SUBSET Messages PROVE IsFiniteSet(S)
<1>1. 1 \in Int /\ 8 \in Int
  OBVIOUS
<1>2. IsFiniteSet(Messages)
  BY <1>1, FS_Interval DEF Messages
<1>3. QED
  BY <1>2, FS_Subset

\* A set of messages that grows by at most one message.
LEMMA GrowsByOne ==
    ASSUME NEW S \in SUBSET Messages, NEW T \in SUBSET Messages, NEW c \in Messages,
           T \subseteq S \cup {c}
    PROVE  Cardinality(T) <= Cardinality(S) + 1
<1>1. IsFiniteSet(S) /\ IsFiniteSet(S \cup {c}) /\ IsFiniteSet(T)
  BY MessagesFinite
<1>2. Cardinality(S \cup {c}) <= Cardinality(S) + 1
  <2>1. Cardinality(S) \in Nat
    BY MessagesCounted
  <2>2. Cardinality(S \cup {c}) = IF c \in S THEN Cardinality(S) ELSE Cardinality(S) + 1
    BY <1>1, FS_AddElement
  <2>3. QED
    BY <2>1, <2>2
<1>3. Cardinality(T) <= Cardinality(S \cup {c})
  BY <1>1, FS_Subset
<1>4. QED
  BY <1>1, <1>2, <1>3, FS_CardinalityType

LEMMA ShrinksOrStays ==
    ASSUME NEW S \in SUBSET Messages, NEW T \in SUBSET S
    PROVE  Cardinality(T) <= Cardinality(S)
<1>1. IsFiniteSet(S)
  BY MessagesFinite
<1>2. QED
  BY <1>1, FS_Subset

\* A trigger that has not begun has committed nothing.
LEMMA NothingCharged ==
    ASSUME job = NoJob, admitted # "this"
    PROVE  Charged = 0
<1>1. /\ job.pubs = {} /\ {c \in job.acks : delivery[c] = "consumed"} = {}
      /\ job.effects \ pending = {}
  BY DEF NoJob
<1>2. Cardinality({}) = 0
  BY FS_EmptySet
<1>3. QED
  BY <1>1, <1>2 DEF Charged, ChargedPubs, ChargedAcks, ChargedEffects, ChargedDelivery

LEMMA ChargesUntouched ==
    ASSUME UNCHANGED <<job, delivery, pending, certified, admitted>>
    PROVE  Charged' = Charged
  BY DEF Charged, ChargedPubs, ChargedAcks, ChargedEffects, ChargedDelivery

\* A message is claimed only when it has been published, and stays published.
LEMMA ClaimedStaysPublished ==
    ASSUME Inv, ClaimedPublished, [Next]_vars
    PROVE  ClaimedPublished'
<1>1. published \subseteq published'
  <2>1. CASE UNCHANGED vars
    BY <2>1 DEF vars, durable
  <2>2. CASE PathStep \/ PathDies \/ LeaseExpires
    BY <2>2 DEF PathStep, PathPublish, PathClaim, PathConsume, PathExecute, PathComplete,
                PathDies, LeaseExpires, durable, ClaimFor, AckAs, Transition, Complete
  <2>3. ASSUME NEW w \in Workers,
               WorkerStep(w) \/ NotAdmitted(w) \/ ResourceWait(w) \/ Crash(w)
        PROVE  published \subseteq published'
    BY <2>3 DEF WorkerStep, Bounded, NotAdmitted, ResourceWait, Crash, NextSlot,
        StartTrigger, Reconstruct, NextAction, Enrol, Admit, Execute, CompleteEffect,
        Release, Egress, Claim, NothingToClaim, EnrolAck, ConsumeAck, Checkpoint,
        CallEnds, durable, ClaimFor, AckAs, Transition, Complete
  <2>4. QED
    BY <2>1, <2>2, <2>3 DEF Next
<1>2. \/ UNCHANGED delivery
      \/ \E c \in Messages, a \in Workers \cup {Path} :
           (c \in published \/ delivery[c] = a) /\ (ClaimFor(a, c) \/ AckAs(a, c))
  <2>1. CASE UNCHANGED vars
    BY <2>1 DEF vars, durable
  <2>2. CASE PathStep \/ PathDies \/ LeaseExpires
    <3>1. CASE PathClaim \/ PathConsume
      <4>1. path.stage \in Messages
        BY DEF Inv, ControlTypeOK
      <4>2. QED
        BY <3>1, <4>1 DEF PathClaim, PathConsume, Candidates, AckAs
    <3>2. CASE PathPublish \/ PathExecute \/ PathComplete \/ PathDies \/ LeaseExpires
      BY <3>2 DEF PathPublish, PathExecute, PathComplete, PathDies, LeaseExpires, durable,
                  Transition, Complete
    <3>3. QED
      BY <2>2, <3>1, <3>2 DEF PathStep
  <2>3. ASSUME NEW w \in Workers,
               WorkerStep(w) \/ NotAdmitted(w) \/ ResourceWait(w) \/ Crash(w)
        PROVE  \/ UNCHANGED delivery
               \/ \E c \in Messages, a \in Workers \cup {Path} :
                    (c \in published \/ delivery[c] = a) /\ (ClaimFor(a, c) \/ AckAs(a, c))
    <3>1. CASE Claim(w)
      BY <3>1, MessagesAreNumbers DEF Claim, Candidates
    <3>2. CASE ConsumeAck(w)
      <4>1. run[w].stage \in Messages
        BY DEF Inv, ControlTypeOK, Runs
      <4>2. QED
        BY <3>2, <4>1 DEF ConsumeAck, AckAs
    <3>3. CASE ~Claim(w) /\ ~ConsumeAck(w)
      BY <2>3, <3>3 DEF WorkerStep, Bounded, NotAdmitted, ResourceWait, Crash, NextSlot,
          StartTrigger, Reconstruct, NextAction, Enrol, Admit, Execute, CompleteEffect,
          Release, Egress, NothingToClaim, EnrolAck, Checkpoint, CallEnds, durable,
          Transition, Complete
    <3>4. QED
      BY <3>1, <3>2, <3>3
  <2>4. QED
    BY <2>1, <2>2, <2>3 DEF Next
<1>3. CASE UNCHANGED delivery
  BY <1>1, <1>3 DEF ClaimedPublished
<1>4. ASSUME NEW c \in Messages, NEW a \in Workers \cup {Path},
             c \in published \/ delivery[c] = a, ClaimFor(a, c) \/ AckAs(a, c)
      PROVE  ClaimedPublished'
  <2>1. c \in published
    BY <1>4, ActorsDiffer DEF ClaimedPublished
  <2>2. \A d \in Messages \ {c} : delivery'[d] = delivery[d]
    BY <1>4 DEF ClaimFor, AckAs, Inv, DurableTypeOK
  <2>3. QED
    BY <1>1, <2>1, <2>2 DEF ClaimedPublished
<1>5. QED
  BY <1>2, <1>3, <1>4

-----------------------------------------------------------------------------
\* The steps of the owner of the epoch.

LEMMA OwnerAdvances ==
    ASSUME BudgetInv, ClaimedPublished', NEW w \in Workers, NEW pc, At(w, pc),
           BookingAgrees', OwnerAgrees(run[w])', OwnerCounts(run[w])',
           Charged' <= MaxActions
    PROVE  BudgetInv'
<1>1. writer' = w
  BY DEF At
<1>2. OwnersAgree' /\ OwnersCount'
  BY <1>1 DEF OwnersAgree, OwnersCount
<1>3. QED
  BY <1>2 DEF BudgetInv

\* Rounds of the loop that commit nothing.
LEMMA RoundKeepsBudget ==
    ASSUME Inv, Inv', BudgetInv, ClaimedPublished', NEW w \in Workers,
           \/ NextAction(w) \/ NotAdmitted(w) \/ Execute(w) \/ ResourceWait(w)
           \/ NothingToClaim(w)
    PROVE  BudgetInv'
<1> USE DEF Inv
<1>1. PICK pc \in {"loop", "admit", "execute", "claim"} : At(w, pc)
  BY DEF NextAction, NotAdmitted, Execute, ResourceWait, NothingToClaim
<1>2. UNCHANGED <<writer, policies, job, admitted, delivery, pending, certified, booking>>
  BY <1>1 DEF At, NextAction, NotAdmitted, Execute, ResourceWait, NothingToClaim,
              durable, Transition
<1>3. /\ writer = w /\ run[w] \in Runs /\ run \in [Workers -> Runs] /\ run'[w] \in Runs
      /\ run[w].actions \in Nat /\ MaxActions \in Nat
  BY <1>1, BoundsAreNaturals DEF At, ControlTypeOK, Runs
<1>4. Charged' = Charged
  BY <1>2, ChargesUntouched
<1>5. BookingAgrees'
  BY <1>2 DEF BudgetInv, BookingAgrees
<1>6. OwnerAgrees(run[w]) /\ OwnerCounts(run[w])
  BY <1>3 DEF BudgetInv, OwnersAgree, OwnersCount
<1>7. /\ run'[w].actions = run[w].actions
      /\ \/ run'[w].pc \in {"loop", "checkpoint"}
         \/ /\ run'[w].pc \in {"admit", "egress"} /\ run[w].actions < MaxActions
         \/ run'[w] = run[w]
  <2>1. CASE NextAction(w)
    <3>1. CASE run[w].actions >= MaxActions
      <4>1. run' = [run EXCEPT ![w] = [run[w] EXCEPT !.pc = "checkpoint"]]
        BY <2>1, <3>1, Zenon DEF NextAction
      <4>2. QED
        BY <1>3, <4>1 DEF Runs
    <3>2. CASE ~(run[w].actions >= MaxActions)
      <4>1. \/ \E c : run' = [run EXCEPT ![w] = [run[w] EXCEPT !.pc = "admit", !.stage = c]]
            \/ run' = [run EXCEPT ![w] = [run[w] EXCEPT !.pc = "egress"]]
        BY <2>1, <3>2, Zenon DEF NextAction
      <4>2. ASSUME NEW c,
                   run' = [run EXCEPT ![w] = [run[w] EXCEPT !.pc = "admit", !.stage = c]]
            PROVE  run'[w].actions = run[w].actions /\ run'[w].pc = "admit"
        BY <1>3, <4>2 DEF Runs
      <4>3. ASSUME run' = [run EXCEPT ![w] = [run[w] EXCEPT !.pc = "egress"]]
            PROVE  run'[w].actions = run[w].actions /\ run'[w].pc = "egress"
        BY <1>3, <4>3 DEF Runs
      <4>4. run[w].actions < MaxActions
        BY <1>3, <3>2
      <4>5. QED
        BY <4>1, <4>2, <4>3, <4>4, Zenon
    <3>3. QED
      BY <3>1, <3>2
  <2>2. CASE NotAdmitted(w) \/ ResourceWait(w)
    <3>1. Defer(w)
      BY <2>2 DEF NotAdmitted, ResourceWait
    <3>2. QED
      BY <1>3, <3>1 DEF Defer, Runs
  <2>3. CASE Execute(w)
    BY <2>3 DEF Execute
  <2>4. CASE NothingToClaim(w)
    BY <1>3, <2>4 DEF NothingToClaim, Runs
  <2>5. QED
    BY <2>1, <2>2, <2>3, <2>4
<1>8. run[w].pc \in {"loop", "admit", "execute", "claim"}
  BY <1>1 DEF At
<1>9. ~(booking = "reserved" /\ Dispatch \in certified) /\ job.active
  BY <1>6, <1>8 DEF OwnerAgrees, MaySettle
<1>10. Charged <= run[w].actions
  BY <1>6, <1>8 DEF OwnerCounts
<1>11. OwnerAgrees(run[w])'
  BY <1>2, <1>6, <1>7, <1>9 DEF OwnerAgrees
<1>12. OwnerCounts(run[w])'
  BY <1>4, <1>6, <1>7, <1>10 DEF OwnerCounts
<1>13. Charged' <= MaxActions
  BY <1>4 DEF BudgetInv
<1>14. QED
  BY <1>1, <1>5, <1>11, <1>12, <1>13, OwnerAdvances

\* What belongs to the trigger is written down before it is executed: none of
\* it is charged yet.
LEMMA EnrolKeepsBudget ==
    ASSUME Inv, Inv', BudgetInv, ClaimedPublished', NEW w \in Workers,
           Enrol(w) \/ Admit(w) \/ Claim(w) \/ EnrolAck(w)
    PROVE  BudgetInv'
<1> USE DEF Inv
<1>1. /\ run[w] \in Runs /\ run \in [Workers -> Runs] /\ run[w].actions \in Nat
      /\ run[w].stage \in Messages /\ MaxActions \in Nat
  BY BoundsAreNaturals DEF ControlTypeOK, Runs
<1>2. writer = w /\ writer' = w /\ w # NoWriter /\ UNCHANGED policies
  BY ActorsDiffer DEF At, Enrol, Admit, Claim, EnrolAck
<1>3. /\ OwnerAgrees(run[w]) /\ OwnerCounts(run[w])
      /\ run[w].pc \in {"admit", "claim", "ack"}
  BY <1>2 DEF BudgetInv, OwnersAgree, OwnersCount, At, Enrol, Admit, Claim, EnrolAck
<1>4. /\ job.active /\ run[w].actions < MaxActions /\ Charged <= run[w].actions
      /\ ~(booking = "reserved" /\ Dispatch \in certified)
  BY <1>3 DEF OwnerAgrees, OwnerCounts, MaySettle
<1>5. BookingAgrees /\ Charged <= MaxActions
  BY DEF BudgetInv
<1>6. CASE Enrol(w)
  <2>1. /\ run'[w].pc = "execute" /\ run'[w].actions = run[w].actions
        /\ run'[w].stage = run[w].stage
    BY <1>1, <1>6 DEF Enrol, Goes, Runs
  <2>2. /\ run[w].stage \in pending /\ run[w].stage \notin policies /\ At(w, "admit")
        /\ UNCHANGED <<delivery, pending, certified, booking, admitted>>
    BY <1>6 DEF Enrol, WorkerOwns, At, durable
  <2>3. /\ job'.effects = job.effects \cup {run[w].stage} /\ job'.active = job.active
        /\ job'.acks = job.acks /\ job'.pubs = job.pubs
    BY <1>6 DEF Enrol, ControlTypeOK
  <2>4. job'.effects \ pending' = job.effects \ pending
    BY <2>2, <2>3
  <2>5. Charged' = Charged
    BY <2>2, <2>3, <2>4
       DEF Charged, ChargedPubs, ChargedAcks, ChargedEffects, ChargedDelivery
  <2>6. BookingAgrees'
    BY <1>2, <1>4, <1>5, <2>2, <2>3 DEF BookingAgrees
  <2>7. OwnerAgrees(run[w])' /\ OwnerCounts(run[w])'
    BY <1>2, <1>4, <2>1, <2>2, <2>3, <2>5 DEF OwnerAgrees, OwnerCounts
  <2>8. QED
    BY <1>5, <2>2, <2>5, <2>6, <2>7, OwnerAdvances
<1>7. CASE Admit(w)
  <2>1. /\ run'[w].pc = "execute" /\ run'[w].actions = run[w].actions
        /\ run'[w].stage = run[w].stage
    BY <1>1, <1>7 DEF Admit, Goes, Runs
  <2>2. /\ run[w].stage \in pending /\ run[w].stage = Dispatch /\ Dispatch \in policies
        /\ At(w, "admit") /\ UNCHANGED <<delivery, pending, certified, job>>
        /\ booking' = "reserved" /\ admitted' = "this"
    BY <1>7 DEF Admit, WorkerOwns, At, ControlTypeOK
  <2>3. Dispatch \notin certified
    BY <2>2, MessagesAreNumbers DEF Flow, AcceptedIsApplied
  <2>4. Charged' = Charged
    BY <2>2, <2>3
       DEF Charged, ChargedPubs, ChargedAcks, ChargedEffects, ChargedDelivery
  <2>5. BookingAgrees'
    BY <1>2, <1>4, <1>5, <2>2, <2>3 DEF BookingAgrees
  <2>6. OwnerAgrees(run[w])' /\ OwnerCounts(run[w])'
    BY <1>2, <1>4, <2>1, <2>2, <2>3, <2>4 DEF OwnerAgrees, OwnerCounts
  <2>7. QED
    BY <1>5, <2>2, <2>4, <2>5, <2>6, OwnerAdvances
<1>8. CASE Claim(w)
  <2>1. PICK c \in Candidates(Claimable) :
           /\ ClaimFor(w, c)
           /\ run' = [run EXCEPT ![w].pc = "ack", ![w].stage = c, ![w].emitted = FALSE]
    BY <1>8 DEF Claim
  <2>2. run'[w].pc = "ack" /\ run'[w].actions = run[w].actions /\ run'[w].stage = c
    BY <1>1, <2>1 DEF Runs
  <2>3. At(w, "claim") /\ UNCHANGED <<job, admitted, pending, certified, booking>>
    BY <1>8, <2>1 DEF Claim, ClaimFor
  <2>4. delivery[c] # "consumed" /\ delivery' = [delivery EXCEPT ![c] = w] /\ w # "consumed"
    BY <2>1, ActorsDiffer DEF Candidates, Free, ClaimFor
  <2>5. \A d \in Messages : delivery'[d] = "consumed" <=> delivery[d] = "consumed"
    BY <2>4 DEF DurableTypeOK
  <2>6. job.acks \subseteq Messages
    BY DEF ControlTypeOK
  <2>7. {d \in job.acks : delivery'[d] = "consumed"} = {d \in job.acks : delivery[d] = "consumed"}
    BY <2>5, <2>6
  <2>8. Charged' = Charged
    BY <2>3, <2>7
       DEF Charged, ChargedPubs, ChargedAcks, ChargedEffects, ChargedDelivery
  <2>9. BookingAgrees'
    BY <1>2, <1>5, <2>3 DEF BookingAgrees
  <2>10. delivery'[c] # "consumed"
    BY <2>4, <2>5, MessagesAreNumbers DEF Candidates
  <2>11. OwnerAgrees(run[w])' /\ OwnerCounts(run[w])'
    BY <1>2, <1>4, <2>2, <2>3, <2>8, <2>10 DEF OwnerAgrees, OwnerCounts
  <2>12. QED
    BY <1>5, <2>3, <2>8, <2>9, <2>11, OwnerAdvances

<1>9. CASE EnrolAck(w)
  <2>1. run'[w].pc = "consume" /\ run'[w].actions = run[w].actions
    BY <1>1, <1>9 DEF EnrolAck, Goes, Runs
  <2>2. /\ At(w, "ack") /\ UNCHANGED <<delivery, pending, certified, booking, admitted>>
        /\ delivery[run[w].stage] # "consumed"
    BY <1>3, <1>9 DEF EnrolAck, OwnerAgrees, At, durable
  <2>3. /\ job'.acks = job.acks \cup {run[w].stage} /\ job'.active = job.active
        /\ job'.effects = job.effects /\ job'.pubs = job.pubs
    BY <1>9 DEF EnrolAck, ControlTypeOK
  <2>4. {d \in job'.acks : delivery'[d] = "consumed"} = {d \in job.acks : delivery[d] = "consumed"}
    BY <2>2, <2>3
  <2>5. Charged' = Charged
    BY <2>2, <2>3, <2>4
       DEF Charged, ChargedPubs, ChargedAcks, ChargedEffects, ChargedDelivery
  <2>6. BookingAgrees'
    BY <1>2, <1>4, <1>5, <2>2, <2>3 DEF BookingAgrees
  <2>7. OwnerAgrees(run[w])' /\ OwnerCounts(run[w])'
    BY <1>2, <1>4, <2>1, <2>2, <2>3, <2>5 DEF OwnerAgrees, OwnerCounts
  <2>8. QED
    BY <1>5, <2>2, <2>5, <2>6, <2>7, OwnerAdvances
<1>10. QED
  BY <1>6, <1>7, <1>8, <1>9

\* The next message of the flow is published only once those before it are:
\* at most one message is missing at a time.
LEMMA OneToPublish ==
    ASSUME Inv, ClaimedPublished
    PROVE  \A c \in Publishable, d \in Publishable : c = d
<1>1. \A c \in Messages : delivery[c] = "consumed" => c \in published
  BY DEF ClaimedPublished
<1>2. \A c \in Messages : c > 1 /\ delivery[c] = "consumed" => delivery[c - 1] = "consumed"
  BY TerminalPositive, MessagesAreNumbers DEF Inv, Flow, Ordered, StartedConsumed
<1>3. \A c \in Publishable : c \in 4..8 /\ c \notin published
  BY DEF Publishable, Claimable, Consume, Entry
<1>4. \A c \in Publishable : c > 4 => delivery[c - 1] = "consumed"
  <2>1. StockLeft => delivery[Consume] = "consumed"
    BY TerminalPositive DEF StockLeft, Inv, Flow, StartedConsumed, Messages, Consume
  <2>2. QED
    BY <2>1 DEF Publishable, ShipmentDelivered, OrderInvoiced, PaymentSettled, Effected,
                Consume, Dispatch, Delivered, Payment, Entry
<1>5. \A c \in Publishable : \A d \in 4..8 : d < c => d \in published
  <2>1. /\ (delivery[5] = "consumed" => delivery[4] = "consumed")
        /\ (delivery[6] = "consumed" => delivery[5] = "consumed")
        /\ (delivery[7] = "consumed" => delivery[6] = "consumed")
    BY <1>2 DEF Messages
  <2>2. \A d \in 4..7 : delivery[d] = "consumed" => d \in published
    BY <1>1 DEF Messages
  <2>3. QED
    BY <1>3, <1>4, <2>1, <2>2
<1>6. QED
  BY <1>3, <1>5

\* Each commit of the trigger is one action of its budget.
LEMMA CommitKeepsBudget ==
    ASSUME Inv, Inv', BudgetInv, ClaimedPublished', NEW w \in Workers,
           CompleteEffect(w) \/ Release(w) \/ Egress(w) \/ ConsumeAck(w)
    PROVE  BudgetInv'
<1> USE DEF Inv
<1>1. /\ run[w] \in Runs /\ run \in [Workers -> Runs] /\ run[w].actions \in Nat
      /\ run[w].stage \in Messages /\ MaxActions \in Nat
  BY BoundsAreNaturals DEF ControlTypeOK, Runs
<1>2. writer = w /\ writer' = w /\ w # NoWriter /\ UNCHANGED policies
  BY ActorsDiffer DEF At, CompleteEffect, Release, Egress, ConsumeAck
<1>3. /\ OwnerAgrees(run[w]) /\ OwnerCounts(run[w])
      /\ run[w].pc \in {"execute", "release", "egress", "consume"}
  BY <1>2 DEF BudgetInv, OwnersAgree, OwnersCount, At, CompleteEffect, Release, Egress,
              ConsumeAck
<1>4. job.active /\ run[w].actions < MaxActions
  BY <1>3 DEF OwnerAgrees, OwnerCounts
<1>5. BookingAgrees /\ Charged <= MaxActions
  BY DEF BudgetInv
<1>6. /\ ChargedPubs \in Nat /\ ChargedAcks \in Nat /\ ChargedEffects \in Nat
      /\ ChargedDelivery \in Nat
      /\ ChargedPubs' \in Nat /\ ChargedAcks' \in Nat /\ ChargedEffects' \in Nat
      /\ ChargedDelivery' \in Nat /\ ChargedDelivery' <= 1
  BY ChargesCounted

<1>7. CASE CompleteEffect(w)
  <2> DEFINE c == run[w].stage
  <2>1. /\ At(w, "execute") /\ UNCHANGED <<job, admitted, delivery, booking>>
        /\ pending' = pending \ {c} /\ certified \subseteq certified'
        /\ certified' \subseteq certified \cup {c}
        /\ c \in Certifying => c \in certified'
    BY <1>7 DEF CompleteEffect, Complete
  <2>2. run'[w].pc = "release" /\ run'[w].actions = run[w].actions /\ run'[w].stage = c
    BY <1>1, <1>7 DEF CompleteEffect, Goes, Runs
  <2>3. /\ run[w].pc = "execute" /\ Charged <= run[w].actions
        /\ ~(booking = "reserved" /\ Dispatch \in certified)
    BY <1>3, <2>1 DEF At, OwnerCounts, OwnerAgrees, MaySettle
  <2>4. policies \subseteq {Dispatch} /\ Dispatch \in Certifying
    BY DEF ControlTypeOK, Certifying, Dispatch, Entry
  <2>5. ChargedPubs' = ChargedPubs /\ ChargedAcks' = ChargedAcks
    BY <2>1 DEF ChargedPubs, ChargedAcks
  <2>6. ChargedEffects' + ChargedDelivery' <= ChargedEffects + ChargedDelivery + 1
    <3>1. CASE c \in policies
      <4>1. job.effects \ pending' = job.effects \ pending
        BY <1>5, <2>1, <3>1 DEF BookingAgrees
      <4>2. ChargedEffects' = ChargedEffects
        BY <2>1, <4>1 DEF ChargedEffects
      <4>3. QED
        BY <1>6, <4>2 DEF ChargedEffects, ChargedDelivery
    <3>2. CASE c \notin policies
      <4>1. ChargedDelivery' = ChargedDelivery
        <5>1. CASE c = Dispatch
          <6>1. admitted = "none"
            BY <1>5, <3>2, <5>1 DEF BookingAgrees
          <6>2. QED
            BY <2>1, <6>1 DEF ChargedDelivery
        <5>2. CASE c # Dispatch
          BY <2>1, <5>2 DEF ChargedDelivery
        <5>3. QED
          BY <5>1, <5>2
      <4>2. /\ job.effects \ pending \in SUBSET Messages
            /\ job.effects \ pending' \in SUBSET Messages
            /\ job.effects \ pending' \subseteq (job.effects \ pending) \cup {c}
        BY <2>1 DEF ControlTypeOK
      <4>3. ChargedEffects' <= ChargedEffects + 1
        BY <1>1, <2>1, <4>2, GrowsByOne DEF ChargedEffects
      <4>4. QED
        BY <1>6, <4>1, <4>3 DEF ChargedEffects, ChargedDelivery
    <3>3. QED
      BY <3>1, <3>2
  <2>7. Charged' <= Charged + 1
    BY <1>6, <2>5, <2>6 DEF Charged, ChargedPubs, ChargedAcks, ChargedEffects,
       ChargedDelivery
  <2>8. Charged' <= run[w].actions + 1 /\ Charged' <= MaxActions
    <3>1. Charged \in Nat /\ Charged' \in Nat
      BY <1>6 DEF Charged, ChargedPubs, ChargedAcks, ChargedEffects,
         ChargedDelivery
    <3>2. QED
      BY <1>1, <1>4, <2>3, <2>7, <3>1
  <2>9. c \in policies => c = Dispatch /\ admitted = "this" /\ booking = "reserved"
    BY <1>3, <2>3, <2>4 DEF OwnerAgrees
  <2>10. BookingAgrees'
    <3>1. booking = "reserved" /\ Dispatch \in certified' => admitted = "this"
      <4>1. Dispatch \in certified' => Dispatch \in certified \/ c = Dispatch
        BY <2>1
      <4>2. booking = "reserved" => Dispatch \in policies
        BY <1>5 DEF BookingAgrees
      <4>3. QED
        BY <2>3, <2>9, <4>1, <4>2
    <3>2. QED
      BY <1>2, <1>5, <2>1, <3>1 DEF BookingAgrees
  <2>11. OwnerAgrees(run[w])'
    <3>1. c \in policies => Dispatch \in certified'
      BY <2>1, <2>4, <2>9
    <3>2. booking = "reserved" /\ Dispatch \in certified' => c = Dispatch
      BY <2>1, <2>3
    <3>3. QED
      BY <1>2, <1>4, <2>1, <2>2, <2>9, <3>1, <3>2 DEF OwnerAgrees, MaySettle
  <2>12. OwnerCounts(run[w])'
    BY <1>4, <2>2, <2>8 DEF OwnerCounts
  <2>13. QED
    BY <2>1, <2>8, <2>10, <2>11, <2>12, OwnerAdvances
<1>8. CASE Release(w)
  <2>1. /\ At(w, "release") /\ UNCHANGED <<job, admitted, delivery, pending, certified>>
        /\ booking' = IF run[w].stage \in policies THEN "released" ELSE booking
    BY <1>8 DEF Release
  <2>2. run'[w].pc = "loop" /\ run'[w].actions = run[w].actions + 1
    BY <1>1, <1>8 DEF Release, Counts, Runs
  <2>3. Charged' = Charged
    BY <2>1, ChargesUntouched
  <2>4. run[w].pc = "release" /\ Charged <= run[w].actions + 1
    BY <1>3, <2>1 DEF At, OwnerCounts
  <2>5. /\ run[w].stage \in policies =>
             admitted = "this" /\ booking = "reserved" /\ Dispatch \in certified
        /\ booking = "reserved" /\ Dispatch \in certified => run[w].stage = Dispatch
    BY <1>3, <2>4 DEF OwnerAgrees, MaySettle
  <2>6. booking = "reserved" => Dispatch \in policies
    BY <1>5 DEF BookingAgrees
  <2>7. BookingAgrees'
    BY <1>2, <1>5, <2>1, <2>5 DEF BookingAgrees
  <2>8. OwnerAgrees(run[w])'
    BY <1>2, <1>4, <2>1, <2>2, <2>5, <2>6 DEF OwnerAgrees
  <2>9. OwnerCounts(run[w])'
    BY <2>2, <2>3, <2>4 DEF OwnerCounts
  <2>10. QED
    BY <1>5, <2>1, <2>3, <2>7, <2>8, <2>9, OwnerAdvances
<1>9. CASE Egress(w)
  <2>1. /\ At(w, "egress")
        /\ UNCHANGED <<admitted, delivery, pending, certified, booking>>
    BY <1>9 DEF Egress
  <2>2. /\ job'.pubs = job.pubs \cup Publishable /\ job'.active = job.active
        /\ job'.acks = job.acks /\ job'.effects = job.effects
    BY <1>9 DEF Egress, ControlTypeOK
  <2>3. Publishable \in SUBSET Messages
    BY MessagesAreNumbers DEF Publishable
  <2>4. /\ Cardinality(Publishable) \in {0, 1}
        /\ Cardinality(job.pubs \cup Publishable)
             <= Cardinality(job.pubs) + Cardinality(Publishable)
    <3>1. job.pubs \in SUBSET Messages /\ Cardinality(job.pubs) \in Nat
      BY MessagesCounted DEF ControlTypeOK
    <3>2. CASE Publishable = {}
      <4>1. Cardinality(Publishable) = 0 /\ job.pubs \cup Publishable = job.pubs
        BY <3>2, FS_EmptySet
      <4>2. Cardinality(job.pubs \cup Publishable) = Cardinality(job.pubs)
        BY <4>1, Zenon
      <4>3. QED
        BY <3>1, <4>1, <4>2
    <3>3. CASE Publishable # {}
      <4>1. PICK c \in Publishable : TRUE
        BY <3>3
      <4>2. Publishable = {c}
        BY <4>1, OneToPublish DEF BudgetInv
      <4>3. Cardinality(Publishable) = 1
        BY <4>2, FS_Singleton
      <4>4. Cardinality(job.pubs \cup Publishable) <= Cardinality(job.pubs) + 1
        BY <2>3, <3>1, <4>2, GrowsByOne
      <4>5. QED
        BY <4>3, <4>4
    <3>4. QED
      BY <3>2, <3>3
  <2>5. /\ run'[w].actions = run[w].actions + Cardinality(Publishable)
        /\ run'[w].pc \in {"checkpoint", "claim"}
        /\ run'[w].pc = "claim" => ~(run[w].actions + Cardinality(Publishable) >= MaxActions)
    <3> DEFINE spent == run[w].actions + Cardinality(Publishable)
               pc == IF spent >= MaxActions THEN "checkpoint" ELSE "claim"
    <3>1. run' = [run EXCEPT ![w].actions = spent, ![w].emitted = Publishable # {},
                             ![w].pc = pc]
      BY <1>9, Zenon DEF Egress
    <3>2. run'[w].actions = spent /\ run'[w].pc = pc
      BY <1>1, <3>1 DEF Runs
    <3>3. QED
      BY <3>2
  <2>6. /\ ChargedPubs' <= ChargedPubs + Cardinality(Publishable)
        /\ ChargedAcks' = ChargedAcks /\ ChargedEffects' = ChargedEffects
        /\ ChargedDelivery' = ChargedDelivery
    BY <2>1, <2>2, <2>4 DEF ChargedPubs, ChargedAcks, ChargedEffects, ChargedDelivery
  <2>7. /\ run[w].pc = "egress" /\ Charged <= run[w].actions
        /\ ~(booking = "reserved" /\ Dispatch \in certified)
    BY <1>3, <2>1 DEF At, OwnerCounts, OwnerAgrees, MaySettle
  <2>8. Charged' <= run'[w].actions /\ Charged' <= MaxActions
    <3>1. Charged' <= Charged + Cardinality(Publishable)
      BY <1>6, <2>4, <2>6 DEF Charged, ChargedPubs, ChargedAcks, ChargedEffects,
         ChargedDelivery
    <3>2. Charged \in Nat /\ Charged' \in Nat
      BY <1>6 DEF Charged, ChargedPubs, ChargedAcks, ChargedEffects,
         ChargedDelivery
    <3>3. QED
      BY <1>1, <1>4, <2>4, <2>5, <2>7, <3>1, <3>2
  <2>9. BookingAgrees'
    BY <1>2, <1>4, <1>5, <2>1, <2>2 DEF BookingAgrees
  <2>10. OwnerAgrees(run[w])'
    BY <1>4, <2>1, <2>2, <2>5, <2>7 DEF OwnerAgrees
  <2>11. OwnerCounts(run[w])'
    <3>1. run'[w].pc = "claim" => run'[w].actions < MaxActions
      BY <1>1, <2>4, <2>5
    <3>2. QED
      BY <2>5, <2>8, <3>1 DEF OwnerCounts
  <2>12. QED
    BY <2>1, <2>8, <2>9, <2>10, <2>11, OwnerAdvances
<1>10. CASE ConsumeAck(w)
  <2> DEFINE c == run[w].stage
  <2>1. /\ At(w, "consume") /\ UNCHANGED <<job, admitted, certified, booking>>
        /\ pending' = pending \cup {c} /\ delivery' = [delivery EXCEPT ![c] = "consumed"]
    BY <1>10 DEF ConsumeAck, AckAs
  <2>2. run'[w].pc = "loop" /\ run'[w].actions = run[w].actions + 1
    BY <1>1, <1>10 DEF ConsumeAck, Counts, Runs
  <2>3. /\ run[w].pc = "consume" /\ Charged <= run[w].actions
        /\ ~(booking = "reserved" /\ Dispatch \in certified)
    BY <1>3, <2>1 DEF At, OwnerCounts, OwnerAgrees, MaySettle
  <2>4. ChargedPubs' = ChargedPubs /\ ChargedDelivery' = ChargedDelivery
    BY <2>1 DEF ChargedPubs, ChargedDelivery
  <2>5. ChargedAcks' <= ChargedAcks + 1
    <3>1. /\ {d \in job.acks : delivery[d] = "consumed"} \in SUBSET Messages
          /\ {d \in job.acks : delivery'[d] = "consumed"} \in SUBSET Messages
      BY DEF ControlTypeOK
    <3>2. {d \in job.acks : delivery'[d] = "consumed"}
            \subseteq {d \in job.acks : delivery[d] = "consumed"} \cup {c}
      BY <2>1, <3>1 DEF DurableTypeOK
    <3>3. QED
      BY <1>1, <2>1, <3>1, <3>2, GrowsByOne DEF ChargedAcks
  <2>6. ChargedEffects' <= ChargedEffects
    <3>1. job.effects \ pending \in SUBSET Messages
      BY DEF ControlTypeOK
    <3>2. job.effects \ pending' \in SUBSET (job.effects \ pending)
      BY <2>1
    <3>3. QED
      BY <2>1, <3>1, <3>2, ShrinksOrStays DEF ChargedEffects
  <2>7. Charged' <= run[w].actions + 1 /\ Charged' <= MaxActions
    <3>1. Charged' <= Charged + 1
      BY <1>6, <2>4, <2>5, <2>6 DEF Charged, ChargedPubs, ChargedAcks, ChargedEffects,
         ChargedDelivery
    <3>2. Charged \in Nat /\ Charged' \in Nat
      BY <1>6 DEF Charged, ChargedPubs, ChargedAcks, ChargedEffects,
         ChargedDelivery
    <3>3. QED
      BY <1>1, <1>4, <2>3, <3>1, <3>2
  <2>8. BookingAgrees'
    BY <1>2, <1>5, <2>1 DEF BookingAgrees
  <2>9. OwnerAgrees(run[w])'
    BY <1>4, <2>1, <2>2, <2>3 DEF OwnerAgrees
  <2>10. OwnerCounts(run[w])'
    BY <2>2, <2>7 DEF OwnerCounts
  <2>11. QED
    BY <2>1, <2>7, <2>8, <2>9, <2>10, OwnerAdvances
<1>11. QED
  BY <1>7, <1>8, <1>9, <1>10

\* A call that resumes a trigger charges everything the trigger has committed,
\* and gives back the booking of a certified delivery; a trigger that is
\* complete has committed everything it will.
LEMMA TriggerKeepsBudget ==
    ASSUME Inv, Inv', BudgetInv, ClaimedPublished', NEW w \in Workers,
           Reconstruct(w) \/ Checkpoint(w)
    PROVE  BudgetInv'
<1> USE DEF Inv
<1>1. /\ run[w] \in Runs /\ run \in [Workers -> Runs] /\ MaxActions \in Nat
  BY BoundsAreNaturals DEF ControlTypeOK, Runs
<1>2. writer = w /\ writer' = w /\ w # NoWriter /\ UNCHANGED policies
  BY ActorsDiffer DEF At, Reconstruct, Checkpoint
<1>3. /\ OwnerAgrees(run[w]) /\ OwnerCounts(run[w])
      /\ run[w].pc \in {"reconstruct", "checkpoint"}
  BY <1>2 DEF BudgetInv, OwnersAgree, OwnersCount, At, Reconstruct, Checkpoint
<1>4. job.active
  BY <1>3 DEF OwnerAgrees
<1>5. BookingAgrees /\ Charged <= MaxActions
  BY DEF BudgetInv
<1>6. CASE Reconstruct(w)
  <2>1. /\ At(w, "reconstruct") /\ ~Vanished /\ Committed <= MaxActions
        /\ UNCHANGED <<job, admitted, delivery, pending, certified>>
        /\ booking' = IF Settled THEN "released" ELSE booking
    BY <1>6 DEF Reconstruct
  <2>2. Charged' = Charged
    BY <2>1, ChargesUntouched
  <2>3. job.effects \ pending \subseteq job.effects \cap certified
    BY <2>1 DEF Vanished
  <2>4. Committed + ChargedDelivery >= Charged
    <3>1. /\ job.effects \cap certified \in SUBSET Messages
          /\ job.effects \ pending \in SUBSET (job.effects \cap certified)
      BY <2>3 DEF ControlTypeOK
    <3>2. Cardinality(job.effects \ pending) <= Cardinality(job.effects \cap certified)
      BY <3>1, ShrinksOrStays
    <3>3. /\ ChargedPubs \in Nat /\ ChargedAcks \in Nat /\ ChargedEffects \in Nat
          /\ ChargedDelivery \in Nat
      BY ChargesCounted
    <3>4. Cardinality(job.effects \cap certified) \in Nat
      BY <3>1, MessagesCounted
    <3>5. QED
      BY <3>2, <3>3, <3>4 DEF Charged, Committed, ChargedPubs, ChargedAcks, ChargedEffects,
                              ChargedDelivery
  <2>5. admitted = "this" /\ Dispatch \in certified => Settled
    <3>1. SUFFICES ASSUME admitted = "this", Dispatch \in certified PROVE Settled
      OBVIOUS
    <3>2. booking \in {"reserved", "released"} /\ policies # {}
      BY <1>5, <3>1 DEF BookingAgrees, DurableTypeOK
    <3>3. Committed < MaxActions
      <4>1. job.effects \cap certified \subseteq job.effects \ pending
        BY DEF Flow, AcceptedIsApplied, DurableTypeOK, ControlTypeOK
      <4>2. /\ job.effects \ pending \in SUBSET Messages
            /\ job.effects \cap certified \in SUBSET (job.effects \ pending)
        BY <4>1 DEF ControlTypeOK
      <4>3. Cardinality(job.effects \cap certified) <= Cardinality(job.effects \ pending)
        BY <4>2, ShrinksOrStays
      <4>4. /\ ChargedPubs \in Nat /\ ChargedAcks \in Nat /\ ChargedEffects \in Nat
            /\ Committed \in Nat /\ Cardinality(job.effects \cap certified) \in Nat
        BY <4>2, ChargesCounted, CommittedIsNatural, MessagesCounted
      <4>5. Committed + 1 <= Charged
        BY <3>1, <4>3, <4>4 DEF Charged, Committed, ChargedPubs, ChargedAcks,
                                ChargedEffects, ChargedDelivery
      <4>6. Charged \in Nat
        BY <3>1, <4>4 DEF Charged, ChargedPubs, ChargedAcks, ChargedEffects, ChargedDelivery
      <4>7. QED
        BY <1>1, <1>5, <4>4, <4>5, <4>6
    <3>4. QED
      BY <3>1, <3>2, <3>3 DEF Settled
  <2> DEFINE spent == Committed + (IF Settled THEN 1 ELSE 0)
             pc == IF spent >= MaxActions THEN "checkpoint" ELSE "loop"
  <2>6. run' = [run EXCEPT ![w].actions = spent, ![w].pc = pc]
    BY <1>6, Zenon DEF Reconstruct
  <2>7. run'[w].actions = spent /\ run'[w].pc \in {"checkpoint", "loop"}
    BY <1>1, <2>6 DEF Runs
  <2>8. Charged' <= spent
    <3>1. Committed \in Nat /\ ChargedDelivery <= 1 /\ ChargedDelivery \in Nat
      BY CommittedIsNatural DEF ChargedDelivery
    <3>2. ~Settled => ChargedDelivery = 0
      BY <2>5 DEF ChargedDelivery
    <3>3. Charged \in Nat
      <4>1. /\ ChargedPubs \in Nat /\ ChargedAcks \in Nat /\ ChargedEffects \in Nat
        BY ChargesCounted
      <4>2. QED
        BY <3>1, <4>1
           DEF Charged, ChargedPubs, ChargedAcks, ChargedEffects, ChargedDelivery
    <3>4. CASE Settled
      BY <2>2, <2>4, <3>1, <3>3, <3>4
    <3>5. CASE ~Settled
      BY <2>2, <2>4, <3>1, <3>2, <3>3, <3>5
    <3>6. QED
      BY <3>4, <3>5
  <2>9. booking = "reserved" /\ Dispatch \in certified => Settled
    BY <1>5, <2>5 DEF BookingAgrees
  <2>10. Settled => Dispatch \in certified /\ booking # "none"
    BY DEF Settled
  <2>11. BookingAgrees'
    BY <1>2, <1>5, <2>1, <2>10 DEF BookingAgrees
  <2>12. OwnerAgrees(run[w])'
    BY <1>4, <2>1, <2>7, <2>9 DEF OwnerAgrees
  <2>13. OwnerCounts(run[w])'
    BY <2>7, <2>8 DEF OwnerCounts
  <2>14. QED
    BY <1>5, <2>1, <2>2, <2>11, <2>12, <2>13, OwnerAdvances
<1>7. CASE Checkpoint(w)
  <2>1. /\ At(w, "checkpoint") /\ job' = NoJob /\ admitted' # "this"
        /\ admitted' = "none" <=> admitted = "none"
        /\ admitted' = IF admitted = "none" THEN "none" ELSE "earlier"
        /\ UNCHANGED <<delivery, pending, certified, booking>>
    BY <1>7 DEF Checkpoint, durable
  <2>2. run'[w].pc = "idle"
    BY <1>7 DEF Checkpoint, Idle
  <2>3. Charged' = 0
    <3>1. /\ job'.pubs = {} /\ {c \in job'.acks : delivery'[c] = "consumed"} = {}
          /\ job'.effects \ pending' = {}
      BY <2>1 DEF NoJob
    <3>2. Cardinality({}) = 0
      BY FS_EmptySet
    <3>3. QED
      BY <2>1, <3>1, <3>2
         DEF Charged, ChargedPubs, ChargedAcks, ChargedEffects, ChargedDelivery
  <2>4. run[w].pc = "checkpoint" /\ ~(booking = "reserved" /\ Dispatch \in certified)
    BY <1>3, <2>1 DEF At, OwnerAgrees, MaySettle
  <2>5. BookingAgrees'
    <3>1. job'.effects = {} /\ job'.active = FALSE
      BY <2>1 DEF NoJob
    <3>2. QED
      BY <1>2, <1>5, <2>1, <2>4, <3>1 DEF BookingAgrees
  <2>6. OwnerAgrees(run[w])' /\ OwnerCounts(run[w])'
    BY <2>1, <2>2, <2>4 DEF OwnerAgrees, OwnerCounts
  <2>7. QED
    BY <1>1, <2>1, <2>3, <2>5, <2>6, OwnerAdvances
<1>8. QED
  BY <1>6, <1>7

-----------------------------------------------------------------------------
\* The steps of the path, of time, and those in which a call begins or ends.

LEMMA PathKeepsBudget ==
    ASSUME Inv, BudgetInv, ClaimedPublished', PathStep \/ PathDies
    PROVE  BudgetInv'
<1>1. /\ path.pc \notin {"done", "dead"}
      /\ UNCHANGED <<job, writer, policies, admitted, run, counts, booking>>
  BY DEF PathStep, PathPublish, PathClaim, PathConsume, PathExecute, PathComplete,
         PathDies, PathMay, durable, ClaimFor, AckAs, Transition, Complete
<1>2. writer = NoWriter /\ job = NoJob /\ admitted = "none" /\ booking = "none"
  BY <1>1 DEF Inv, PathAlone, BudgetInv, BookingAgrees
<1>3. job' = NoJob /\ admitted' = "none" /\ booking' = "none"
  BY <1>1, <1>2
<1>4. Charged' = 0
  <2>1. /\ job'.pubs = {} /\ {c \in job'.acks : delivery'[c] = "consumed"} = {}
        /\ job'.effects \ pending' = {}
    BY <1>3 DEF NoJob
  <2>2. Cardinality({}) = 0
    BY FS_EmptySet
  <2>3. QED
    BY <1>3, <2>1, <2>2
       DEF Charged, ChargedPubs, ChargedAcks, ChargedEffects, ChargedDelivery
<1>5. BookingAgrees'
  BY <1>1, <1>3 DEF BookingAgrees, NoJob
<1>6. OwnersAgree' /\ OwnersCount'
  BY <1>1, <1>2, ActorsDiffer DEF OwnersAgree, OwnersCount
<1>7. QED
  BY <1>4, <1>5, <1>6, BoundsAreNaturals DEF BudgetInv

LEMMA RestKeepsBudget ==
    ASSUME Inv, BudgetInv, ClaimedPublished', LeaseExpires \/ UNCHANGED vars
    PROVE  BudgetInv'
<1>1. UNCHANGED <<job, writer, policies, admitted, run, delivery, pending, certified, booking>>
  BY DEF LeaseExpires, vars, durable
<1>2. Charged' = Charged
  BY <1>1, ChargesUntouched
<1>3. BookingAgrees'
  BY <1>1 DEF BudgetInv, BookingAgrees
<1>4. OwnersAgree' /\ OwnersCount'
  BY <1>1, <1>2 DEF BudgetInv, OwnersAgree, OwnersCount, OwnerAgrees, OwnerCounts, MaySettle
<1>5. QED
  BY <1>2, <1>3, <1>4 DEF BudgetInv

LEMMA CallKeepsBudget ==
    ASSUME Inv, Inv', BudgetInv, ClaimedPublished', NEW w \in Workers,
           NextSlot(w) \/ StartTrigger(w) \/ CallEnds(w) \/ Crash(w)
    PROVE  BudgetInv'
<1> USE DEF Inv
<1>1. /\ run \in [Workers -> Runs] /\ run[w] \in Runs
      /\ UNCHANGED <<policies, admitted, delivery, pending, certified, booking>>
  BY DEF ControlTypeOK, NextSlot, StartTrigger, CallEnds, Crash, durable
<1>2. BookingAgrees /\ Charged <= MaxActions
  BY DEF BudgetInv
<1>3. CASE NextSlot(w) \/ CallEnds(w) \/ Crash(w)
  <2>1. UNCHANGED <<job, writer>>
    BY <1>3 DEF NextSlot, CallEnds, Crash
  <2>2. Charged' = Charged
    BY <1>1, <2>1, ChargesUntouched
  <2>3. BookingAgrees'
    BY <1>1, <1>2, <2>1 DEF BookingAgrees
  <2>4. run'[w].pc \in {"idle", "start"} /\ \A v \in Workers : v # w => run'[v] = run[v]
    <3>1. PICK r \in {Idle, [Idle EXCEPT !.pc = "start"]} : run' = [run EXCEPT ![w] = r]
      <4>1. CASE NextSlot(w)
        BY <4>1, Zenon DEF NextSlot
      <4>2. CASE CallEnds(w) \/ Crash(w)
        BY <4>2, Zenon DEF CallEnds, Crash
      <4>3. QED
        BY <1>3, <4>1, <4>2
    <3>2. r.pc \in {"idle", "start"}
      BY <3>1 DEF Idle
    <3>3. QED
      BY <1>1, <3>1, <3>2
  <2>5. OwnerAgrees(run[w])' /\ OwnerCounts(run[w])'
    BY <2>4 DEF OwnerAgrees, OwnerCounts, MaySettle
  <2>6. \A v \in Workers : v # w /\ writer = v =>
            OwnerAgrees(run[v])' /\ OwnerCounts(run[v])'
    BY <1>1, <2>1, <2>2, <2>4
       DEF BudgetInv, OwnersAgree, OwnersCount, OwnerAgrees, OwnerCounts, MaySettle
  <2>7. OwnersAgree' /\ OwnersCount'
    BY <2>1, <2>5, <2>6 DEF OwnersAgree, OwnersCount
  <2>8. QED
    BY <1>2, <2>2, <2>3, <2>7 DEF BudgetInv
<1>4. CASE StartTrigger(w)
  <2>1. /\ writer' = w /\ w # NoWriter
        /\ job'.acks = job.acks /\ job'.effects = job.effects /\ job'.pubs = job.pubs
        /\ job' = job \/ job'.active
    BY <1>4, ActorsDiffer DEF StartTrigger, ControlTypeOK
  <2>2. Charged' = Charged
    BY <1>1, <2>1 DEF Charged, ChargedPubs, ChargedAcks, ChargedEffects, ChargedDelivery
  <2>3. BookingAgrees'
    BY <1>1, <1>2, <2>1 DEF BookingAgrees
  <2>4. run'[w].pc = "idle" \/ (run'[w].pc = "reconstruct" /\ job'.active)
    <3>1. CASE run[w].slot = "done"
      BY <1>1, <1>4, <3>1 DEF StartTrigger, Goes, Runs
    <3>2. CASE run[w].slot # "done"
      BY <1>1, <1>4, <3>2 DEF StartTrigger, Goes, Runs, ControlTypeOK
    <3>3. QED
      BY <3>1, <3>2
  <2>5. OwnerAgrees(run[w])' /\ OwnerCounts(run[w])'
    BY <2>4 DEF OwnerAgrees, OwnerCounts, MaySettle
  <2>6. OwnersAgree' /\ OwnersCount'
    BY <2>1, <2>5 DEF OwnersAgree, OwnersCount
  <2>7. QED
    BY <1>2, <2>2, <2>3, <2>6 DEF BudgetInv
<1>5. QED
  BY <1>3, <1>4

LEMMA InitBudget == Init => BudgetInv
<1>1. SUFFICES ASSUME Init PROVE BudgetInv
  OBVIOUS
<1>2. Charged = 0
  BY <1>1, NothingCharged DEF Init
<1>3. ClaimedPublished /\ BookingAgrees
  BY <1>1 DEF Init, ClaimedPublished, BookingAgrees, NoJob
<1>4. OwnersAgree /\ OwnersCount
  BY <1>1, ActorsDiffer DEF Init, OwnersAgree, OwnersCount
<1>5. QED
  BY <1>2, <1>3, <1>4, BoundsAreNaturals DEF BudgetInv

LEMMA NextKeepsBudget == Inv /\ Inv' /\ BudgetInv /\ [Next]_vars => BudgetInv'
<1>1. SUFFICES ASSUME Inv, Inv', BudgetInv, [Next]_vars PROVE BudgetInv'
  OBVIOUS
<1>2. ClaimedPublished'
  BY <1>1, ClaimedStaysPublished DEF BudgetInv
<1>3. CASE PathStep \/ PathDies
  BY <1>1, <1>2, <1>3, PathKeepsBudget
<1>4. CASE LeaseExpires \/ UNCHANGED vars
  BY <1>1, <1>2, <1>4, RestKeepsBudget
<1>5. ASSUME NEW w \in Workers,
             WorkerStep(w) \/ NotAdmitted(w) \/ ResourceWait(w) \/ Crash(w)
      PROVE  BudgetInv'
  BY <1>1, <1>2, <1>5, RoundKeepsBudget, EnrolKeepsBudget, CommitKeepsBudget,
     TriggerKeepsBudget, CallKeepsBudget DEF WorkerStep, Bounded
<1>6. QED
  BY <1>1, <1>3, <1>4, <1>5 DEF Next

LEMMA BudgetInvariance == Spec => [](Inv /\ BudgetInv)
<1>1. Inv /\ BudgetInv /\ [Next]_vars => (Inv /\ BudgetInv)'
  BY NextKeeps, NextKeepsBudget
<1>2. QED
  BY InitInv, InitBudget, <1>1, PTL DEF Spec

\* max_actions bounds what one trigger commits, in all the calls that it
\* takes, wherever workers die and whoever resumes it (_run_bounded).
THEOREM BudgetIsKept == Spec => []BudgetKept
<1>1. ASSUME Inv, BudgetInv PROVE BudgetKept
  <2>1. booking = "released" /\ admitted = "this" => admitted = "this" /\ Dispatch \in certified
    BY <1>1 DEF BudgetInv, BookingAgrees
  <2>2. /\ job.pubs \in SUBSET Messages
        /\ {c \in job.acks : delivery[c] = "consumed"} \in SUBSET Messages
        /\ job.effects \ pending \in SUBSET Messages
    BY <1>1 DEF Inv, ControlTypeOK
  <2>3. /\ Cardinality(job.pubs) \in Nat
        /\ Cardinality({c \in job.acks : delivery[c] = "consumed"}) \in Nat
        /\ Cardinality(job.effects \ pending) \in Nat
    BY <2>2, MessagesCounted
  <2>4. Spent <= Charged /\ Spent \in Nat /\ Charged \in Nat
    BY <2>1, <2>3 DEF Spent, Charged, ChargedPubs, ChargedAcks, ChargedEffects,
                      ChargedDelivery
  <2>5. Charged <= MaxActions /\ MaxActions \in Nat
    BY <1>1, BoundsAreNaturals DEF BudgetInv
  <2>6. QED
    BY <2>4, <2>5 DEF BudgetKept
<1>2. QED
  BY <1>1, BudgetInvariance, PTL

\* A booking is given back only once its delivery is certified, and no trigger
\* that made one ends while it is reserved for a certified delivery
\* (IntentResourceCoordinator.complete, reconcile_certified).
THEOREM BookingReturned == Spec => []BookingFollowsDelivery
<1>1. ASSUME BudgetInv PROVE BookingFollowsDelivery
  BY <1>1 DEF BudgetInv, BookingAgrees, BookingFollowsDelivery
<1>2. QED
  BY <1>1, BudgetInvariance, PTL

=============================================================================
