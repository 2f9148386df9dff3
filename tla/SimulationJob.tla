---------------------------- MODULE SimulationJob ---------------------------
(***************************************************************************)
(* The durable job runner SimulationJob (sose/jobs/runner.py): ticks,      *)
(* batches of ticks, their claims and phases, recovery after a crash or a  *)
(* failure, and the control operations pause, resume and update_config.    *)
(*                                                                         *)
(* The job state is one record, saved whole.  A worker works on a copy     *)
(* and each of its transactions is one step, so that steps of other        *)
(* workers and crashes come between them.  The engine is reduced to the    *)
(* logical tick it commits (see DurableRuntime).  The job is initialized.  *)
(***************************************************************************)
EXTENDS Integers, Sequences, FiniteSets

CONSTANTS
    Workers,      \* processes that call the operations of the job
    Triggers,     \* trigger ids passed to run_tick
    Batches,      \* trigger ids passed to run_trigger
    Sizes,        \* tick counts passed to run_trigger
    Controls,     \* which of "pause", "resume" and "config" are called
    HasWarehouse, \* a domain warehouse is configured, whose flush can fail
    MaxTicks,     \* bound on the ticks that calls may ask for
    MaxRevision,  \* bound on config_revision
    None

ASSUME ConstantAssumption ==
    /\ Sizes \subseteq Nat \ {0}
    /\ Controls \subseteq {"pause", "resume", "config"}
    /\ HasWarehouse \in BOOLEAN
    /\ MaxTicks \in Nat
    /\ MaxRevision \in Nat \ {0}

\* The id of a tick: a trigger's own, or that of the k-th child of a batch.
PlainId(t) == <<t, 0>>
ChildId(b, k) == <<b, k>>
Ids == {PlainId(t) : t \in Triggers} \cup (Batches \X (Nat \ {0}))

\* trigger_id is a non-empty string, and a child's id is not one that a caller
\* passes: it is made from the id of the batch.
ASSUME IdAssumption ==
    /\ None \notin Batches \cup Ids
    /\ Triggers \cap Batches = {}

VARIABLES
    job,         \* the persisted SimulationJobState
    simTick,     \* the logical_tick of the persisted SimulationPosition
    advances,    \* the tick ids whose advance_tick committed, in order
    reconciled,  \* the ticks whose reconcile_tick has run
    pc,          \* where each worker is
    call,        \* the arguments and local variables of its call
    mine,        \* its copy of the job state, the one it will save
    engineTick   \* the tick of the position it read, and of its engine

durable == <<job, simTick, advances, reconciled>>
local == <<pc, call, mine, engineTick>>
vars == <<durable, local>>

NoCall == [batch |-> None, id |-> None, recover |-> FALSE, total |-> 0, done |-> 0,
           start |-> 0]

Init ==
    /\ job = [status |-> "ready", phase |-> "idle", active |-> None, lastDone |-> None,
              batch |-> None, total |-> 0, done |-> 0, records |-> {}, next |-> 0,
              rev |-> 1]
    /\ simTick = 0
    /\ advances = <<>>
    /\ reconciled = {}
    /\ pc = [w \in Workers |-> "idle"]
    /\ call = [w \in Workers |-> NoCall]
    /\ mine = [w \in Workers |-> None]
    /\ engineTick = [w \in Workers |-> 0]

-----------------------------------------------------------------------------
(***************************************************************************)
(* Steps of a worker                                                       *)
(***************************************************************************)

GoTo(w, label) == pc' = [pc EXCEPT ![w] = label]

Keep(w, state) == mine' = [mine EXCEPT ![w] = state]

\* The call returns, raises out of the runner, or its process dies.
Return(w) ==
    /\ GoTo(w, "idle")
    /\ call' = [call EXCEPT ![w] = NoCall]
    /\ mine' = [mine EXCEPT ![w] = None]
    /\ engineTick' = [engineTick EXCEPT ![w] = 0]

\* A step that raises inside run_tick's try block: _persist_failed_tick is next.
Fail(w) == GoTo(w, "failRead") /\ UNCHANGED <<call, mine, engineTick>>

Crash(w) ==
    /\ pc[w] # "idle"
    /\ Return(w)
    /\ UNCHANGED durable

\* The orchestrator's part: it calls with recover=True only once the earlier
\* attempt is no longer live, so no other call overlaps a recovering one.
MayCall(w, recover) ==
    \A v \in Workers \ {w} : pc[v] = "idle" \/ ~(recover \/ call[v].recover)

\* _ensure_tick_matches_batch and _validate_batch_ownership_for_tick
MatchesBatch(state, id) ==
    state.batch # None => id = ChildId(state.batch, state.done + 1)

Unresolved(state) == state.active # None /\ state.status \in {"running", "failed"}

\* run_tick(trigger_id): the first read.  A call that is refused here changes
\* nothing and is left out.
RunTick(w, t, recover) ==
    /\ pc[w] = "idle"
    /\ Unresolved(job) \/ Len(advances) < MaxTicks
    /\ MayCall(w, recover)
    /\ MatchesBatch(job, PlainId(t))
    /\ call' = [call EXCEPT ![w] = [NoCall EXCEPT !.id = PlainId(t), !.recover = recover]]
    /\ Keep(w, job)
    /\ GoTo(w, "claim")
    /\ UNCHANGED <<durable, engineTick>>

\* The tick returns to its caller, or to the loop of run_trigger.
TickReturns(w) ==
    IF call[w].batch = None THEN Return(w)
    ELSE GoTo(w, "progress") /\ UNCHANGED <<call, mine, engineTick>>

\* _claim_tick: the trigger is known to be completed.
ClaimTickDone(w) ==
    /\ pc[w] = "claim"
    /\ job.lastDone = call[w].id
    /\ TickReturns(w)
    /\ UNCHANGED durable

\* Mutants of Claimable: the owner is not looked at; a claim that a crash left
\* running cannot be recovered.
ClaimableOwned(w) ==
    /\ job.lastDone # call[w].id
    /\ MatchesBatch(job, call[w].id)
    /\ job.status # "paused"
ClaimableIfFailed(w) ==
    /\ job.lastDone # call[w].id
    /\ MatchesBatch(job, call[w].id)
    /\ job.status # "paused"
    /\ Unresolved(job) => /\ call[w].recover /\ job.active = call[w].id
                          /\ job.status = "failed"

Claimable(w) ==
    /\ job.lastDone # call[w].id
    /\ MatchesBatch(job, call[w].id)
    /\ ~(job.batch = None /\ mine[w].batch # None)
    /\ job.status # "paused"
    /\ Unresolved(job) => call[w].recover /\ job.active = call[w].id

\* Mutant of ClaimTickState: recovery starts the tick again.
ClaimTickAnyPhase(state, id) == [state EXCEPT !.status = "running", !.phase = "advance",
                                              !.active = id]

ClaimTickState(state, id) ==
    IF Unresolved(state) THEN [state EXCEPT !.status = "running"]
    ELSE [state EXCEPT !.status = "running", !.phase = "advance", !.active = id]

ClaimTick(w) ==
    /\ pc[w] = "claim"
    /\ Claimable(w)
    /\ job' = ClaimTickState(job, call[w].id)
    /\ Keep(w, job')
    /\ GoTo(w, "position")
    /\ UNCHANGED <<simTick, advances, reconciled, call, engineTick>>

ClaimTickRefused(w) ==
    /\ pc[w] = "claim"
    /\ job.lastDone # call[w].id
    /\ ~Claimable(w)
    /\ Return(w)
    /\ UNCHANGED durable

\* Mutant of AdvanceCommitted: never inferred.
AdvanceNeverInferred(state) == FALSE

\* _execute_tick_phase: the position tells whether the advance committed.
AdvanceCommitted(state) == state.phase = "advance" /\ simTick > state.next

ReadPosition(w) ==
    /\ pc[w] = "position"
    /\ engineTick' = [engineTick EXCEPT ![w] = simTick]
    /\ \/ /\ AdvanceCommitted(mine[w])
          /\ Keep(w, [mine[w] EXCEPT !.phase = "reconcile", !.next = simTick])
          /\ GoTo(w, "saveRecovered")
       \/ /\ mine[w].phase = "advance" /\ ~AdvanceCommitted(mine[w])
          /\ Keep(w, [mine[w] EXCEPT !.next = simTick])
          /\ GoTo(w, "saveAdvance")
       \/ /\ mine[w].phase # "advance"
          /\ GoTo(w, "build")
          /\ UNCHANGED mine
    /\ UNCHANGED <<durable, call>>

\* _save_tick_if_owned: the whole copy is saved if the trigger still owns the
\* job, else RuntimeError.
Owns(w) == job.active = call[w].id

SaveTickIfOwned(w, from, to) ==
    /\ pc[w] = from
    /\ IF Owns(w)
       THEN job' = mine[w] /\ GoTo(w, to) /\ UNCHANGED <<call, mine, engineTick>>
       ELSE Fail(w) /\ UNCHANGED job
    /\ UNCHANGED <<simTick, advances, reconciled>>

\* Build the runtime at the position that was read; rebuild refuses another.
BuildToAdvance(w) ==
    /\ pc[w] = "rebuild"
    /\ IF simTick = engineTick[w]
       THEN GoTo(w, "advance") /\ UNCHANGED <<call, mine, engineTick>>
       ELSE Fail(w)
    /\ UNCHANGED durable

\* engine.advance_tick(): the engine's own clock decides the tick.
Advance(w) ==
    /\ pc[w] = "advance"
    /\ Len(advances) < MaxTicks
    /\ simTick' = engineTick[w] + 1
    /\ advances' = Append(advances, call[w].id)
    /\ GoTo(w, "advanced")
    /\ UNCHANGED <<job, reconciled, call, mine, engineTick>>

\* Mutant of ReadAdvanced: next_tick is left behind.
ReadAdvancedStale(w) ==
    /\ pc[w] = "advanced"
    /\ Keep(w, [mine[w] EXCEPT !.phase = "reconcile"])
    /\ GoTo(w, "saveReconcile")
    /\ UNCHANGED <<durable, call, engineTick>>

ReadAdvanced(w) ==
    /\ pc[w] = "advanced"
    /\ Keep(w, [mine[w] EXCEPT !.phase = "reconcile", !.next = simTick])
    /\ GoTo(w, "saveReconcile")
    /\ UNCHANGED <<durable, call, engineTick>>

\* _build_reconcile_runtime
BuildToReconcile(w) ==
    /\ pc[w] = "build"
    /\ engineTick' = [engineTick EXCEPT ![w] = simTick]
    /\ GoTo(w, "reconcile")
    /\ UNCHANGED <<durable, call, mine>>

\* definition.reconcile_tick at the committed position.
Reconcile(w) ==
    /\ pc[w] = "reconcile"
    /\ reconciled' = reconciled \cup {simTick}
    /\ GoTo(w, "complete")
    /\ UNCHANGED <<job, simTick, advances, call, mine, engineTick>>

CompletedState(state, id) ==
    [state EXCEPT !.status = "ready", !.phase = "idle", !.next = simTick,
                  !.active = None, !.lastDone = id]

ReadCompleted(w) ==
    /\ pc[w] = "complete"
    /\ Keep(w, CompletedState(mine[w], call[w].id))
    /\ GoTo(w, "saveCompleted")
    /\ UNCHANGED <<durable, call, engineTick>>

\* The business mutations are delivered and the tick returns.
FlushDomain(w) ==
    /\ pc[w] = "flush"
    /\ TickReturns(w)
    /\ UNCHANGED durable

\* Building, advancing, reconciling or flushing raises.
StepFails(w) ==
    /\ \/ pc[w] \in {"rebuild", "advance", "advanced", "build", "reconcile", "complete"}
       \/ pc[w] = "flush" /\ HasWarehouse
    /\ Fail(w)
    /\ UNCHANGED durable

\* _persist_failed_tick reads outside its transaction and saves the whole copy.
FailRead(w) ==
    /\ pc[w] = "failRead"
    /\ Keep(w, [job EXCEPT !.status = "failed"])
    /\ GoTo(w, "failWrite")
    /\ UNCHANGED <<durable, call, engineTick>>

FailWrite(w) ==
    /\ pc[w] = "failWrite"
    /\ job' = mine[w]
    /\ Return(w)
    /\ UNCHANGED <<simTick, advances, reconciled>>

-----------------------------------------------------------------------------
(***************************************************************************)
(* run_trigger: a batch of child ticks                                     *)
(***************************************************************************)

Recorded(state, b) == \E r \in state.records : r.trigger = b

\* The first read.  A completed batch returns its record and changes nothing.
RunTrigger(w, b, n, recover) ==
    /\ pc[w] = "idle"
    /\ job.batch = b \/ Len(advances) + n <= MaxTicks
    /\ MayCall(w, recover)
    /\ ~Recorded(job, b)
    /\ n = job.total \/ job.batch # b
    /\ call' = [call EXCEPT ![w] = [NoCall EXCEPT !.batch = b, !.recover = recover,
                                                  !.total = n]]
    /\ GoTo(w, "claimBatch")
    /\ UNCHANGED <<durable, mine, engineTick>>

EnterBatch(w, state) ==
    /\ call' = [call EXCEPT ![w].total = state.total, ![w].done = state.done,
                            ![w].start = state.next - state.done]
    /\ GoTo(w, "loop")
    /\ UNCHANGED <<mine, engineTick>>

ClaimNewBatch(w) ==
    /\ pc[w] = "claimBatch"
    /\ ~Recorded(job, call[w].batch)
    /\ job.batch = None
    /\ job.status = "ready" /\ job.phase = "idle" /\ job.active = None
    /\ job' = [job EXCEPT !.batch = call[w].batch, !.total = call[w].total, !.done = 0]
    /\ EnterBatch(w, job')
    /\ UNCHANGED <<simTick, advances, reconciled>>

\* An unfinished batch is entered again with recover, a finished one anyway.
ClaimSameBatch(w) ==
    /\ pc[w] = "claimBatch"
    /\ ~Recorded(job, call[w].batch)
    /\ job.batch = call[w].batch
    /\ call[w].recover \/ job.done >= job.total
    /\ EnterBatch(w, job)
    /\ UNCHANGED durable

ClaimBatchRefused(w) ==
    /\ pc[w] = "claimBatch"
    /\ \/ Recorded(job, call[w].batch)
       \/ job.batch \notin {None, call[w].batch}
       \/ job.batch = call[w].batch /\ ~call[w].recover /\ job.done < job.total
       \/ /\ job.batch = None
          /\ job.status # "ready" \/ job.phase # "idle" \/ job.active # None
    /\ Return(w)
    /\ UNCHANGED durable

\* The loop calls run_tick for the next child, whose first read is this one.
NextChild(w) ==
    LET id == ChildId(call[w].batch, call[w].done + 1)
    IN /\ pc[w] = "loop"
       /\ call[w].done < call[w].total
       /\ IF MatchesBatch(job, id)
          THEN /\ call' = [call EXCEPT ![w].id = id]
               /\ Keep(w, job)
               /\ GoTo(w, "claim")
               /\ UNCHANGED engineTick
          ELSE Return(w)
       /\ UNCHANGED durable

\* Progress past the size of the batch is refused by SimulationJobState.
SaveBatchProgress(w) ==
    /\ pc[w] = "progress"
    /\ IF job.batch = call[w].batch /\ call[w].done < job.total
       THEN /\ job' = [job EXCEPT !.done = call[w].done + 1]
            /\ call' = [call EXCEPT ![w].done = @ + 1]
            /\ GoTo(w, "loop")
            /\ UNCHANGED <<mine, engineTick>>
       ELSE Return(w) /\ UNCHANGED job
    /\ UNCHANGED <<simTick, advances, reconciled>>

\* CompletedJobTrigger refuses an inverted range of ticks.
ValidRecord(record) == 0 <= record.start /\ record.start <= record.end

\* Mutant of FinalizedState: the progress is not reset.
FinalizedKeepsProgress(state, record) ==
    [state EXCEPT !.batch = None, !.total = 0, !.records = @ \cup {record}]

FinalizedState(state, record) ==
    [state EXCEPT !.batch = None, !.total = 0, !.done = 0, !.records = @ \cup {record}]

FinalizeBatch(w) ==
    LET record == [trigger |-> call[w].batch, ticks |-> call[w].total,
                   start |-> call[w].start, end |-> job.next]
    IN /\ pc[w] = "loop"
       /\ call[w].done >= call[w].total
       /\ job' = IF job.batch = call[w].batch /\ ValidRecord(record)
                 THEN FinalizedState(job, record) ELSE job
       /\ Return(w)
       /\ UNCHANGED <<simTick, advances, reconciled>>

-----------------------------------------------------------------------------
(***************************************************************************)
(* pause, resume and update_config: a read, a check, then a transaction    *)
(***************************************************************************)

\* _set_status and update_config refuse a job whose trigger is active.
ControlRead(w, op) ==
    /\ pc[w] = "idle"
    /\ MayCall(w, FALSE)
    /\ op = "config" => job.rev < MaxRevision
    /\ job.batch = None
    /\ \/ /\ op = "pause"
          /\ job.status # "running"
          /\ Keep(w, [job EXCEPT !.status = "paused"])
       \/ /\ op = "resume"
          /\ job.status # "running"
          /\ ~(job.status = "failed" /\ job.active # None)
          /\ Keep(w, [job EXCEPT !.status = "ready"])
       \/ /\ op = "config"
          /\ job.active = None
          /\ Keep(w, [job EXCEPT !.rev = @ + 1])
    /\ GoTo(w, IF op = "config" THEN "setConfig" ELSE "setStatus")
    /\ UNCHANGED <<durable, call, engineTick>>

SetStatus(w) ==
    /\ pc[w] = "setStatus"
    /\ job' = mine[w]
    /\ Return(w)
    /\ UNCHANGED <<simTick, advances, reconciled>>

\* Only a changed revision is noticed.
SetConfig(w) ==
    /\ pc[w] = "setConfig"
    /\ job' = IF job.rev = mine[w].rev - 1 THEN mine[w] ELSE job
    /\ Return(w)
    /\ UNCHANGED <<simTick, advances, reconciled>>

-----------------------------------------------------------------------------

ExecuteTick(w) ==
    \/ ReadPosition(w)
    \/ SaveTickIfOwned(w, "saveRecovered", "build")
    \/ SaveTickIfOwned(w, "saveAdvance", "rebuild")
    \/ BuildToAdvance(w) \/ Advance(w) \/ ReadAdvanced(w)
    \/ SaveTickIfOwned(w, "saveReconcile", "reconcile")
    \/ BuildToReconcile(w) \/ Reconcile(w) \/ ReadCompleted(w)
    \/ SaveTickIfOwned(w, "saveCompleted", "flush")
    \/ FlushDomain(w)

Claim(w) ==
    \/ ClaimTickDone(w) \/ ClaimTick(w) \/ ClaimTickRefused(w)
    \/ ClaimNewBatch(w) \/ ClaimSameBatch(w) \/ ClaimBatchRefused(w)

Step(w) ==
    \/ Claim(w)
    \/ ExecuteTick(w)
    \/ FailRead(w) \/ FailWrite(w)
    \/ NextChild(w) \/ SaveBatchProgress(w) \/ FinalizeBatch(w)
    \/ SetStatus(w) \/ SetConfig(w)

\* What the callers and the runner do when nothing goes wrong.
Reliable ==
    \E w \in Workers :
        \/ \E t \in Triggers, r \in BOOLEAN : RunTick(w, t, r)
        \/ \E b \in Batches, n \in Sizes, r \in BOOLEAN : RunTrigger(w, b, n, r)
        \/ \E op \in Controls : ControlRead(w, op)
        \/ Step(w)

Next == Reliable \/ \E w \in Workers : StepFails(w) \/ Crash(w)

Spec == Init /\ [][Next]_vars

(***************************************************************************)
(* Fairness: a call in progress goes on, the orchestrator retries an       *)
(* unfinished batch with recover, and failures and crashes, any number of  *)
(* them at any place, cease in the end.                                    *)
(***************************************************************************)
FairSpec ==
    /\ Spec
    /\ <>[][Reliable]_vars
    /\ \A w \in Workers :
          /\ WF_vars(Step(w))
          /\ \A b \in Batches : SF_vars(job.batch = b /\ RunTrigger(w, b, job.total, TRUE))

-----------------------------------------------------------------------------
(***************************************************************************)
(* Properties                                                              *)
(***************************************************************************)

\* The job state always has the form SimulationJobState validates: completed
\* ticks of a batch never exceed its size, and a tick range is not inverted.
TypeOK ==
    /\ DOMAIN job = {"status", "phase", "active", "lastDone", "batch", "total", "done",
                     "records", "next", "rev"}
    /\ job.status \in {"ready", "running", "paused", "failed"}
    /\ job.phase \in {"idle", "advance", "reconcile"}
    /\ job.active \in Ids \cup {None} /\ job.lastDone \in Ids \cup {None}
    /\ job.batch \in Batches \cup {None}
    /\ job.next \in Nat /\ job.total \in Nat /\ job.done \in 0..job.total
    /\ job.rev \in 1..MaxRevision
    /\ \A r \in job.records :
          /\ r.trigger \in Batches /\ r.ticks \in Sizes
          /\ r.start \in Nat /\ r.end \in Nat /\ r.start <= r.end
    /\ simTick \in Nat
    /\ \A k \in DOMAIN advances : advances[k] \in Ids

\* The ticks that children of batch b advanced.
AdvancesOf(b) == {k \in DOMAIN advances : advances[k][1] = b}

\* A batch advances the simulation by exactly its number of ticks and each
\* child once, however often it failed, crashed and was recovered.
BatchAdvancesExactly ==
    /\ \A b \in Batches : \A j, k \in AdvancesOf(b) : advances[j] = advances[k] => j = k
    /\ \A r \in job.records : Cardinality(AdvancesOf(r.trigger)) = r.ticks

\* The checkpoint tells how far the position is: equal to it, or one behind
\* when the advance committed and the phase still says "advance".  Recovery
\* infers from this whether to advance or to reconcile.
CheckpointTracksPosition ==
    \/ simTick = job.next
    \/ simTick = job.next + 1 /\ job.phase = "advance" /\ job.active # None

\* A job that is ready with no active trigger has reconciled every tick, and the
\* trigger that completed has advanced the simulation itself: recovery never
\* mistakes the advance of one trigger for that of another.
EveryTickReconciled ==
    /\ job.status = "ready" /\ job.active = None => 1..simTick \subseteq reconciled
    /\ job.lastDone # None => \E k \in DOMAIN advances : advances[k] = job.lastDone

\* The places of a tick that is claimed and not completed.
Executing == {"position", "saveRecovered", "saveAdvance", "rebuild", "advance",
              "advanced", "saveReconcile", "build", "reconcile", "complete",
              "saveCompleted"}

\* Two workers never execute the tick of the job at the same time: the claim
\* in a transaction is what keeps a second trigger out.
MutualExclusion ==
    \A v, w \in Workers : pc[v] \in Executing /\ pc[w] \in Executing => v = w

\* A batch that was claimed is completed in the end, if it is recovered.
BatchCompletes == \A b \in Batches : job.batch = b ~> Recorded(job, b)

=============================================================================
