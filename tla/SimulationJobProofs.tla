------------------------- MODULE SimulationJobProofs ------------------------
(***************************************************************************)
(* Proofs about SimulationJob, for any triggers, batches and sizes and any *)
(* number of ticks, crashes, failures and recoveries.                      *)
(***************************************************************************)
EXTENDS SimulationJob, FiniteSetTheorems, TLAPS

-----------------------------------------------------------------------------
(***************************************************************************)
(* Types.  A worker saves its whole copy of the job state, so what a copy  *)
(* may be is as important as what the saved state may be.                  *)
(***************************************************************************)

Records == [trigger : Batches, ticks : Sizes, start : Nat, end : Nat]

JobRecords ==
    [status : {"ready", "running", "paused", "failed"},
     phase : {"idle", "advance", "reconcile"},
     active : Ids \cup {None}, lastDone : Ids \cup {None},
     batch : Batches \cup {None}, total : Nat, done : Nat,
     records : SUBSET Records, next : Nat, rev : 1..MaxRevision]

\* What SimulationJobState validates.
Valid(s) ==
    /\ s.done <= s.total
    /\ s.batch # None => s.total \in Sizes
    /\ \A r \in s.records : r.start <= r.end
States == {s \in JobRecords : Valid(s)}

Calls == [batch : Batches \cup {None}, id : Ids \cup {None}, recover : BOOLEAN,
          total : Nat, done : Nat, start : Int]

BatchPlaces == {"claimBatch", "loop", "progress"}
Places == {"idle", "claim", "flush", "failRead", "failWrite", "setStatus", "setConfig"}
            \cup Executing \cup BatchPlaces

\* A call for a batch knows its size, one for a tick its id, and whoever saves
\* a state has one.
CallOK(w) ==
    /\ pc[w] \in BatchPlaces => call[w].batch \in Batches
    /\ call[w].batch \in Batches => call[w].total \in Sizes
    /\ pc[w] \in Executing \cup {"claim", "flush"} => call[w].id \in Ids
    /\ pc[w] \in Executing \cup {"claim", "failWrite", "setStatus", "setConfig"} =>
         mine[w] \in States

JobOK ==
    /\ job \in States /\ simTick \in Nat /\ advances \in Seq(Ids)
    /\ pc \in [Workers -> Places] /\ call \in [Workers -> Calls]
    /\ mine \in [Workers -> States \cup {None}] /\ engineTick \in [Workers -> Nat]
    /\ \A w \in Workers : CallOK(w)

\* A step of one worker leaves the others' calls alone.
LEMMA OthersOK ==
    ASSUME JobOK, NEW w \in Workers, CallOK(w)',
           \A v \in Workers \ {w} : UNCHANGED <<pc[v], call[v], mine[v]>>
    PROVE  \A v \in Workers : CallOK(v)'
  BY DEF JobOK, CallOK

\* The steps of a worker: where it goes, what its call and its copy become.
LEMMA StepOK ==
    ASSUME JobOK, NEW w \in Workers,
           NEW p \in Places, pc' = [pc EXCEPT ![w] = p],
           NEW c \in Calls, call' = [call EXCEPT ![w] = c],
           NEW m \in States \cup {None}, mine' = [mine EXCEPT ![w] = m],
           NEW n \in Nat, engineTick' = [engineTick EXCEPT ![w] = n],
           p \in BatchPlaces => c.batch \in Batches,
           c.batch \in Batches => c.total \in Sizes,
           p \in Executing \cup {"claim", "flush"} => c.id \in Ids,
           p \in Executing \cup {"claim", "failWrite", "setStatus", "setConfig"} =>
             m \in States,
           job' \in States, simTick' \in Nat, advances' \in Seq(Ids)
    PROVE  JobOK'
<1>1. /\ pc'[w] = p /\ call'[w] = c /\ mine'[w] = m
      /\ \A v \in Workers \ {w} : UNCHANGED <<pc[v], call[v], mine[v]>>
  BY DEF JobOK
<1>2. CallOK(w)'
  BY <1>1 DEF CallOK
<1>3. \A v \in Workers : CallOK(v)'
  BY <1>1, <1>2, OthersOK
<1>4. /\ pc' \in [Workers -> Places] /\ call' \in [Workers -> Calls]
      /\ mine' \in [Workers -> States \cup {None}] /\ engineTick' \in [Workers -> Nat]
  BY DEF JobOK
<1>5. QED
  BY <1>3, <1>4 DEF JobOK

\* A worker that goes on with the call and the copy that it has.
LEMMA UnchangedLocals ==
    ASSUME JobOK, NEW w \in Workers
    PROVE  /\ call[w] \in Calls /\ call = [call EXCEPT ![w] = call[w]]
           /\ mine[w] \in States \cup {None} /\ mine = [mine EXCEPT ![w] = mine[w]]
           /\ engineTick[w] \in Nat /\ engineTick = [engineTick EXCEPT ![w] = engineTick[w]]
           /\ pc[w] \in Places
  BY DEF JobOK

LEMMA NoCallTyped == NoCall \in Calls
  BY DEF NoCall, Calls

\* A call that ends.
LEMMA ReturnOK ==
    ASSUME JobOK, NEW w \in Workers, Return(w),
           job' \in States, simTick' \in Nat, advances' \in Seq(Ids)
    PROVE  JobOK'
<1>1. /\ pc' = [pc EXCEPT ![w] = "idle"] /\ call' = [call EXCEPT ![w] = NoCall]
      /\ mine' = [mine EXCEPT ![w] = None] /\ engineTick' = [engineTick EXCEPT ![w] = 0]
  BY DEF Return, GoTo
<1>2. "idle" \in Places /\ "idle" \notin BatchPlaces \cup Executing
  BY DEF Places, BatchPlaces, Executing
<1>3. NoCall.batch = None /\ None \notin Batches
  BY IdAssumption DEF NoCall
<1>4. QED
  BY <1>1, <1>2, <1>3, NoCallTyped, StepOK

\* A step that raises inside a tick.
LEMMA FailOK ==
    ASSUME JobOK, NEW w \in Workers, Fail(w),
           job' \in States, simTick' \in Nat, advances' \in Seq(Ids)
    PROVE  JobOK'
<1>1. /\ pc' = [pc EXCEPT ![w] = "failRead"] /\ call' = [call EXCEPT ![w] = call[w]]
      /\ mine' = [mine EXCEPT ![w] = mine[w]]
      /\ engineTick' = [engineTick EXCEPT ![w] = engineTick[w]]
  BY UnchangedLocals DEF Fail, GoTo
<1>2. "failRead" \in Places /\ "failRead" \notin BatchPlaces \cup Executing
  BY DEF Places, BatchPlaces, Executing
<1>3. call[w].batch \in Batches => call[w].total \in Sizes
  BY DEF JobOK, CallOK
<1>4. QED
  BY <1>1, <1>2, <1>3, UnchangedLocals, StepOK

\* What the runner makes of a valid state is valid.
LEMMA UpdatesValid ==
    ASSUME NEW s \in States
    PROVE  /\ \A x \in {"ready", "running", "paused", "failed"} :
                 [s EXCEPT !.status = x] \in States
           /\ \A id \in Ids : ClaimTickState(s, id) \in States
           /\ \A n \in Nat : [s EXCEPT !.next = n] \in States
           /\ \A n \in Nat : [s EXCEPT !.phase = "reconcile", !.next = n] \in States
           /\ s.rev < MaxRevision => [s EXCEPT !.rev = @ + 1] \in States
<1>1. s \in JobRecords /\ Valid(s)
  BY DEF States
<1>2. \A x \in {"ready", "running", "paused", "failed"} : [s EXCEPT !.status = x] \in States
  BY <1>1 DEF States, JobRecords, Valid
<1>3. \A id \in Ids :
         [s EXCEPT !.status = "running", !.phase = "advance", !.active = id] \in States
  BY <1>1 DEF States, JobRecords, Valid
<1>4. \A id \in Ids : ClaimTickState(s, id) \in States
  BY <1>2, <1>3 DEF ClaimTickState
<1>5. \A n \in Nat : [s EXCEPT !.next = n] \in States
  BY <1>1 DEF States, JobRecords, Valid
<1>6. \A n \in Nat : [s EXCEPT !.phase = "reconcile", !.next = n] \in States
  BY <1>1 DEF States, JobRecords, Valid
<1>7. s.rev < MaxRevision => [s EXCEPT !.rev = @ + 1] \in States
  <2>1. s.rev \in 1..MaxRevision /\ MaxRevision \in Nat
    BY <1>1, ConstantAssumption DEF JobRecords
  <2>2. s.rev < MaxRevision => s.rev + 1 \in 1..MaxRevision
    BY <2>1
  <2>3. QED
    BY <1>1, <2>2 DEF States, JobRecords, Valid
<1>8. QED
  BY <1>2, <1>4, <1>5, <1>6, <1>7

LEMMA CompletedValid ==
    ASSUME NEW s \in States, NEW id \in Ids, simTick \in Nat
    PROVE  CompletedState(s, id) \in States
  BY DEF States, JobRecords, Valid, CompletedState

LEMMA InitOK == Init => JobOK
<1>1. SUFFICES ASSUME Init PROVE JobOK
  OBVIOUS
<1>2. job \in States
  <2>1. 1 \in 1..MaxRevision
    BY ConstantAssumption
  <2>2. job \in JobRecords
    BY <1>1, <2>1 DEF Init, JobRecords
  <2>3. Valid(job)
    BY <1>1 DEF Init, Valid
  <2>4. QED
    BY <2>2, <2>3 DEF States
<1>3. advances \in Seq(Ids)
  BY <1>1 DEF Init
<1>4. "idle" \in Places /\ "idle" \notin BatchPlaces \cup Executing
  BY DEF Places, BatchPlaces, Executing
<1>5. NoCall.batch = None /\ None \notin Batches
  BY IdAssumption DEF NoCall
<1>6. \A w \in Workers : CallOK(w)
  BY <1>1, <1>4, <1>5 DEF Init, CallOK
<1>7. QED
  BY <1>1, <1>2, <1>3, <1>4, <1>6, NoCallTyped DEF Init, JobOK

\* The first reads of the calls.
LEMMA CallsOK ==
    ASSUME JobOK, NEW w \in Workers,
           \/ \E t \in Triggers, r \in BOOLEAN : RunTick(w, t, r)
           \/ \E b \in Batches, n \in Sizes, r \in BOOLEAN : RunTrigger(w, b, n, r)
           \/ \E op \in Controls : ControlRead(w, op)
    PROVE  JobOK'
<1>1. /\ job \in States /\ simTick \in Nat /\ advances \in Seq(Ids)
      /\ None \notin Batches /\ Sizes \subseteq Nat
  BY IdAssumption, ConstantAssumption DEF JobOK
<1>2. ASSUME NEW t \in Triggers, NEW r \in BOOLEAN, RunTick(w, t, r)
      PROVE  JobOK'
  <2> DEFINE c == [NoCall EXCEPT !.id = PlainId(t), !.recover = r]
  <2>1. PlainId(t) \in Ids
    BY DEF Ids
  <2>2. c \in Calls /\ c.batch = None /\ c.id \in Ids
    <3>1. NoCall.batch = None
      BY DEF NoCall
    <3>2. QED
      BY <2>1, <3>1, NoCallTyped DEF Calls
  <2>3. /\ UNCHANGED <<job, simTick, advances>>
        /\ pc' = [pc EXCEPT ![w] = "claim"] /\ call' = [call EXCEPT ![w] = c]
        /\ mine' = [mine EXCEPT ![w] = job]
        /\ engineTick' = [engineTick EXCEPT ![w] = engineTick[w]]
    BY <1>2, UnchangedLocals DEF RunTick, GoTo, Keep, durable
  <2>4. "claim" \in Places /\ "claim" \notin BatchPlaces
    BY DEF Places, BatchPlaces
  <2> HIDE DEF c
  <2>5. QED
    BY <1>1, <2>2, <2>3, <2>4, UnchangedLocals, StepOK
<1>3. ASSUME NEW b \in Batches, NEW n \in Sizes, NEW r \in BOOLEAN, RunTrigger(w, b, n, r)
      PROVE  JobOK'
  <2> DEFINE c == [NoCall EXCEPT !.batch = b, !.recover = r, !.total = n]
  <2>1. c \in Calls /\ c.batch \in Batches /\ c.total \in Sizes
    <3>1. n \in Nat
      BY <1>1
    <3>2. QED
      BY <3>1, NoCallTyped DEF Calls
  <2>2. /\ UNCHANGED <<job, simTick, advances>>
        /\ pc' = [pc EXCEPT ![w] = "claimBatch"] /\ call' = [call EXCEPT ![w] = c]
        /\ mine' = [mine EXCEPT ![w] = mine[w]]
        /\ engineTick' = [engineTick EXCEPT ![w] = engineTick[w]]
    BY <1>3, UnchangedLocals DEF RunTrigger, GoTo, durable
  <2>3. "claimBatch" \in Places /\ "claimBatch" \notin Executing
    BY DEF Places, BatchPlaces, Executing
  <2> HIDE DEF c
  <2>4. QED
    BY <1>1, <2>1, <2>2, <2>3, UnchangedLocals, StepOK
<1>4. ASSUME NEW op \in Controls, ControlRead(w, op)
      PROVE  JobOK'
  <2>1. PICK m \in States : mine' = [mine EXCEPT ![w] = m]
    <3>1. CASE op = "pause" \/ op = "resume"
      <4>1. \E x \in {"ready", "paused"} : Keep(w, [job EXCEPT !.status = x])
        BY <1>4, <3>1 DEF ControlRead
      <4>2. QED
        BY <1>1, <4>1, UpdatesValid DEF Keep
    <3>2. CASE op = "config"
      <4>1. Keep(w, [job EXCEPT !.rev = @ + 1]) /\ job.rev < MaxRevision
        BY <1>4, <3>2 DEF ControlRead
      <4>2. QED
        BY <1>1, <4>1, UpdatesValid DEF Keep
    <3>3. QED
      BY <3>1, <3>2, ConstantAssumption
  <2>2. PICK p \in {"setConfig", "setStatus"} : pc' = [pc EXCEPT ![w] = p]
    BY <1>4 DEF ControlRead, GoTo
  <2>3. p \in Places /\ p \notin BatchPlaces \cup Executing \cup {"claim", "flush"}
    BY <2>2 DEF Places, BatchPlaces, Executing
  <2>4. /\ UNCHANGED <<job, simTick, advances>>
        /\ call' = [call EXCEPT ![w] = call[w]]
        /\ engineTick' = [engineTick EXCEPT ![w] = engineTick[w]]
    BY <1>4, UnchangedLocals DEF ControlRead, durable
  <2>5. call[w].batch \in Batches => call[w].total \in Sizes
    BY DEF JobOK, CallOK
  <2>6. QED
    BY <1>1, <2>1, <2>2, <2>3, <2>4, <2>5, UnchangedLocals, StepOK
<1>5. QED
  BY <1>2, <1>3, <1>4

\* A worker goes on with its call; its copy may be a new one.
LEMMA GoesOK ==
    ASSUME JobOK, NEW w \in Workers, NEW p \in Places, GoTo(w, p), UNCHANGED call,
           NEW m \in States, Keep(w, m) \/ (UNCHANGED mine /\ m = mine[w]),
           NEW n \in Nat, engineTick' = [engineTick EXCEPT ![w] = n],
           p \in BatchPlaces => call[w].batch \in Batches,
           p \in Executing \cup {"claim", "flush"} => call[w].id \in Ids,
           job' \in States, simTick' \in Nat, advances' \in Seq(Ids)
    PROVE  JobOK'
<1>1. /\ pc' = [pc EXCEPT ![w] = p] /\ call' = [call EXCEPT ![w] = call[w]]
      /\ mine' = [mine EXCEPT ![w] = m]
  BY UnchangedLocals DEF GoTo, Keep
<1>2. call[w].batch \in Batches => call[w].total \in Sizes
  BY DEF JobOK, CallOK
<1>3. QED
  BY <1>1, <1>2, UnchangedLocals, StepOK

\* A tick returns to its caller or to the loop of its batch.
LEMMA TickReturnsOK ==
    ASSUME JobOK, NEW w \in Workers, TickReturns(w), UNCHANGED <<job, simTick, advances>>
    PROVE  JobOK'
<1>1. job' \in States /\ simTick' \in Nat /\ advances' \in Seq(Ids)
  BY DEF JobOK
<1>2. CASE call[w].batch = None
  BY <1>1, <1>2, ReturnOK DEF TickReturns
<1>3. CASE call[w].batch # None
  <2>1. /\ pc' = [pc EXCEPT ![w] = "progress"] /\ call' = [call EXCEPT ![w] = call[w]]
        /\ mine' = [mine EXCEPT ![w] = mine[w]]
        /\ engineTick' = [engineTick EXCEPT ![w] = engineTick[w]]
    BY <1>3, UnchangedLocals DEF TickReturns, GoTo
  <2>2. call[w].batch \in Batches /\ call[w].total \in Sizes
    BY <1>3, UnchangedLocals DEF Calls, JobOK, CallOK
  <2>3. "progress" \in Places /\ "progress" \notin Executing
    BY DEF Places, BatchPlaces, Executing
  <2>4. QED
    BY <1>1, <2>1, <2>2, <2>3, UnchangedLocals, StepOK
<1>4. QED
  BY <1>2, <1>3

\* The steps of a tick.
LEMMA TickStepsOK ==
    ASSUME JobOK, NEW w \in Workers,
           \/ ClaimTickDone(w) \/ ClaimTick(w) \/ ClaimTickRefused(w) \/ ExecuteTick(w)
           \/ FailRead(w) \/ FailWrite(w) \/ StepFails(w) \/ Crash(w)
    PROVE  JobOK'
<1> DEFINE Same == UNCHANGED <<job, simTick, advances>>
<1>1. /\ job \in States /\ simTick \in Nat /\ advances \in Seq(Ids)
      /\ engineTick[w] \in Nat /\ engineTick = [engineTick EXCEPT ![w] = engineTick[w]]
  BY UnchangedLocals DEF JobOK
<1>2. /\ Executing \cup {"claim", "flush", "failWrite"} \subseteq Places
      /\ Executing \cap BatchPlaces = {} /\ "failWrite" \notin Executing \cup BatchPlaces
      /\ "flush" \notin BatchPlaces /\ "flush" \notin Executing
  BY DEF Places, Executing, BatchPlaces
<1>3. /\ pc[w] \in Executing \cup {"claim"} => mine[w] \in States
      /\ pc[w] \in Executing \cup {"claim", "flush"} => call[w].id \in Ids
      /\ pc[w] \in {"failWrite", "setStatus", "setConfig"} => mine[w] \in States
  BY DEF JobOK, CallOK
<1>4. CASE ClaimTickDone(w) \/ FlushDomain(w)
  BY <1>4, TickReturnsOK DEF ClaimTickDone, FlushDomain, durable
<1>5. CASE ClaimTickRefused(w) \/ Crash(w)
  BY <1>1, <1>5, ReturnOK DEF ClaimTickRefused, Crash, durable
<1>6. CASE StepFails(w)
  BY <1>1, <1>6, FailOK DEF StepFails, durable
<1>7. CASE ClaimTick(w)
  <2>1. pc[w] = "claim" /\ call[w].id \in Ids
    BY <1>3, <1>7 DEF ClaimTick
  <2>2. /\ job' = ClaimTickState(job, call[w].id) /\ job' \in States
        /\ UNCHANGED <<simTick, advances, call, engineTick>>
        /\ Keep(w, job') /\ GoTo(w, "position")
    BY <1>1, <1>7, <2>1, UpdatesValid DEF ClaimTick
  <2>3. "position" \in Executing
    BY DEF Executing
  <2>4. mine' = [mine EXCEPT ![w] = ClaimTickState(job, call[w].id)]
    BY <2>2 DEF Keep
  <2>5. QED
    BY <1>1, <1>2, <2>1, <2>2, <2>3, <2>4, GoesOK DEF Keep
<1>8. CASE ReadPosition(w)
  <2>1. pc[w] = "position" /\ pc[w] \in Executing
    BY <1>8 DEF ReadPosition, Executing
  <2>2. /\ UNCHANGED <<job, simTick, advances, call>>
        /\ engineTick' = [engineTick EXCEPT ![w] = simTick]
    BY <1>8 DEF ReadPosition, durable
  <2>3. mine[w] \in States /\ call[w].id \in Ids
    BY <1>3, <2>1
  <2>4. \E m \in States, p \in {"saveRecovered", "saveAdvance", "build"} :
           GoTo(w, p) /\ (Keep(w, m) \/ (UNCHANGED mine /\ m = mine[w]))
    <3>1. /\ [mine[w] EXCEPT !.phase = "reconcile", !.next = simTick] \in States
          /\ [mine[w] EXCEPT !.next = simTick] \in States
      BY <1>1, <2>3, UpdatesValid
    <3>2. QED
      BY <1>8, <2>3, <3>1 DEF ReadPosition
  <2>5. {"saveRecovered", "saveAdvance", "build"} \subseteq Executing
    BY DEF Executing
  <2>6. QED
    BY <1>1, <1>2, <2>2, <2>3, <2>4, <2>5, GoesOK
<1>9. ASSUME NEW from \in Executing, NEW to \in Executing \cup {"flush"},
             SaveTickIfOwned(w, from, to)
      PROVE  JobOK'
  <2>1. pc[w] \in Executing /\ mine[w] \in States /\ call[w].id \in Ids
    BY <1>3, <1>9 DEF SaveTickIfOwned
  <2>2. CASE Owns(w)
    <3>1. /\ job' = mine[w] /\ GoTo(w, to)
          /\ UNCHANGED <<call, mine, engineTick, simTick, advances>>
      BY <1>9, <2>2 DEF SaveTickIfOwned
    <3>2. QED
      BY <1>1, <1>2, <2>1, <3>1, GoesOK
  <2>3. CASE ~Owns(w)
    BY <1>1, <1>9, <2>3, FailOK DEF SaveTickIfOwned
  <2>4. QED
    BY <2>2, <2>3
<1>10. CASE BuildToAdvance(w)
  <2>1. pc[w] \in Executing /\ "advance" \in Executing
    BY <1>10 DEF BuildToAdvance, Executing
  <2>2. CASE simTick = engineTick[w]
    BY <1>1, <1>2, <1>3, <1>10, <2>1, <2>2, GoesOK DEF BuildToAdvance, durable
  <2>3. CASE simTick # engineTick[w]
    BY <1>1, <1>10, <2>3, FailOK DEF BuildToAdvance, durable
  <2>4. QED
    BY <2>2, <2>3
<1>11. CASE Advance(w)
  <2>1. pc[w] \in Executing /\ "advanced" \in Executing
    BY <1>11 DEF Advance, Executing
  <2>2. simTick' \in Nat /\ advances' \in Seq(Ids)
    BY <1>1, <1>3, <1>11, <2>1 DEF Advance
  <2>3. QED
    BY <1>1, <1>2, <1>3, <1>11, <2>1, <2>2, GoesOK DEF Advance
<1>12. CASE ReadAdvanced(w)
  <2>1. pc[w] \in Executing /\ "saveReconcile" \in Executing
    BY <1>12 DEF ReadAdvanced, Executing
  <2>2. [mine[w] EXCEPT !.phase = "reconcile", !.next = simTick] \in States
    BY <1>1, <1>3, <2>1, UpdatesValid
  <2>3. QED
    BY <1>1, <1>2, <1>3, <1>12, <2>1, <2>2, GoesOK DEF ReadAdvanced, durable
<1>13. CASE BuildToReconcile(w)
  <2>1. pc[w] \in Executing /\ "reconcile" \in Executing
    BY <1>13 DEF BuildToReconcile, Executing
  <2>2. QED
    BY <1>1, <1>2, <1>3, <1>13, <2>1, GoesOK DEF BuildToReconcile, durable
<1>14. CASE Reconcile(w)
  <2>1. pc[w] \in Executing /\ "complete" \in Executing
    BY <1>14 DEF Reconcile, Executing
  <2>2. QED
    BY <1>1, <1>2, <1>3, <1>14, <2>1, GoesOK DEF Reconcile
<1>15. CASE ReadCompleted(w)
  <2>1. pc[w] \in Executing /\ "saveCompleted" \in Executing
    BY <1>15 DEF ReadCompleted, Executing
  <2>2. CompletedState(mine[w], call[w].id) \in States
    BY <1>1, <1>3, <2>1, CompletedValid
  <2>3. QED
    BY <1>1, <1>2, <1>3, <1>15, <2>1, <2>2, GoesOK DEF ReadCompleted, durable
<1>16. CASE FailRead(w)
  <2>1. [job EXCEPT !.status = "failed"] \in States
    BY <1>1, UpdatesValid
  <2>2. QED
    BY <1>1, <1>2, <1>16, <2>1, GoesOK DEF FailRead, durable
<1>17. CASE FailWrite(w)
  <2>1. job' \in States
    BY <1>3, <1>17 DEF FailWrite
  <2>2. QED
    BY <1>1, <1>17, <2>1, ReturnOK DEF FailWrite
<1>18. {"saveRecovered", "saveAdvance", "saveReconcile", "saveCompleted", "build", "rebuild",
        "reconcile"} \subseteq Executing
  BY DEF Executing
<1>19. QED
  BY <1>4, <1>5, <1>6, <1>7, <1>8, <1>9, <1>10, <1>11, <1>12, <1>13, <1>14, <1>15,
     <1>16, <1>17, <1>18 DEF ExecuteTick

\* The steps of a batch and of the control operations.
LEMMA BatchStepsOK ==
    ASSUME JobOK, NEW w \in Workers,
           \/ ClaimNewBatch(w) \/ ClaimSameBatch(w) \/ ClaimBatchRefused(w)
           \/ NextChild(w) \/ SaveBatchProgress(w) \/ FinalizeBatch(w)
           \/ SetStatus(w) \/ SetConfig(w)
    PROVE  JobOK'
<1>1. /\ job \in States /\ job \in JobRecords /\ Valid(job) /\ simTick \in Nat
      /\ advances \in Seq(Ids) /\ None \notin Batches /\ Sizes \subseteq Nat
  BY IdAssumption, ConstantAssumption DEF JobOK, States
<1>2. /\ call[w] \in Calls
      /\ pc[w] \in BatchPlaces => call[w].batch \in Batches
      /\ call[w].batch \in Batches => call[w].total \in Sizes
      /\ pc[w] \in {"setStatus", "setConfig"} => mine[w] \in States
  BY DEF JobOK, CallOK
<1>3. /\ {"claimBatch", "loop", "progress"} = BatchPlaces /\ BatchPlaces \subseteq Places
      /\ "claim" \in Places /\ "claim" \notin BatchPlaces
      /\ "loop" \notin Executing \cup {"claim", "flush", "failWrite", "setStatus", "setConfig"}
  BY DEF Places, BatchPlaces, Executing
<1>4. ASSUME NEW s \in States, s.batch \in Batches, s.batch = call[w].batch, EnterBatch(w, s),
             job' \in States, UNCHANGED <<simTick, advances>>
      PROVE  JobOK'
  <2> DEFINE c == [call[w] EXCEPT !.total = s.total, !.done = s.done,
                                  !.start = s.next - s.done]
  <2>1. s.total \in Sizes /\ s.total \in Nat /\ s.done \in Nat /\ s.next - s.done \in Int
    BY <1>1, <1>4 DEF States, JobRecords, Valid
  <2>2. c \in Calls /\ c.batch = s.batch /\ c.total \in Sizes
    BY <1>2, <1>4, <2>1 DEF Calls
  <2>3. call' = [call EXCEPT ![w] = c]
    BY <1>4 DEF EnterBatch, JobOK
  <2>4. /\ pc' = [pc EXCEPT ![w] = "loop"]
        /\ mine' = [mine EXCEPT ![w] = mine[w]]
        /\ engineTick' = [engineTick EXCEPT ![w] = engineTick[w]]
    BY <1>4, UnchangedLocals DEF EnterBatch, GoTo
  <2> HIDE DEF c
  <2>5. QED
    BY <1>1, <1>3, <1>4, <2>2, <2>3, <2>4, UnchangedLocals, StepOK
<1>5. CASE ClaimNewBatch(w)
  <2>1. call[w].batch \in Batches /\ call[w].total \in Sizes /\ call[w].total \in Nat
    BY <1>1, <1>2, <1>3, <1>5 DEF ClaimNewBatch
  <2>2. /\ job' = [job EXCEPT !.batch = call[w].batch, !.total = call[w].total, !.done = 0]
        /\ EnterBatch(w, job') /\ UNCHANGED <<simTick, advances>>
    BY <1>5 DEF ClaimNewBatch
  <2>3. job' \in JobRecords /\ Valid(job') /\ job'.batch = call[w].batch
    <3>1. job' \in JobRecords
      BY <1>1, <2>1, <2>2 DEF JobRecords
    <3>2. /\ job'.batch = call[w].batch /\ job'.total = call[w].total /\ job'.done = 0
          /\ job'.records = job.records
      BY <1>1, <2>2 DEF JobRecords
    <3>3. QED
      BY <1>1, <2>1, <3>1, <3>2 DEF Valid
  <2>4. job' \in States
    BY <2>3 DEF States
  <2>5. QED
    BY <1>4, <2>1, <2>2, <2>3, <2>4
<1>6. CASE ClaimSameBatch(w)
  BY <1>1, <1>2, <1>3, <1>4, <1>6 DEF ClaimSameBatch, durable
<1>7. CASE ClaimBatchRefused(w)
  BY <1>1, <1>7, ReturnOK DEF ClaimBatchRefused, durable
<1>8. CASE NextChild(w)
  <2> DEFINE id == ChildId(call[w].batch, call[w].done + 1)
  <2>1. id \in Ids /\ call[w].batch \in Batches /\ call[w].total \in Sizes
    BY <1>2, <1>3, <1>8 DEF NextChild, Ids, ChildId, Calls
  <2>2. UNCHANGED <<job, simTick, advances>>
    BY <1>8 DEF NextChild, durable
  <2>3. CASE MatchesBatch(job, id)
    <3>1. /\ call' = [call EXCEPT ![w].id = id] /\ Keep(w, job) /\ GoTo(w, "claim")
          /\ UNCHANGED engineTick
      BY <1>8, <2>3, Zenon DEF NextChild
    <3> DEFINE c == [call[w] EXCEPT !.id = id]
    <3>2. call' = [call EXCEPT ![w] = c]
      BY <3>1 DEF JobOK
    <3> HIDE DEF id
    <3>3. c \in Calls /\ c.batch = call[w].batch /\ c.total = call[w].total /\ c.id \in Ids
      BY <1>2, <2>1 DEF Calls
    <3>4. /\ pc' = [pc EXCEPT ![w] = "claim"] /\ mine' = [mine EXCEPT ![w] = job]
          /\ engineTick' = [engineTick EXCEPT ![w] = engineTick[w]]
      BY <3>1, UnchangedLocals DEF GoTo, Keep
    <3> HIDE DEF c
    <3>5. QED
      BY <1>1, <1>3, <2>1, <2>2, <3>2, <3>3, <3>4, UnchangedLocals, StepOK
  <2>4. CASE ~MatchesBatch(job, id)
    <3>1. Return(w)
      BY <1>8, <2>4, Zenon DEF NextChild
    <3>2. QED
      BY <1>1, <2>2, <3>1, ReturnOK
  <2>5. QED
    BY <2>3, <2>4
<1>9. CASE SaveBatchProgress(w)
  <2>1. CASE job.batch = call[w].batch /\ call[w].done < job.total
    <3>1. /\ job' = [job EXCEPT !.done = call[w].done + 1]
          /\ call' = [call EXCEPT ![w].done = @ + 1] /\ GoTo(w, "loop")
          /\ UNCHANGED <<mine, engineTick, simTick, advances>>
      BY <1>9, <2>1 DEF SaveBatchProgress
    <3>2. call[w].done + 1 \in Nat /\ job.total \in Nat /\ call[w].done + 1 <= job.total
      BY <1>1, <1>2, <2>1 DEF Calls, JobRecords
    <3>3. job' \in States
      BY <1>1, <3>1, <3>2 DEF States, JobRecords, Valid
    <3> DEFINE c == [call[w] EXCEPT !.done = call[w].done + 1]
    <3>4. call' = [call EXCEPT ![w] = c]
      BY <3>1 DEF JobOK
    <3>5. c \in Calls /\ c.batch = call[w].batch /\ c.total = call[w].total
      BY <1>2, <3>2 DEF Calls
    <3>6. call[w].batch \in Batches /\ call[w].total \in Sizes
      BY <1>2, <1>3, <1>9 DEF SaveBatchProgress
    <3>7. /\ pc' = [pc EXCEPT ![w] = "loop"] /\ mine' = [mine EXCEPT ![w] = mine[w]]
          /\ engineTick' = [engineTick EXCEPT ![w] = engineTick[w]]
      BY <3>1, UnchangedLocals DEF GoTo
    <3>8. simTick' \in Nat /\ advances' \in Seq(Ids) /\ "loop" \in Places
      BY <1>1, <1>3, <3>1
    <3>9. mine[w] \in States \cup {None} /\ engineTick[w] \in Nat
      BY UnchangedLocals
    <3> HIDE DEF c
    <3>10. QED
      BY <1>3, <3>3, <3>4, <3>5, <3>6, <3>7, <3>8, <3>9, StepOK
  <2>2. CASE ~(job.batch = call[w].batch /\ call[w].done < job.total)
    <3>1. Return(w) /\ UNCHANGED <<job, simTick, advances>>
      BY <1>9, <2>2 DEF SaveBatchProgress
    <3>2. QED
      BY <1>1, <3>1, ReturnOK
  <2>3. QED
    BY <2>1, <2>2
<1>10. CASE FinalizeBatch(w)
  <2> DEFINE record == [trigger |-> call[w].batch, ticks |-> call[w].total,
                        start |-> call[w].start, end |-> job.next]
  <2>1. /\ job' = IF job.batch = call[w].batch /\ ValidRecord(record)
                  THEN FinalizedState(job, record) ELSE job
        /\ Return(w) /\ UNCHANGED <<simTick, advances>>
    BY <1>10 DEF FinalizeBatch
  <2>2. call[w].batch \in Batches /\ call[w].total \in Sizes
    BY <1>2, <1>3, <1>10 DEF FinalizeBatch
  <2>3. ASSUME ValidRecord(record) PROVE FinalizedState(job, record) \in States
    <3>1. call[w].start \in Nat /\ job.next \in Nat /\ call[w].start <= job.next
      BY <1>1, <1>2, <2>3 DEF ValidRecord, Calls, JobRecords
    <3>2. record \in Records /\ record.start <= record.end
      BY <2>2, <3>1 DEF Records
    <3> HIDE DEF record
    <3> DEFINE new == FinalizedState(job, record)
    <3>3. new \in JobRecords
      BY <1>1, <3>2 DEF JobRecords, FinalizedState
    <3>4. /\ new.batch = None /\ new.total = 0 /\ new.done = 0
          /\ new.records = job.records \cup {record}
      BY <1>1 DEF JobRecords, FinalizedState
    <3>5. Valid(new)
      BY <1>1, <3>2, <3>4 DEF Valid
    <3>6. QED
      BY <3>3, <3>5 DEF States
  <2>4. job' \in States
    BY <1>1, <2>1, <2>3, Zenon
  <2>5. QED
    BY <1>1, <2>1, <2>4, ReturnOK
<1>11. CASE SetStatus(w) \/ SetConfig(w)
  <2>1. job' \in States
    BY <1>1, <1>2, <1>11 DEF SetStatus, SetConfig
  <2>2. QED
    BY <1>1, <1>11, <2>1, ReturnOK DEF SetStatus, SetConfig
<1>12. QED
  BY <1>5, <1>6, <1>7, <1>8, <1>9, <1>10, <1>11

LEMMA NextOK == JobOK /\ [Next]_vars => JobOK'
<1>1. SUFFICES ASSUME JobOK, [Next]_vars PROVE JobOK'
  OBVIOUS
<1>2. CASE UNCHANGED vars
  BY <1>1, <1>2 DEF vars, durable, local, JobOK, CallOK
<1>3. CASE Next
  BY <1>1, <1>3, CallsOK, TickStepsOK, BatchStepsOK
     DEF Next, Reliable, Step, Claim
<1>4. QED
  BY <1>1, <1>2, <1>3

LEMMA OKInvariant == Spec => []JobOK
  BY InitOK, NextOK, PTL DEF Spec

\* The job state that is saved always has the form that SimulationJobState
\* validates, whatever stale copies the workers write.
THEOREM TypeCorrect == Spec => []TypeOK
<1>1. ASSUME JobOK PROVE TypeOK
  <2>1. job \in JobRecords /\ Valid(job)
    BY <1>1 DEF JobOK, States
  <2>2. job.done \in 0..job.total
    BY <2>1 DEF JobRecords, Valid
  <2>3. \A r \in job.records : /\ r.trigger \in Batches /\ r.ticks \in Sizes
                               /\ r.start \in Nat /\ r.end \in Nat /\ r.start <= r.end
    BY <2>1 DEF JobRecords, Records, Valid
  <2>4. DOMAIN job = {"status", "phase", "active", "lastDone", "batch", "total", "done",
                      "records", "next", "rev"}
    BY <2>1 DEF JobRecords
  <2>5. simTick \in Nat /\ \A k \in DOMAIN advances : advances[k] \in Ids
    BY <1>1 DEF JobOK
  <2>6. QED
    BY <2>1, <2>2, <2>3, <2>4, <2>5 DEF TypeOK, JobRecords
<1>2. QED
  BY <1>1, OKInvariant, PTL

-----------------------------------------------------------------------------
(***************************************************************************)
(* Mutual exclusion.  A worker that executes the tick owns the job: its id *)
(* is active and the status is "running" until it saves the completed      *)
(* tick, so that the claim of another worker is refused; and a worker that *)
(* recovers, which could take the claim over, has no other beside it.      *)
(* Pause, resume and a flush that fails after the tick break this: they    *)
(* write the job without owning it.                                        *)
(***************************************************************************)

Exclusive == Controls = {} /\ ~HasWarehouse

\* The places at which a tick is claimed, its failure included.
Holding == Executing \cup {"failRead", "failWrite"}

RecoversAlone ==
    \A v, w \in Workers :
        v # w /\ pc[v] # "idle" /\ pc[w] # "idle" => ~call[v].recover

HeldBy(w) ==
    job.active = call[w].id /\ job.active # None /\ job.status = "running"

NoneHolds(w) == \A v \in Workers \ {w} : pc[v] \notin Holding

CopyHeld(w) ==
    pc[w] \in Executing \ {"saveCompleted"} =>
        mine[w].active = call[w].id /\ mine[w].status = "running"

HoldInv ==
    /\ RecoversAlone
    /\ \A w \in Workers : pc[w] = "idle" => call[w] = NoCall
    /\ \A w \in Workers : pc[w] \in Holding => HeldBy(w)
    /\ \A w \in Workers : CopyHeld(w)
    /\ \A v, w \in Workers : pc[v] \in Holding /\ pc[w] \in Holding => v = w
    /\ \A w \in Workers : pc[w] \notin {"setStatus", "setConfig"}

\* A step of worker w, seen from the others.
LEMMA OthersKeep ==
    ASSUME JobOK, NEW w \in Workers,
           \/ \E t \in Triggers, r \in BOOLEAN : RunTick(w, t, r)
           \/ \E b \in Batches, n \in Sizes, r \in BOOLEAN : RunTrigger(w, b, n, r)
           \/ \E op \in Controls : ControlRead(w, op)
           \/ Step(w) \/ StepFails(w) \/ Crash(w)
    PROVE  \A v \in Workers \ {w} : UNCHANGED <<pc[v], call[v], mine[v], engineTick[v]>>
<1>1. /\ \E p : pc' = [pc EXCEPT ![w] = p]
      /\ UNCHANGED call \/ \E c : call' = [call EXCEPT ![w] = c]
      /\ UNCHANGED mine \/ \E m : mine' = [mine EXCEPT ![w] = m]
      /\ UNCHANGED engineTick \/ \E n : engineTick' = [engineTick EXCEPT ![w] = n]
  <2>1. CASE \/ \E t \in Triggers, r \in BOOLEAN : RunTick(w, t, r)
             \/ \E b \in Batches, n \in Sizes, r \in BOOLEAN : RunTrigger(w, b, n, r)
             \/ \E op \in Controls : ControlRead(w, op)
    BY <2>1, Zenon DEF RunTick, RunTrigger, ControlRead, GoTo, Keep
  <2>2. CASE Claim(w)
    BY <2>2, Zenon DEF Claim, ClaimTickDone, ClaimTick, ClaimTickRefused, ClaimNewBatch,
       ClaimSameBatch, ClaimBatchRefused, TickReturns, Return, EnterBatch, GoTo, Keep
  <2>3. CASE ExecuteTick(w)
    BY <2>3, Zenon DEF ExecuteTick, ReadPosition, SaveTickIfOwned, BuildToAdvance, Advance,
       ReadAdvanced, BuildToReconcile, Reconcile, ReadCompleted, FlushDomain, TickReturns,
       Return, Fail, GoTo, Keep
  <2>4. CASE FailRead(w) \/ FailWrite(w) \/ SetStatus(w) \/ SetConfig(w) \/ StepFails(w)
             \/ Crash(w) \/ FinalizeBatch(w)
    BY <2>4, Zenon DEF FailRead, FailWrite, SetStatus, SetConfig, StepFails, Crash,
       FinalizeBatch, Return, Fail, GoTo, Keep
  <2>5. CASE NextChild(w) \/ SaveBatchProgress(w)
    BY <2>5, Zenon DEF NextChild, SaveBatchProgress, Return, GoTo, Keep
  <2>6. QED
    BY <2>1, <2>2, <2>3, <2>4, <2>5 DEF Step
<1>2. QED
  BY <1>1 DEF JobOK

\* A call in progress goes on as it began, ends, or begins beside no worker
\* that it could harm.
LEMMA RecoverKept ==
    ASSUME JobOK, NEW w \in Workers,
           \/ \E t \in Triggers, r \in BOOLEAN : RunTick(w, t, r)
           \/ \E b \in Batches, n \in Sizes, r \in BOOLEAN : RunTrigger(w, b, n, r)
           \/ \E op \in Controls : ControlRead(w, op)
           \/ Step(w) \/ StepFails(w) \/ Crash(w)
    PROVE  \/ pc'[w] = "idle"
           \/ pc[w] # "idle" /\ call'[w].recover = call[w].recover
           \/ MayCall(w, call'[w].recover)
           \/ UNCHANGED call /\ MayCall(w, FALSE) /\ pc[w] = "idle"
<1>1. pc \in [Workers -> Places] /\ call \in [Workers -> Calls] /\ call[w] \in Calls
  BY DEF JobOK
<1>2. CASE \/ \E t \in Triggers, r \in BOOLEAN : RunTick(w, t, r)
           \/ \E b \in Batches, n \in Sizes, r \in BOOLEAN : RunTrigger(w, b, n, r)
  <2>1. PICK c : MayCall(w, c.recover) /\ call' = [call EXCEPT ![w] = c]
    <3>1. ASSUME NEW t \in Triggers, NEW r \in BOOLEAN, RunTick(w, t, r)
          PROVE  \E c : MayCall(w, c.recover) /\ call' = [call EXCEPT ![w] = c]
      <4>1. [NoCall EXCEPT !.id = PlainId(t), !.recover = r].recover = r
        BY NoCallTyped DEF Calls
      <4>2. QED
        BY <3>1, <4>1, Zenon DEF RunTick
    <3>2. ASSUME NEW b \in Batches, NEW n \in Sizes, NEW r \in BOOLEAN, RunTrigger(w, b, n, r)
          PROVE  \E c : MayCall(w, c.recover) /\ call' = [call EXCEPT ![w] = c]
      <4>1. [NoCall EXCEPT !.batch = b, !.recover = r, !.total = n].recover = r
        BY NoCallTyped DEF Calls
      <4>2. QED
        BY <3>2, <4>1, Zenon DEF RunTrigger
    <3>3. QED
      BY <1>2, <3>1, <3>2, Zenon
  <2>2. call'[w] = c
    BY <1>1, <2>1
  <2>3. QED
    BY <2>1, <2>2
<1>3. CASE \E op \in Controls : ControlRead(w, op)
  BY <1>3 DEF ControlRead
<1>4. CASE Step(w) \/ StepFails(w) \/ Crash(w)
  <2>1. pc[w] # "idle"
    BY <1>4 DEF Step, Claim, ExecuteTick, ClaimTickDone, ClaimTick, ClaimTickRefused,
       ClaimNewBatch, ClaimSameBatch, ClaimBatchRefused, ReadPosition, SaveTickIfOwned,
       BuildToAdvance, Advance, ReadAdvanced, BuildToReconcile, Reconcile, ReadCompleted,
       FlushDomain, FailRead, FailWrite, NextChild, SaveBatchProgress, FinalizeBatch,
       SetStatus, SetConfig, StepFails, Crash
  <2>2. \/ Return(w) \/ UNCHANGED call
        \/ \E t, d, s : call' = [call EXCEPT ![w].total = t, ![w].done = d, ![w].start = s]
        \/ \E x : call' = [call EXCEPT ![w].id = x]
        \/ call' = [call EXCEPT ![w].done = @ + 1]
    <3>1. CASE Claim(w)
      <4>1. CASE ClaimNewBatch(w) \/ ClaimSameBatch(w)
        <5>1. EnterBatch(w, job') \/ EnterBatch(w, job)
          BY <4>1, Zenon DEF ClaimNewBatch, ClaimSameBatch
        <5>2. QED
          BY <5>1, Zenon DEF EnterBatch
      <4>2. CASE ClaimTickDone(w) \/ ClaimTick(w) \/ ClaimTickRefused(w) \/ ClaimBatchRefused(w)
        BY <4>2, Zenon DEF ClaimTickDone, ClaimTick, ClaimTickRefused, ClaimBatchRefused,
           TickReturns
      <4>3. QED
        BY <3>1, <4>1, <4>2 DEF Claim
    <3>2. CASE ExecuteTick(w)
      BY <3>2, Zenon DEF ExecuteTick, ReadPosition, SaveTickIfOwned, BuildToAdvance, Advance,
         ReadAdvanced, BuildToReconcile, Reconcile, ReadCompleted, FlushDomain, TickReturns,
         Fail
    <3>3. CASE FailRead(w) \/ FailWrite(w) \/ SetStatus(w) \/ SetConfig(w) \/ StepFails(w)
               \/ Crash(w) \/ FinalizeBatch(w)
      BY <3>3, Zenon DEF FailRead, FailWrite, SetStatus, SetConfig, StepFails, Crash,
         FinalizeBatch, Fail
    <3>4. CASE NextChild(w) \/ SaveBatchProgress(w)
      BY <3>4, Zenon DEF NextChild, SaveBatchProgress
    <3>5. QED
      BY <1>4, <3>1, <3>2, <3>3, <3>4 DEF Step
  <2>3. CASE Return(w)
    BY <1>1, <2>3 DEF Return, GoTo
  <2>4. CASE ~Return(w)
    BY <1>1, <2>1, <2>2, <2>4 DEF Calls
  <2>5. QED
    BY <2>3, <2>4
<1>5. QED
  BY <1>2, <1>3, <1>4

LEMMA RecoversAloneKept ==
    ASSUME JobOK, RecoversAlone, NEW w \in Workers,
           \/ \E t \in Triggers, r \in BOOLEAN : RunTick(w, t, r)
           \/ \E b \in Batches, n \in Sizes, r \in BOOLEAN : RunTrigger(w, b, n, r)
           \/ \E op \in Controls : ControlRead(w, op)
           \/ Step(w) \/ StepFails(w) \/ Crash(w),
           pc[w] = "idle" => call[w] = NoCall
    PROVE  RecoversAlone'
<1>1. \A v \in Workers \ {w} : UNCHANGED <<pc[v], call[v]>>
  BY OthersKeep
<1>2. \/ pc'[w] = "idle"
      \/ pc[w] # "idle" /\ call'[w].recover = call[w].recover
      \/ MayCall(w, call'[w].recover)
      \/ UNCHANGED call /\ MayCall(w, FALSE) /\ pc[w] = "idle"
  BY RecoverKept
<1>3. ~NoCall.recover
  BY DEF NoCall
<1>4. QED
  BY <1>1, <1>2, <1>3 DEF RecoversAlone, MayCall

\* What a step of worker w must keep, when it does not touch the others.
LEMMA HoldFrame ==
    ASSUME HoldInv, NEW w \in Workers,
           \A v \in Workers \ {w} : UNCHANGED <<pc[v], call[v], mine[v]>>,
           RecoversAlone',
           pc'[w] = "idle" => call'[w] = NoCall,
           pc'[w] \notin {"setStatus", "setConfig"},
           pc'[w] \in Holding => HeldBy(w)' /\ NoneHolds(w),
           CopyHeld(w)',
           NoneHolds(w) \/ (job'.active = job.active /\ job'.status = job.status)
    PROVE  HoldInv'
<1>1. \A v \in Workers : pc'[v] \in Holding => HeldBy(v)'
  BY DEF HoldInv, HeldBy, NoneHolds
<1>2. \A v \in Workers : CopyHeld(v)'
  BY DEF HoldInv, CopyHeld
<1>3. \A u, v \in Workers : pc'[u] \in Holding /\ pc'[v] \in Holding => u = v
  BY DEF HoldInv, NoneHolds
<1>4. QED
  BY <1>1, <1>2, <1>3 DEF HoldInv

LEMMA HoldInit == Init => HoldInv
<1>1. SUFFICES ASSUME Init PROVE HoldInv
  OBVIOUS
<1>2. \A w \in Workers : pc[w] = "idle" /\ call[w] = NoCall
  BY <1>1 DEF Init
<1>3. "idle" \notin Executing
  BY DEF Executing
<1>4. QED
  BY <1>2, <1>3 DEF HoldInv, RecoversAlone, Holding, CopyHeld

\* A worker claims the tick only when nobody else holds it.
LEMMA ClaimAlone ==
    ASSUME JobOK, HoldInv, NEW w \in Workers, ClaimTick(w)
    PROVE  NoneHolds(w)
<1>1. SUFFICES ASSUME NEW v \in Workers \ {w}, pc[v] \in Holding PROVE FALSE
  BY DEF NoneHolds
<1>2. HeldBy(v) /\ pc[v] # "idle"
  BY <1>1 DEF HoldInv, Holding, Executing
<1>3. Unresolved(job)
  BY <1>2 DEF HeldBy, Unresolved
<1>4. call[w].recover /\ pc[w] = "claim"
  BY <1>3 DEF ClaimTick, Claimable
<1>5. QED
  BY <1>2, <1>4 DEF HoldInv, RecoversAlone

\* The steps of a worker that holds the tick, or claims it.
LEMMA HolderKeeps ==
    ASSUME JobOK, HoldInv, NEW w \in Workers, RecoversAlone',
           \A v \in Workers \ {w} : UNCHANGED <<pc[v], call[v], mine[v]>>,
           ClaimTick(w) \/ (ExecuteTick(w) /\ ~FlushDomain(w)) \/ FailRead(w) \/ FailWrite(w)
    PROVE  HoldInv'
<1>1. /\ pc \in [Workers -> Places] /\ call \in [Workers -> Calls] /\ job \in JobRecords
      /\ mine \in [Workers -> States \cup {None}] /\ call[w] \in Calls
      /\ pc[w] \in Executing => mine[w] \in JobRecords
  BY DEF JobOK, CallOK, States
<1>2. pc[w] \in Holding => NoneHolds(w) /\ HeldBy(w)
  BY DEF HoldInv, NoneHolds
<1>3. CASE ClaimTick(w)
  <2>1. pc[w] = "claim" /\ call[w].id \in Ids /\ None \notin Ids
    BY <1>3, IdAssumption DEF ClaimTick, JobOK, CallOK
  <2>2. NoneHolds(w)
    BY <1>3, ClaimAlone
  <2>3. job'.active = call[w].id /\ job'.status = "running"
    <3>1. CASE Unresolved(job)
      <4>1. job' = [job EXCEPT !.status = "running"] /\ job.active = call[w].id
        BY <1>3, <3>1 DEF ClaimTick, ClaimTickState, Claimable
      <4>2. QED
        BY <1>1, <4>1 DEF JobRecords
    <3>2. CASE ~Unresolved(job)
      <4>1. job' = [job EXCEPT !.status = "running", !.phase = "advance", !.active = call[w].id]
        BY <1>3, <3>2 DEF ClaimTick, ClaimTickState
      <4>2. QED
        BY <1>1, <4>1 DEF JobRecords
    <3>3. QED
      BY <3>1, <3>2
  <2>4. UNCHANGED call /\ mine'[w] = job' /\ pc'[w] = "position"
    BY <1>1, <1>3 DEF ClaimTick, Keep, GoTo
  <2>5. HeldBy(w)' /\ CopyHeld(w)'
    BY <2>1, <2>3, <2>4 DEF HeldBy, CopyHeld
  <2>6. QED
    BY <2>2, <2>4, <2>5, HoldFrame
<1>4. ASSUME NEW p \in Holding, pc[w] \in Holding, GoTo(w, p), UNCHANGED <<job, call>>,
             p \in Executing \ {"saveCompleted"} =>
                 /\ pc[w] \in Executing \ {"saveCompleted"}
                 /\ mine'[w].active = mine[w].active /\ mine'[w].status = mine[w].status
      PROVE  HoldInv'
  <2>1. pc'[w] = p /\ p # "idle" /\ p \notin {"setStatus", "setConfig"}
    BY <1>1, <1>4 DEF GoTo, Holding, Executing
  <2>2. HeldBy(w)' /\ NoneHolds(w)
    BY <1>2, <1>4 DEF HeldBy
  <2>3. CopyHeld(w)'
    BY <1>4, <2>1 DEF HoldInv, CopyHeld
  <2>4. QED
    BY <2>1, <2>2, <2>3, HoldFrame
<1>5. CASE ReadPosition(w)
  <2>1. PICK p \in {"saveRecovered", "saveAdvance", "build"} : GoTo(w, p)
    BY <1>5 DEF ReadPosition
  <2>2. pc[w] = "position" /\ UNCHANGED <<job, call>>
    BY <1>5 DEF ReadPosition, durable
  <2>3. mine[w] \in JobRecords
    BY <1>1, <2>2 DEF Executing
  <2>4. mine'[w].active = mine[w].active /\ mine'[w].status = mine[w].status
    <3>1. \/ mine' = [mine EXCEPT ![w] = [mine[w] EXCEPT !.phase = "reconcile",
                                                         !.next = simTick]]
          \/ mine' = [mine EXCEPT ![w] = [mine[w] EXCEPT !.next = simTick]]
          \/ UNCHANGED mine
      BY <1>5, Zenon DEF ReadPosition, Keep
    <3>2. \/ mine'[w] = [mine[w] EXCEPT !.phase = "reconcile", !.next = simTick]
          \/ mine'[w] = [mine[w] EXCEPT !.next = simTick]
          \/ mine'[w] = mine[w]
      BY <1>1, <3>1
    <3>3. QED
      BY <2>3, <3>2 DEF JobRecords
  <2>5. QED
    BY <1>4, <2>1, <2>2, <2>4 DEF Holding, Executing
<1>6. ASSUME NEW from \in {"saveRecovered", "saveAdvance", "saveReconcile"},
             NEW to \in {"build", "rebuild", "reconcile"}, SaveTickIfOwned(w, from, to)
      PROVE  HoldInv'
  <2>1. pc[w] = from /\ pc[w] \in Holding /\ pc[w] \in Executing \ {"saveCompleted"}
    BY <1>6 DEF SaveTickIfOwned, Holding, Executing
  <2>2. Owns(w)
    BY <1>2, <2>1 DEF Owns, HeldBy
  <2>3. job' = mine[w] /\ pc'[w] = to /\ UNCHANGED <<call, mine>>
    BY <1>1, <1>6, <2>2 DEF SaveTickIfOwned, GoTo
  <2>4. mine[w].active = call[w].id /\ mine[w].status = "running"
    BY <2>1 DEF HoldInv, CopyHeld
  <2>5. HeldBy(w)' /\ CopyHeld(w)'
    BY <1>2, <2>1, <2>3, <2>4 DEF HeldBy, CopyHeld
  <2>6. QED
    BY <1>2, <2>1, <2>3, <2>5, HoldFrame
<1>7. CASE SaveTickIfOwned(w, "saveCompleted", "flush")
  <2>1. pc[w] \in Holding
    BY <1>7 DEF SaveTickIfOwned, Holding, Executing
  <2>2. Owns(w)
    BY <1>2, <2>1 DEF Owns, HeldBy
  <2>3. pc'[w] = "flush"
    BY <1>1, <1>7, <2>2 DEF SaveTickIfOwned, GoTo
  <2>4. "flush" \notin Holding /\ "flush" \notin Executing
    BY DEF Holding, Executing
  <2>5. CopyHeld(w)'
    BY <2>3, <2>4 DEF CopyHeld
  <2>6. QED
    BY <1>2, <2>1, <2>3, <2>4, <2>5, HoldFrame
<1>8. CASE BuildToAdvance(w)
  <2>1. pc[w] = "rebuild" /\ UNCHANGED <<job, call, mine>>
    BY <1>8 DEF BuildToAdvance, Fail, durable
  <2>2. PICK p \in {"advance", "failRead"} : GoTo(w, p)
    BY <1>8 DEF BuildToAdvance, Fail
  <2>3. QED
    BY <1>4, <2>1, <2>2 DEF Holding, Executing
<1>9. CASE Advance(w) \/ BuildToReconcile(w) \/ Reconcile(w)
  <2>1. UNCHANGED <<job, call, mine>> /\ pc[w] \in {"advance", "build", "reconcile"}
    BY <1>9 DEF Advance, BuildToReconcile, Reconcile, durable
  <2>2. PICK p \in {"advanced", "reconcile", "complete"} : GoTo(w, p)
    BY <1>9 DEF Advance, BuildToReconcile, Reconcile
  <2>3. QED
    BY <1>4, <2>1, <2>2 DEF Holding, Executing
<1>10. CASE ReadAdvanced(w)
  <2>1. /\ UNCHANGED <<job, call>> /\ pc[w] = "advanced" /\ GoTo(w, "saveReconcile")
        /\ mine' = [mine EXCEPT ![w] = [mine[w] EXCEPT !.phase = "reconcile",
                                                       !.next = simTick]]
    BY <1>10 DEF ReadAdvanced, durable, Keep
  <2>2. mine[w] \in JobRecords
    BY <1>1, <2>1 DEF Executing
  <2>3. mine'[w].active = mine[w].active /\ mine'[w].status = mine[w].status
    BY <1>1, <2>1, <2>2 DEF JobRecords
  <2>4. QED
    BY <1>4, <2>1, <2>3 DEF Holding, Executing
<1>11. CASE ReadCompleted(w)
  <2>1. UNCHANGED <<job, call>> /\ pc[w] = "complete" /\ GoTo(w, "saveCompleted")
    BY <1>11 DEF ReadCompleted, durable
  <2>2. QED
    BY <1>4, <2>1 DEF Holding, Executing
<1>12. CASE FailRead(w)
  <2>1. UNCHANGED <<job, call>> /\ pc[w] = "failRead" /\ GoTo(w, "failWrite")
    BY <1>12 DEF FailRead, durable
  <2>2. QED
    BY <1>4, <2>1 DEF Holding, Executing
<1>13. CASE FailWrite(w)
  <2>1. pc[w] \in Holding /\ pc'[w] = "idle" /\ call'[w] = NoCall
    BY <1>1, <1>13 DEF FailWrite, Return, GoTo, Holding
  <2>2. "idle" \notin Holding /\ "idle" \notin Executing
    BY DEF Holding, Executing
  <2>3. QED
    BY <1>2, <2>1, <2>2, HoldFrame DEF CopyHeld
<1>14. QED
  BY <1>3, <1>5, <1>6, <1>7, <1>8, <1>9, <1>10, <1>11, <1>12, <1>13 DEF ExecuteTick

\* The steps of a worker that does not hold the tick afterwards, and leaves the
\* claim, the checkpoint and the simulation alone.
Bystands(w) ==
    \/ \E t \in Triggers, r \in BOOLEAN : RunTick(w, t, r)
    \/ \E b \in Batches, n \in Sizes, r \in BOOLEAN : RunTrigger(w, b, n, r)
    \/ ClaimTickDone(w) \/ ClaimTickRefused(w) \/ FlushDomain(w) \/ Crash(w)
    \/ ClaimNewBatch(w) \/ ClaimSameBatch(w) \/ ClaimBatchRefused(w)
    \/ NextChild(w) \/ SaveBatchProgress(w) \/ FinalizeBatch(w)

LEMMA BystanderSteps ==
    ASSUME JobOK, NEW w \in Workers, Bystands(w)
    PROVE  /\ job'.active = job.active /\ job'.status = job.status
           /\ job'.phase = job.phase /\ job'.next = job.next /\ job'.lastDone = job.lastDone
           /\ UNCHANGED <<simTick, advances, reconciled>>
           /\ \/ pc'[w] = "idle" /\ call'[w] = NoCall
              \/ pc'[w] \in {"claim", "progress", "loop", "claimBatch"}
<1>1. /\ pc \in [Workers -> Places] /\ call \in [Workers -> Calls] /\ job \in JobRecords
  BY DEF JobOK, States
<1>2. \/ UNCHANGED job
      \/ \E b, t : job' = [job EXCEPT !.batch = b, !.total = t, !.done = 0]
      \/ \E d : job' = [job EXCEPT !.done = d]
      \/ \E r : job' = FinalizedState(job, r)
  <2>1. CASE FinalizeBatch(w)
    BY <2>1, Zenon DEF FinalizeBatch
  <2>2. CASE ClaimNewBatch(w)
    BY <2>2, Zenon DEF ClaimNewBatch
  <2>3. CASE SaveBatchProgress(w)
    BY <2>3, Zenon DEF SaveBatchProgress
  <2>4. CASE ~FinalizeBatch(w) /\ ~ClaimNewBatch(w) /\ ~SaveBatchProgress(w)
    BY <2>4 DEF Bystands, RunTick, RunTrigger, ClaimTickDone, ClaimTickRefused, FlushDomain,
       Crash, ClaimSameBatch, ClaimBatchRefused, NextChild, durable
  <2>5. QED
    BY <2>1, <2>2, <2>3, <2>4
<1>3. \/ Return(w)
      \/ \E p \in {"claim", "progress", "loop", "claimBatch"} : GoTo(w, p)
  BY Zenon DEF Bystands, RunTick, RunTrigger, ClaimTickDone, ClaimTickRefused, FlushDomain,
     Crash, ClaimNewBatch, ClaimSameBatch, ClaimBatchRefused, NextChild, SaveBatchProgress,
     FinalizeBatch, TickReturns, EnterBatch
<1>4. \/ pc'[w] = "idle" /\ call'[w] = NoCall
      \/ pc'[w] \in {"claim", "progress", "loop", "claimBatch"}
  BY <1>1, <1>3 DEF Return, GoTo
<1>5. UNCHANGED <<simTick, advances, reconciled>>
  BY DEF Bystands, RunTick, RunTrigger, ClaimTickDone, ClaimTickRefused, FlushDomain,
     Crash, ClaimNewBatch, ClaimSameBatch, ClaimBatchRefused, NextChild, SaveBatchProgress,
     FinalizeBatch, durable
<1>6. /\ job'.active = job.active /\ job'.status = job.status
      /\ job'.phase = job.phase /\ job'.next = job.next /\ job'.lastDone = job.lastDone
  BY <1>1, <1>2 DEF JobRecords, FinalizedState
<1>7. QED
  BY <1>4, <1>5, <1>6

LEMMA BystanderKeeps ==
    ASSUME JobOK, HoldInv, NEW w \in Workers, RecoversAlone', Bystands(w),
           \A v \in Workers \ {w} : UNCHANGED <<pc[v], call[v], mine[v]>>
    PROVE  HoldInv'
<1>1. {"idle", "claim", "progress", "loop", "claimBatch"} \cap Holding = {}
  BY DEF Holding, Executing
<1>2. /\ job'.active = job.active /\ job'.status = job.status
      /\ \/ pc'[w] = "idle" /\ call'[w] = NoCall
         \/ pc'[w] \in {"claim", "progress", "loop", "claimBatch"}
  BY BystanderSteps
<1>3. CopyHeld(w)'
  BY <1>1, <1>2 DEF CopyHeld, Holding
<1>4. QED
  BY <1>1, <1>2, <1>3, HoldFrame

LEMMA HoldNext == ASSUME Exclusive PROVE JobOK /\ HoldInv /\ [Next]_vars => HoldInv'
<1>1. SUFFICES ASSUME JobOK, HoldInv, [Next]_vars PROVE HoldInv'
  OBVIOUS
<1>2. CASE UNCHANGED vars
  BY <1>1, <1>2
     DEF vars, durable, local, HoldInv, RecoversAlone, HeldBy, CopyHeld
<1>3. ASSUME NEW w \in Workers,
             \/ \E t \in Triggers, r \in BOOLEAN : RunTick(w, t, r)
             \/ \E b \in Batches, n \in Sizes, r \in BOOLEAN : RunTrigger(w, b, n, r)
             \/ \E op \in Controls : ControlRead(w, op)
             \/ Step(w) \/ StepFails(w) \/ Crash(w)
      PROVE  HoldInv'
  <2>1. \A v \in Workers \ {w} : UNCHANGED <<pc[v], call[v], mine[v]>>
    BY <1>1, <1>3, OthersKeep
  <2>2. RecoversAlone'
    BY <1>1, <1>3, RecoversAloneKept DEF HoldInv
  <2>3. CASE Bystands(w)
    BY <1>1, <2>1, <2>2, <2>3, BystanderKeeps
  <2>4. CASE \/ ClaimTick(w) \/ (ExecuteTick(w) /\ ~FlushDomain(w))
             \/ FailRead(w) \/ FailWrite(w)
    BY <1>1, <2>1, <2>2, <2>4, HolderKeeps
  <2>5. CASE StepFails(w)
    <3>1. /\ pc[w] \in Executing /\ UNCHANGED <<job, call, mine>>
          /\ pc'[w] = "failRead"
      BY <1>1, <2>5 DEF StepFails, Fail, GoTo, durable, Exclusive, Executing, JobOK
    <3>2. HeldBy(w)' /\ NoneHolds(w)
      BY <1>1, <3>1 DEF HoldInv, HeldBy, NoneHolds, Holding
    <3>3. "failRead" \notin Executing
      BY DEF Executing
    <3>4. QED
      BY <1>1, <2>1, <2>2, <3>1, <3>2, <3>3, HoldFrame DEF CopyHeld
  <2>6. CASE SetStatus(w) \/ SetConfig(w)
    BY <1>1, <2>6 DEF SetStatus, SetConfig, HoldInv
  <2>7. CASE \E op \in Controls : ControlRead(w, op)
    BY <2>7 DEF Exclusive
  <2>8. QED
    BY <1>3, <2>3, <2>4, <2>5, <2>6, <2>7 DEF Step, Claim, Bystands
<1>4. QED
  BY <1>1, <1>2, <1>3 DEF Next, Reliable

LEMMA HoldInvariant == Spec => [](JobOK /\ (Exclusive => HoldInv))
<1>1. JobOK /\ (Exclusive => HoldInv) /\ [Next]_vars => (JobOK /\ (Exclusive => HoldInv))'
  BY NextOK, HoldNext DEF Exclusive
<1>2. QED
  BY <1>1, InitOK, HoldInit, PTL DEF Spec

\* The claim in a transaction keeps a second trigger out: two workers never
\* execute the tick of the job at the same time (_claim_tick), for any number of
\* workers, as long as nobody pauses or resumes the job and no flush fails
\* after the tick.
THEOREM ClaimExcludes == ASSUME Exclusive PROVE Spec => []MutualExclusion
<1>1. JobOK /\ (Exclusive => HoldInv) => MutualExclusion
  BY DEF HoldInv, MutualExclusion, Holding
<1>2. QED
  BY <1>1, HoldInvariant, PTL

-----------------------------------------------------------------------------
(***************************************************************************)
(* The checkpoint and the position.  A worker that may write the job state *)
(* or advance is alone: with one worker because there is no other, else by *)
(* the claim.                                                              *)
(***************************************************************************)

OneWorker == \E w : Workers = {w}
Undisturbed == OneWorker \/ Exclusive

Writing == Holding \cup {"setStatus", "setConfig"}

SameCheckpoint(w) ==
    /\ mine[w].phase = job.phase /\ mine[w].next = job.next
    /\ mine[w].active = job.active /\ mine[w].lastDone = job.lastDone

\* What a worker may rely on: the advance is still to come, or it has committed.
ToAdvance == job.phase = "advance" /\ job.active # None /\ simTick = job.next
HasAdvanced == job.phase = "advance" /\ job.active # None /\ simTick = job.next + 1

Tracks(w) ==
    /\ pc[w] \in {"position", "failWrite", "setStatus", "setConfig"} => SameCheckpoint(w)
    /\ pc[w] \in Executing => job.active # None
    /\ pc[w] \in Executing \ {"saveCompleted"} =>
         mine[w].active = job.active /\ mine[w].lastDone = job.lastDone
    /\ pc[w] \in {"saveAdvance", "rebuild", "advance"} => ToAdvance
    /\ pc[w] \in {"saveRecovered", "advanced", "saveReconcile"} => HasAdvanced
    /\ pc[w] \in {"saveRecovered", "saveAdvance", "saveReconcile", "saveCompleted"} =>
         mine[w].next = simTick
    /\ pc[w] = "saveAdvance" => mine[w].phase = "advance"
    /\ pc[w] \in {"saveRecovered", "saveReconcile"} => mine[w].phase = "reconcile"
    /\ pc[w] = "advance" => engineTick[w] = simTick

TrackInv == CheckpointTracksPosition /\ \A w \in Workers : Tracks(w)

Alone(w) == \A v \in Workers \ {w} : pc[v] \notin Writing

LEMMA WritesAlone ==
    ASSUME JobOK, Undisturbed, Exclusive => HoldInv, NEW w \in Workers,
           pc[w] \in Writing \/ ClaimTick(w)
    PROVE  Alone(w)
<1>1. CASE OneWorker
  BY <1>1 DEF OneWorker, Alone
<1>2. CASE Exclusive
  <2>1. \A v \in Workers : pc[v] \in Writing => pc[v] \in Holding
    BY <1>2 DEF HoldInv, Writing
  <2>2. NoneHolds(w)
    BY <1>2, <2>1, ClaimAlone DEF HoldInv, NoneHolds
  <2>3. QED
    BY <2>1, <2>2 DEF NoneHolds, Alone
<1>3. QED
  BY <1>1, <1>2 DEF Undisturbed

SameJob ==
    /\ job'.phase = job.phase /\ job'.next = job.next
    /\ job'.active = job.active /\ job'.lastDone = job.lastDone
    /\ simTick' = simTick

\* What a step of worker w must keep.
LEMMA TrackFrame ==
    ASSUME TrackInv, NEW w \in Workers,
           \A v \in Workers \ {w} : UNCHANGED <<pc[v], mine[v], engineTick[v]>>,
           CheckpointTracksPosition', Tracks(w)', Alone(w) \/ SameJob
    PROVE  TrackInv'
<1>1. SUFFICES ASSUME NEW v \in Workers \ {w} PROVE Tracks(v)'
  BY DEF TrackInv
<1>2. CASE Alone(w)
  <2>1. pc'[v] \notin Writing
    BY <1>2 DEF Alone
  <2>2. QED
    BY <2>1 DEF Tracks, Writing, Holding, Executing
<1>3. CASE SameJob
  BY <1>3 DEF TrackInv, Tracks, SameJob, SameCheckpoint, ToAdvance, HasAdvanced
<1>4. QED
  BY <1>2, <1>3

\* Where a worker relies on nothing.
LEMMA TrackQuiet ==
    ASSUME TrackInv, NEW w \in Workers,
           \A v \in Workers \ {w} : UNCHANGED <<pc[v], mine[v], engineTick[v]>>,
           SameJob, pc'[w] \notin Writing \/ pc'[w] = "failRead"
    PROVE  TrackInv'
<1>1. Tracks(w)'
  BY DEF Tracks, Writing, Holding, Executing
<1>2. CheckpointTracksPosition'
  BY DEF TrackInv, CheckpointTracksPosition, SameJob
<1>3. QED
  BY <1>1, <1>2, TrackFrame

LEMMA TrackInit == Init => TrackInv
  BY DEF Init, TrackInv, CheckpointTracksPosition, Tracks, Executing

\* A claim makes the trigger of the call the active one.
LEMMA ClaimTickSteps ==
    ASSUME JobOK, NEW w \in Workers, ClaimTick(w)
    PROVE  /\ job'.active = call[w].id /\ job'.status = "running" /\ call[w].id \in Ids
           /\ job'.next = job.next /\ job'.lastDone = job.lastDone
           /\ job'.batch = job.batch /\ job'.total = job.total /\ job'.done = job.done
           /\ job'.records = job.records
           /\ IF Unresolved(job) THEN job'.phase = job.phase /\ job'.active = job.active
              ELSE job'.phase = "advance"
           /\ pc'[w] = "position" /\ mine'[w] = job'
           /\ UNCHANGED <<simTick, advances, reconciled, call>>
<1>1. /\ pc[w] = "claim" /\ call[w].id \in Ids /\ job \in JobRecords
      /\ pc \in [Workers -> Places] /\ mine \in [Workers -> States \cup {None}]
  BY DEF ClaimTick, JobOK, CallOK, States
<1>2. CASE Unresolved(job)
  <2>1. job' = [job EXCEPT !.status = "running"] /\ job.active = call[w].id
    BY <1>2 DEF ClaimTick, ClaimTickState, Claimable
  <2>2. QED
    BY <1>1, <1>2, <2>1 DEF JobRecords, ClaimTick, Keep, GoTo
<1>3. CASE ~Unresolved(job)
  <2>1. job' = [job EXCEPT !.status = "running", !.phase = "advance", !.active = call[w].id]
    BY <1>3 DEF ClaimTick, ClaimTickState
  <2>2. QED
    BY <1>1, <1>3, <2>1 DEF JobRecords, ClaimTick, Keep, GoTo
<1>4. QED
  BY <1>2, <1>3

\* The steps of a worker that saves its copy.
LEMMA SaveTracks ==
    ASSUME JobOK, TrackInv, NEW w \in Workers,
           \A v \in Workers \ {w} : UNCHANGED <<pc[v], mine[v], engineTick[v]>>,
           Alone(w),
           \/ SaveTickIfOwned(w, "saveRecovered", "build")
           \/ SaveTickIfOwned(w, "saveAdvance", "rebuild")
           \/ SaveTickIfOwned(w, "saveReconcile", "reconcile")
           \/ SaveTickIfOwned(w, "saveCompleted", "flush")
           \/ FailWrite(w) \/ SetStatus(w) \/ SetConfig(w)
    PROVE  TrackInv'
<1>1. /\ pc \in [Workers -> Places] /\ mine \in [Workers -> States \cup {None}]
      /\ simTick \in Nat /\ Tracks(w) /\ CheckpointTracksPosition
  BY DEF JobOK, TrackInv
<1>2. ASSUME NEW from \in Writing, NEW to \in Places, SaveTickIfOwned(w, from, to), ~Owns(w)
      PROVE  TrackInv'
  <2>1. SameJob /\ pc'[w] = "failRead"
    BY <1>1, <1>2 DEF SaveTickIfOwned, Fail, GoTo, SameJob
  <2>2. QED
    BY <2>1, TrackQuiet
<1>3. ASSUME NEW from \in Writing, NEW to \in Places, SaveTickIfOwned(w, from, to), Owns(w)
      PROVE  /\ job' = mine[w] /\ UNCHANGED <<simTick, mine, engineTick>>
             /\ pc[w] = from /\ pc'[w] = to
  BY <1>1, <1>3 DEF SaveTickIfOwned, GoTo
<1>4. /\ {"saveRecovered", "saveAdvance", "saveReconcile", "saveCompleted"} \subseteq Writing
      /\ {"build", "rebuild", "reconcile", "flush"} \subseteq Places
  BY DEF Writing, Holding, Executing, Places
<1>5. CASE SaveTickIfOwned(w, "saveRecovered", "build") /\ Owns(w)
  <2>1. job' = mine[w] /\ pc[w] = "saveRecovered" /\ pc'[w] = "build" /\ UNCHANGED <<simTick, mine>>
    BY <1>3, <1>4, <1>5
  <2>2. mine[w].active = job.active /\ job.active # None /\ mine[w].next = simTick
    BY <1>1, <2>1 DEF Tracks, Executing
  <2>3. Tracks(w)' /\ CheckpointTracksPosition'
    BY <2>1, <2>2 DEF Tracks, CheckpointTracksPosition, Executing
  <2>4. QED
    BY <2>3, TrackFrame
<1>6. CASE SaveTickIfOwned(w, "saveAdvance", "rebuild") /\ Owns(w)
  <2>1. job' = mine[w] /\ pc[w] = "saveAdvance" /\ pc'[w] = "rebuild" /\ UNCHANGED <<simTick, mine>>
    BY <1>3, <1>4, <1>6
  <2>2. /\ mine[w].active = job.active /\ job.active # None /\ mine[w].next = simTick
        /\ mine[w].phase = "advance"
    BY <1>1, <2>1 DEF Tracks, Executing
  <2>3. Tracks(w)' /\ CheckpointTracksPosition'
    BY <2>1, <2>2 DEF Tracks, CheckpointTracksPosition, Executing, ToAdvance
  <2>4. QED
    BY <2>3, TrackFrame
<1>7. CASE SaveTickIfOwned(w, "saveReconcile", "reconcile") /\ Owns(w)
  <2>1. job' = mine[w] /\ pc[w] = "saveReconcile" /\ pc'[w] = "reconcile" /\ UNCHANGED <<simTick, mine>>
    BY <1>3, <1>4, <1>7
  <2>2. mine[w].active = job.active /\ job.active # None /\ mine[w].next = simTick
    BY <1>1, <2>1 DEF Tracks, Executing
  <2>3. Tracks(w)' /\ CheckpointTracksPosition'
    BY <2>1, <2>2 DEF Tracks, CheckpointTracksPosition, Executing
  <2>4. QED
    BY <2>3, TrackFrame
<1>8. CASE SaveTickIfOwned(w, "saveCompleted", "flush") /\ Owns(w)
  <2>1. job' = mine[w] /\ pc[w] = "saveCompleted" /\ pc'[w] = "flush" /\ UNCHANGED <<simTick, mine>>
    BY <1>3, <1>4, <1>8
  <2>2. mine[w].next = simTick
    BY <1>1, <2>1 DEF Tracks
  <2>3. Tracks(w)' /\ CheckpointTracksPosition'
    BY <2>1, <2>2 DEF Tracks, CheckpointTracksPosition, Executing
  <2>4. QED
    BY <2>3, TrackFrame
<1>9. CASE FailWrite(w) \/ SetStatus(w) \/ SetConfig(w)
  <2>1. /\ pc[w] \in {"failWrite", "setStatus", "setConfig"} /\ pc'[w] = "idle"
        /\ job' = mine[w] \/ job' = job
        /\ UNCHANGED simTick
    BY <1>1, <1>9 DEF FailWrite, SetStatus, SetConfig, Return, GoTo
  <2>2. SameJob
    BY <1>1, <2>1 DEF Tracks, SameCheckpoint, SameJob
  <2>3. "idle" \notin Writing
    BY DEF Writing, Holding, Executing
  <2>4. QED
    BY <2>1, <2>2, <2>3, TrackQuiet
<1>10. QED
  BY <1>2, <1>4, <1>5, <1>6, <1>7, <1>8, <1>9

\* The steps of a worker that has claimed the tick and does not save.
LEMMA ExecuteTracks ==
    ASSUME JobOK, TrackInv, NEW w \in Workers,
           \A v \in Workers \ {w} : UNCHANGED <<pc[v], mine[v], engineTick[v]>>,
           Alone(w),
           \/ ClaimTick(w) \/ ReadPosition(w) \/ BuildToAdvance(w) \/ Advance(w)
           \/ ReadAdvanced(w) \/ BuildToReconcile(w) \/ Reconcile(w) \/ ReadCompleted(w)
           \/ FailRead(w)
    PROVE  TrackInv'
<1>1. /\ pc \in [Workers -> Places] /\ mine \in [Workers -> States \cup {None}]
      /\ engineTick \in [Workers -> Nat] /\ job \in JobRecords
      /\ simTick \in Nat /\ Tracks(w) /\ CheckpointTracksPosition
      /\ pc[w] \in Executing => mine[w] \in JobRecords
  BY DEF JobOK, CallOK, TrackInv, States
<1>2. SameJob => CheckpointTracksPosition'
  BY <1>1 DEF SameJob, CheckpointTracksPosition
<1>3. CASE ClaimTick(w)
  <2>1. /\ job'.active \in Ids /\ None \notin Ids /\ job'.next = job.next
        /\ job'.lastDone = job.lastDone /\ simTick' = simTick
        /\ pc'[w] = "position" /\ mine'[w] = job'
        /\ job'.phase = "advance" \/ (job'.phase = job.phase /\ job'.active = job.active)
    BY <1>3, ClaimTickSteps, IdAssumption
  <2>2. Tracks(w)'
    BY <2>1 DEF Tracks, SameCheckpoint, Executing
  <2>3. CheckpointTracksPosition'
    BY <1>1, <2>1 DEF CheckpointTracksPosition
  <2>4. QED
    BY <2>2, <2>3, TrackFrame
<1>4. CASE ReadPosition(w)
  <2>1. /\ pc[w] = "position" /\ SameJob /\ mine[w] \in JobRecords
        /\ UNCHANGED job /\ UNCHANGED simTick
    BY <1>1, <1>4 DEF ReadPosition, durable, SameJob, Executing
  <2>2. SameCheckpoint(w) /\ job.active # None
    BY <1>1, <2>1 DEF Tracks, Executing
  <2>3. CASE AdvanceCommitted(mine[w])
    <3>1. /\ mine'[w] = [mine[w] EXCEPT !.phase = "reconcile", !.next = simTick]
          /\ pc'[w] = "saveRecovered"
      BY <1>1, <1>4, <2>3 DEF ReadPosition, Keep, GoTo, AdvanceCommitted
    <3>2. job.phase = "advance" /\ simTick > job.next /\ job.next \in Nat
      BY <1>1, <2>2, <2>3 DEF AdvanceCommitted, SameCheckpoint, JobRecords
    <3>3. HasAdvanced
      BY <1>1, <2>2, <3>2 DEF HasAdvanced, CheckpointTracksPosition
    <3>4. /\ mine'[w].active = job.active /\ mine'[w].lastDone = job.lastDone
          /\ mine'[w].next = simTick /\ mine'[w].phase = "reconcile"
      BY <2>1, <2>2, <3>1 DEF SameCheckpoint, JobRecords
    <3>5. Tracks(w)'
      BY <2>1, <2>2, <3>1, <3>3, <3>4 DEF Tracks, HasAdvanced, Executing
    <3>6. QED
      BY <1>2, <2>1, <3>5, TrackFrame
  <2>4. CASE mine[w].phase = "advance" /\ ~AdvanceCommitted(mine[w])
    <3>1. mine'[w] = [mine[w] EXCEPT !.next = simTick] /\ pc'[w] = "saveAdvance"
      BY <1>1, <1>4, <2>4 DEF ReadPosition, Keep, GoTo
    <3>2. job.phase = "advance" /\ ~(simTick > job.next) /\ job.next \in Nat
      BY <1>1, <2>2, <2>4 DEF AdvanceCommitted, SameCheckpoint, JobRecords
    <3>3. ToAdvance
      BY <1>1, <2>2, <3>2 DEF ToAdvance, CheckpointTracksPosition
    <3>4. /\ mine'[w].active = job.active /\ mine'[w].lastDone = job.lastDone
          /\ mine'[w].next = simTick /\ mine'[w].phase = "advance"
      BY <2>1, <2>2, <2>4, <3>1 DEF SameCheckpoint, JobRecords
    <3>5. Tracks(w)'
      BY <2>1, <2>2, <3>1, <3>3, <3>4 DEF Tracks, ToAdvance, Executing
    <3>6. QED
      BY <1>2, <2>1, <3>5, TrackFrame
  <2>5. CASE mine[w].phase # "advance"
    <3>1. UNCHANGED mine /\ pc'[w] = "build"
      BY <1>1, <1>4, <2>5 DEF ReadPosition, GoTo, AdvanceCommitted
    <3>2. Tracks(w)'
      BY <1>1, <2>1, <2>2, <3>1 DEF Tracks, SameCheckpoint, Executing
    <3>3. QED
      BY <1>2, <2>1, <3>2, TrackFrame
  <2>6. QED
    BY <2>3, <2>4, <2>5
<1>5. CASE BuildToAdvance(w)
  <2>1. pc[w] = "rebuild" /\ UNCHANGED <<job, simTick, mine, engineTick>> /\ SameJob
    BY <1>5 DEF BuildToAdvance, Fail, durable, SameJob
  <2>2. CASE simTick = engineTick[w]
    <3>1. pc'[w] = "advance"
      BY <1>1, <1>5, <2>2 DEF BuildToAdvance, GoTo
    <3>2. Tracks(w)'
      BY <1>1, <2>1, <2>2, <3>1 DEF Tracks, ToAdvance, Executing
    <3>3. QED
      BY <1>2, <2>1, <3>2, TrackFrame
  <2>3. CASE simTick # engineTick[w]
    <3>1. pc'[w] = "failRead"
      BY <1>1, <1>5, <2>3 DEF BuildToAdvance, Fail, GoTo
    <3>2. QED
      BY <2>1, <3>1, TrackQuiet
  <2>4. QED
    BY <2>2, <2>3
<1>6. CASE Advance(w)
  <2>1. /\ pc[w] = "advance" /\ pc'[w] = "advanced" /\ simTick' = engineTick[w] + 1
        /\ UNCHANGED <<job, mine, engineTick>>
    BY <1>1, <1>6 DEF Advance, GoTo
  <2>2. ToAdvance /\ engineTick[w] = simTick
    BY <1>1, <2>1 DEF Tracks
  <2>3. HasAdvanced'
    BY <2>1, <2>2 DEF ToAdvance, HasAdvanced
  <2>4. Tracks(w)'
    BY <1>1, <2>1, <2>3 DEF Tracks, HasAdvanced, Executing
  <2>5. CheckpointTracksPosition'
    BY <2>3 DEF HasAdvanced, CheckpointTracksPosition
  <2>6. QED
    BY <2>4, <2>5, TrackFrame
<1>7. CASE ReadAdvanced(w)
  <2>1. /\ pc[w] = "advanced" /\ pc'[w] = "saveReconcile" /\ SameJob
        /\ mine'[w] = [mine[w] EXCEPT !.phase = "reconcile", !.next = simTick]
        /\ UNCHANGED <<job, simTick>> /\ mine[w] \in JobRecords
    BY <1>1, <1>7 DEF ReadAdvanced, durable, GoTo, Keep, SameJob, Executing
  <2>2. /\ mine'[w].active = mine[w].active /\ mine'[w].lastDone = mine[w].lastDone
        /\ mine'[w].next = simTick /\ mine'[w].phase = "reconcile"
    BY <2>1 DEF JobRecords
  <2>3. Tracks(w)'
    BY <1>1, <2>1, <2>2 DEF Tracks, HasAdvanced, Executing
  <2>4. QED
    BY <1>2, <2>1, <2>3, TrackFrame
<1>8. CASE BuildToReconcile(w) \/ Reconcile(w)
  <2>1. /\ pc[w] \in {"build", "reconcile"} /\ pc'[w] \in {"reconcile", "complete"}
        /\ UNCHANGED <<job, simTick, mine>> /\ SameJob
    BY <1>1, <1>8 DEF BuildToReconcile, Reconcile, durable, GoTo, SameJob
  <2>2. Tracks(w)'
    BY <1>1, <2>1 DEF Tracks, Executing
  <2>3. QED
    BY <1>2, <2>1, <2>2, TrackFrame
<1>9. CASE ReadCompleted(w)
  <2>1. /\ pc[w] = "complete" /\ pc'[w] = "saveCompleted" /\ SameJob
        /\ mine'[w] = CompletedState(mine[w], call[w].id)
        /\ UNCHANGED <<job, simTick>> /\ mine[w] \in JobRecords
    BY <1>1, <1>9 DEF ReadCompleted, durable, GoTo, Keep, SameJob, Executing
  <2>2. mine'[w].next = simTick
    BY <2>1 DEF JobRecords, CompletedState
  <2>3. Tracks(w)'
    BY <1>1, <2>1, <2>2 DEF Tracks, Executing
  <2>4. QED
    BY <1>2, <2>1, <2>3, TrackFrame
<1>10. CASE FailRead(w)
  <2>1. /\ pc[w] = "failRead" /\ pc'[w] = "failWrite" /\ SameJob /\ UNCHANGED <<job, simTick>>
        /\ mine'[w] = [job EXCEPT !.status = "failed"]
    BY <1>1, <1>10 DEF FailRead, durable, GoTo, Keep, SameJob
  <2>2. SameCheckpoint(w)'
    BY <1>1, <2>1 DEF SameCheckpoint, JobRecords
  <2>3. Tracks(w)'
    BY <2>1, <2>2 DEF Tracks, Executing
  <2>4. QED
    BY <1>2, <2>1, <2>3, TrackFrame
<1>11. QED
  BY <1>3, <1>4, <1>5, <1>6, <1>7, <1>8, <1>9, <1>10

LEMMA TrackNext ==
    ASSUME Undisturbed
    PROVE  JobOK /\ (Exclusive => HoldInv) /\ TrackInv /\ [Next]_vars => TrackInv'
<1>1. SUFFICES ASSUME JobOK, Exclusive => HoldInv, TrackInv, [Next]_vars PROVE TrackInv'
  OBVIOUS
<1>2. CASE UNCHANGED vars
  BY <1>1, <1>2 DEF vars, durable, local, TrackInv, CheckpointTracksPosition, Tracks,
     SameCheckpoint, ToAdvance, HasAdvanced
<1>3. ASSUME NEW w \in Workers,
             \/ \E t \in Triggers, r \in BOOLEAN : RunTick(w, t, r)
             \/ \E b \in Batches, n \in Sizes, r \in BOOLEAN : RunTrigger(w, b, n, r)
             \/ \E op \in Controls : ControlRead(w, op)
             \/ Step(w) \/ StepFails(w) \/ Crash(w)
      PROVE  TrackInv'
  <2>1. \A v \in Workers \ {w} : UNCHANGED <<pc[v], mine[v], engineTick[v]>>
    BY <1>1, <1>3, OthersKeep
  <2>2. /\ pc \in [Workers -> Places] /\ mine \in [Workers -> States \cup {None}]
        /\ job \in JobRecords
    BY <1>1 DEF JobOK, States
  <2>3. CASE Bystands(w)
    <3>1. SameJob /\ pc'[w] \in {"idle", "claim", "progress", "loop", "claimBatch"}
      BY <1>1, <2>3, BystanderSteps DEF SameJob
    <3>2. QED
      BY <1>1, <2>1, <3>1, TrackQuiet DEF Writing, Holding, Executing
  <2>4. CASE StepFails(w)
    <3>1. SameJob /\ pc'[w] = "failRead"
      BY <2>2, <2>4 DEF StepFails, Fail, GoTo, durable, SameJob
    <3>2. QED
      BY <1>1, <2>1, <3>1, TrackQuiet
  <2>5. CASE \E op \in Controls : ControlRead(w, op)
    <3>1. /\ SameJob /\ UNCHANGED <<job, simTick>> /\ pc'[w] \in {"setStatus", "setConfig"}
      BY <2>2, <2>5 DEF ControlRead, GoTo, durable, SameJob
    <3>2. \/ \E x : mine' = [mine EXCEPT ![w] = [job EXCEPT !.status = x]]
          \/ mine' = [mine EXCEPT ![w] = [job EXCEPT !.rev = @ + 1]]
      BY <2>5, Zenon DEF ControlRead, Keep
    <3>3. SameCheckpoint(w)'
      BY <2>2, <3>1, <3>2 DEF SameCheckpoint, JobRecords
    <3>4. Tracks(w)' /\ CheckpointTracksPosition'
      BY <1>1, <3>1, <3>3 DEF Tracks, Executing, TrackInv, CheckpointTracksPosition
    <3>5. QED
      BY <1>1, <2>1, <3>1, <3>4, TrackFrame
  <2>6. CASE \/ ClaimTick(w) \/ (ExecuteTick(w) /\ ~FlushDomain(w))
             \/ FailRead(w) \/ FailWrite(w) \/ SetStatus(w) \/ SetConfig(w)
    <3>1. pc[w] \in Writing \/ ClaimTick(w)
      BY <2>6 DEF ExecuteTick, ReadPosition, SaveTickIfOwned, BuildToAdvance, Advance,
         ReadAdvanced, BuildToReconcile, Reconcile, ReadCompleted, FailRead, FailWrite,
         SetStatus, SetConfig, Writing, Holding, Executing
    <3>2. Alone(w)
      BY <1>1, <3>1, WritesAlone
    <3>3. QED
      BY <1>1, <2>1, <2>6, <3>2, SaveTracks, ExecuteTracks DEF ExecuteTick
  <2>7. QED
    BY <1>3, <2>3, <2>4, <2>5, <2>6 DEF Step, Claim, Bystands
<1>4. QED
  BY <1>1, <1>2, <1>3 DEF Next, Reliable

LEMMA TrackInvariant ==
    ASSUME Undisturbed PROVE Spec => [](JobOK /\ (Exclusive => HoldInv) /\ TrackInv)
<1>1. JobOK /\ (Exclusive => HoldInv) /\ TrackInv /\ [Next]_vars =>
        (JobOK /\ (Exclusive => HoldInv) /\ TrackInv)'
  BY NextOK, HoldNext, TrackNext DEF Exclusive
<1>2. QED
  BY <1>1, InitOK, HoldInit, TrackInit, PTL DEF Spec

\* The checkpoint is never off by more than the one advance whose commit the phase
\* does not tell yet, which is what recovery infers the commit from
\* (_execute_tick_phase): for one worker with every control operation and any
\* failing step, and for any number of workers under Exclusive.
THEOREM CheckpointTracks == ASSUME Undisturbed PROVE Spec => []CheckpointTracksPosition
<1>1. JobOK /\ (Exclusive => HoldInv) /\ TrackInv => CheckpointTracksPosition
  BY DEF TrackInv
<1>2. QED
  BY <1>1, TrackInvariant, PTL

-----------------------------------------------------------------------------
(***************************************************************************)
(* Reconciliation.  A tick that advanced stays pending, with the trigger   *)
(* that advanced it, until that trigger has reconciled it.  Resume breaks  *)
(* this: it makes a job ready whose trigger has failed and was paused.     *)
(***************************************************************************)

Orderly == Exclusive \/ (OneWorker /\ Controls \subseteq {"config"})

Adv(id) == \E k \in DOMAIN advances : advances[k] = id

Pending == job.active # None /\ (job.phase = "reconcile" \/ simTick # job.next)

Settled ==
    /\ Pending => Adv(job.active) /\ 1..(simTick - 1) \subseteq reconciled
    /\ ~Pending => 1..simTick \subseteq reconciled
    /\ job.lastDone # None => Adv(job.lastDone)
    /\ job.active # None => job.phase # "idle" /\ job.status \in {"running", "failed"}

Settles(w) ==
    /\ pc[w] \in Executing => job.active = call[w].id
    /\ pc[w] \in Executing \ {"saveCompleted"} => mine[w].status = "running"
    /\ pc[w] = "failWrite" => mine[w].status = "failed"
    /\ pc[w] = "setConfig" => mine[w].status = job.status
    /\ pc[w] # "setStatus"
    /\ pc[w] \in {"build", "reconcile", "complete", "saveCompleted"} => job.phase = "reconcile"
    /\ pc[w] \in {"complete", "saveCompleted"} => simTick \in reconciled
    /\ pc[w] = "saveCompleted" =>
          /\ mine[w].active = None
          /\ mine[w].lastDone = call[w].id
          /\ mine[w].phase = "idle"

SettleInv == Settled /\ \A w \in Workers : Settles(w)

\* What a step of worker w must keep.
LEMMA SettleFrame ==
    ASSUME SettleInv, NEW w \in Workers,
           \A v \in Workers \ {w} : UNCHANGED <<pc[v], call[v], mine[v]>>,
           Settled', Settles(w)',
           Alone(w) \/ (SameJob /\ job'.status = job.status /\ UNCHANGED reconciled)
    PROVE  SettleInv'
<1>1. SUFFICES ASSUME NEW v \in Workers \ {w} PROVE Settles(v)'
  BY DEF SettleInv
<1>2. CASE Alone(w)
  <2>1. pc'[v] \notin Writing
    BY <1>2 DEF Alone
  <2>2. QED
    BY <2>1 DEF Settles, Writing, Holding, Executing
<1>3. CASE SameJob /\ job'.status = job.status /\ UNCHANGED reconciled
  BY <1>3 DEF SettleInv, Settles, SameJob
<1>4. QED
  BY <1>2, <1>3

\* A step that keeps the checkpoint.
LEMMA SettledKept ==
    ASSUME Settled, SameJob, UNCHANGED advances, reconciled \subseteq reconciled',
           job'.status = job.status \/ job'.status \in {"running", "failed"}
    PROVE  Settled'
<1>1. Pending' = Pending
  BY DEF Pending, SameJob
<1>2. \A id : Adv(id)' = Adv(id)
  BY DEF Adv
<1>3. job'.active = job.active /\ job'.lastDone = job.lastDone /\ job'.phase = job.phase
      /\ simTick' = simTick
  BY DEF SameJob
<1>4. QED
  BY <1>1, <1>2, <1>3 DEF Settled

LEMMA SettleQuiet ==
    ASSUME SettleInv, NEW w \in Workers,
           \A v \in Workers \ {w} : UNCHANGED <<pc[v], call[v], mine[v]>>,
           SameJob, job'.status = job.status, UNCHANGED <<advances, reconciled>>,
           pc'[w] \notin Writing \/ pc'[w] = "failRead"
    PROVE  SettleInv'
<1>1. Settles(w)'
  BY DEF Settles, Writing, Holding, Executing
<1>2. Settled'
  BY SettledKept DEF SettleInv
<1>3. QED
  BY <1>1, <1>2, SettleFrame

LEMMA SettleInit == Init => SettleInv
<1>1. SUFFICES ASSUME Init PROVE SettleInv
  OBVIOUS
<1>2. ~Pending /\ 1..simTick = {} /\ job.lastDone = None /\ job.active = None
  BY <1>1 DEF Init, Pending
<1>3. QED
  BY <1>1, <1>2 DEF Init, SettleInv, Settled, Settles, Executing

\* The steps of a worker that saves its copy.
LEMMA SaveSettles ==
    ASSUME JobOK, TrackInv, SettleInv, NEW w \in Workers,
           \A v \in Workers \ {w} : UNCHANGED <<pc[v], call[v], mine[v]>>,
           Alone(w),
           \/ SaveTickIfOwned(w, "saveRecovered", "build")
           \/ SaveTickIfOwned(w, "saveAdvance", "rebuild")
           \/ SaveTickIfOwned(w, "saveReconcile", "reconcile")
           \/ SaveTickIfOwned(w, "saveCompleted", "flush")
           \/ FailWrite(w) \/ SetStatus(w) \/ SetConfig(w)
    PROVE  SettleInv'
<1>1. /\ pc \in [Workers -> Places] /\ simTick \in Nat
      /\ Tracks(w) /\ CheckpointTracksPosition /\ Settles(w) /\ Settled
  BY DEF JobOK, TrackInv, SettleInv
<1>2. ASSUME NEW from \in Executing, NEW to \in Places, SaveTickIfOwned(w, from, to)
      PROVE  /\ job' = mine[w] /\ UNCHANGED <<simTick, mine, advances, reconciled, call>>
             /\ pc[w] = from /\ pc'[w] = to
  <2>1. Owns(w)
    BY <1>1, <1>2 DEF Settles, Owns, SaveTickIfOwned
  <2>2. QED
    BY <1>1, <1>2, <2>1 DEF SaveTickIfOwned, GoTo
<1>3. /\ {"saveRecovered", "saveAdvance", "saveReconcile", "saveCompleted"} \subseteq Executing
      /\ {"build", "rebuild", "reconcile", "flush"} \subseteq Places
  BY DEF Executing, Places
<1>4. \A id : UNCHANGED advances => Adv(id)' = Adv(id)
  BY DEF Adv
<1>5. ASSUME NEW from \in {"saveRecovered", "saveReconcile"}, NEW to \in {"build", "reconcile"},
             SaveTickIfOwned(w, from, to)
      PROVE  SettleInv'
  <2>1. /\ job' = mine[w] /\ UNCHANGED <<simTick, mine, advances, reconciled, call>>
        /\ pc[w] = from /\ pc'[w] = to
    BY <1>2, <1>3, <1>5
  <2>2. /\ job'.phase = "reconcile" /\ job'.active = job.active /\ job'.lastDone = job.lastDone
        /\ HasAdvanced /\ job'.status = "running" /\ job.active = call[w].id
    BY <1>1, <1>5, <2>1 DEF Tracks, Settles, Executing
  <2>3. Pending /\ Pending'
    BY <2>2, <1>1 DEF Pending, HasAdvanced
  <2>4. Settled'
    BY <1>1, <1>4, <2>1, <2>2, <2>3 DEF Settled
  <2>5. Settles(w)'
    BY <1>1, <1>5, <2>1, <2>2 DEF Settles, Executing
  <2>6. QED
    BY <2>4, <2>5, SettleFrame
<1>6. CASE SaveTickIfOwned(w, "saveAdvance", "rebuild")
  <2>1. /\ job' = mine[w] /\ UNCHANGED <<simTick, mine, advances, reconciled, call>>
        /\ pc[w] = "saveAdvance" /\ pc'[w] = "rebuild"
    BY <1>2, <1>3, <1>6
  <2>2. /\ job'.phase = "advance" /\ job'.active = job.active /\ job'.lastDone = job.lastDone
        /\ ToAdvance /\ job'.status = "running" /\ job.active = call[w].id
        /\ job'.next = simTick
    BY <1>1, <2>1 DEF Tracks, Settles, Executing
  <2>3. ~Pending /\ ~Pending'
    BY <2>1, <2>2 DEF Pending, ToAdvance
  <2>4. Settled'
    BY <1>1, <1>4, <2>1, <2>2, <2>3 DEF Settled
  <2>5. Settles(w)'
    BY <1>1, <2>1, <2>2 DEF Settles, Executing
  <2>6. QED
    BY <2>4, <2>5, SettleFrame
<1>7. CASE SaveTickIfOwned(w, "saveCompleted", "flush")
  <2>1. /\ job' = mine[w] /\ UNCHANGED <<simTick, mine, advances, reconciled, call>>
        /\ pc[w] = "saveCompleted" /\ pc'[w] = "flush"
    BY <1>2, <1>3, <1>7
  <2>2. /\ job'.active = None /\ job'.lastDone = call[w].id /\ job.active = call[w].id
        /\ job.phase = "reconcile" /\ job.active # None /\ simTick \in reconciled
    BY <1>1, <2>1 DEF Tracks, Settles, Executing
  <2>3. Pending /\ ~Pending'
    BY <2>2 DEF Pending
  <2>4. 1..simTick \subseteq reconciled
    <3>1. 1..(simTick - 1) \subseteq reconciled
      BY <1>1, <2>3 DEF Settled
    <3>2. \A n \in 1..simTick : n \in 1..(simTick - 1) \/ n = simTick
      BY <1>1
    <3>3. QED
      BY <2>2, <3>1, <3>2
  <2>5. Settled'
    BY <1>1, <1>4, <2>1, <2>2, <2>3, <2>4 DEF Settled
  <2>6. Settles(w)'
    BY <2>1 DEF Settles, Executing
  <2>7. QED
    BY <2>5, <2>6, SettleFrame
<1>8. CASE FailWrite(w) \/ SetStatus(w) \/ SetConfig(w)
  <2>1. /\ pc[w] \in {"failWrite", "setConfig"} /\ pc'[w] = "idle"
        /\ job' = mine[w] \/ (job' = job /\ pc[w] = "setConfig")
        /\ UNCHANGED <<simTick, advances, reconciled>>
    BY <1>1, <1>8 DEF FailWrite, SetStatus, SetConfig, Return, GoTo, Settles
  <2>2. SameJob
    BY <1>1, <2>1 DEF Tracks, SameCheckpoint, SameJob
  <2>3. job'.status = job.status \/ job'.status = "failed"
    BY <1>1, <2>1 DEF Settles
  <2>4. Settled'
    BY <1>1, <2>1, <2>2, <2>3, SettledKept
  <2>5. Settles(w)'
    BY <2>1 DEF Settles, Executing
  <2>6. QED
    BY <2>4, <2>5, SettleFrame
<1>9. QED
  BY <1>5, <1>6, <1>7, <1>8

\* The steps of a worker that has claimed the tick and does not save.
LEMMA ExecuteSettles ==
    ASSUME JobOK, TrackInv, SettleInv, NEW w \in Workers,
           \A v \in Workers \ {w} : UNCHANGED <<pc[v], call[v], mine[v]>>,
           Alone(w),
           \/ ClaimTick(w) \/ ReadPosition(w) \/ BuildToAdvance(w) \/ Advance(w)
           \/ ReadAdvanced(w) \/ BuildToReconcile(w) \/ Reconcile(w) \/ ReadCompleted(w)
           \/ FailRead(w)
    PROVE  SettleInv'
<1>1. /\ pc \in [Workers -> Places] /\ mine \in [Workers -> States \cup {None}]
      /\ job \in JobRecords /\ simTick \in Nat /\ advances \in Seq(Ids)
      /\ pc[w] \in Executing => mine[w] \in JobRecords
  BY DEF JobOK, CallOK, States
<1>2. Tracks(w) /\ CheckpointTracksPosition /\ Settles(w) /\ Settled
  BY DEF TrackInv, SettleInv
<1>3. CASE ClaimTick(w)
  <2>1. /\ job'.active = call[w].id /\ job'.status = "running" /\ call[w].id \in Ids
        /\ job'.next = job.next /\ job'.lastDone = job.lastDone
        /\ pc'[w] = "position" /\ mine'[w] = job'
        /\ UNCHANGED <<simTick, advances, reconciled, call>>
    BY <1>3, ClaimTickSteps
  <2>2. Settles(w)'
    BY <2>1 DEF Settles, Executing
  <2>3. CASE Unresolved(job)
    <3>1. SameJob
      BY <1>3, <2>1, <2>3, ClaimTickSteps DEF SameJob
    <3>2. QED
      BY <1>2, <2>1, <2>2, <3>1, SettledKept, SettleFrame
  <2>4. CASE ~Unresolved(job)
    <3>1. job'.phase = "advance" /\ job.active = None
      BY <1>2, <1>3, <2>4, ClaimTickSteps DEF Settled, Unresolved
    <3>2. ~Pending /\ ~Pending'
      BY <1>2, <2>1, <3>1 DEF Pending, CheckpointTracksPosition
    <3>3. \A id : Adv(id)' = Adv(id)
      BY <2>1 DEF Adv
    <3>4. Settled'
      BY <1>2, <2>1, <3>1, <3>2, <3>3 DEF Settled
    <3>5. QED
      BY <2>2, <3>4, SettleFrame
  <2>5. QED
    BY <2>3, <2>4
<1>4. ASSUME NEW p \in Executing, pc[w] \in Executing \ {"saveCompleted"}, pc'[w] = p,
             p # "saveCompleted" => mine'[w].status = mine[w].status,
             p = "saveCompleted" => /\ mine'[w].active = None /\ mine'[w].phase = "idle"
                                    /\ mine'[w].lastDone = call[w].id,
             UNCHANGED <<job, call, simTick, advances>>, reconciled \subseteq reconciled',
             p \in {"build", "reconcile", "complete", "saveCompleted"} =>
                 job.phase = "reconcile",
             p \in {"complete", "saveCompleted"} => simTick \in reconciled'
      PROVE  SettleInv'
  <2>1. SameJob /\ job'.status = job.status
    BY <1>4 DEF SameJob
  <2>2. Settled'
    BY <1>2, <1>4, <2>1, SettledKept
  <2>3. Settles(w)'
    BY <1>2, <1>4 DEF Settles, Executing
  <2>4. QED
    BY <2>2, <2>3, SettleFrame
<1>5. CASE ReadPosition(w)
  <2>1. /\ pc[w] = "position" /\ mine[w] \in JobRecords
        /\ UNCHANGED <<job, call, simTick, advances, reconciled>>
    BY <1>1, <1>5 DEF ReadPosition, durable, Executing
  <2>2. \/ /\ mine'[w] = [mine[w] EXCEPT !.phase = "reconcile", !.next = simTick]
           /\ pc'[w] = "saveRecovered"
        \/ /\ mine'[w] = [mine[w] EXCEPT !.next = simTick] /\ pc'[w] = "saveAdvance"
        \/ /\ mine'[w] = mine[w] /\ pc'[w] = "build" /\ mine[w].phase # "advance"
    BY <1>1, <1>5 DEF ReadPosition, Keep, GoTo
  <2>3. mine'[w].status = mine[w].status
    BY <2>1, <2>2 DEF JobRecords
  <2>4. mine[w].phase # "advance" => job.phase = "reconcile"
    <3>1. mine[w].phase = job.phase /\ job.active # None
      BY <1>2, <2>1 DEF Tracks, SameCheckpoint, Executing
    <3>2. job.phase # "idle"
      BY <1>2, <3>1 DEF Settled
    <3>3. QED
      BY <1>1, <3>1, <3>2 DEF JobRecords
  <2>5. QED
    BY <1>4, <2>1, <2>2, <2>3, <2>4 DEF Executing
<1>6. CASE BuildToAdvance(w)
  <2>1. pc[w] = "rebuild" /\ UNCHANGED <<job, simTick, advances, reconciled, call, mine>>
    BY <1>6 DEF BuildToAdvance, Fail, durable
  <2>2. pc'[w] \in {"advance", "failRead"}
    BY <1>1, <1>6 DEF BuildToAdvance, Fail, GoTo
  <2>3. CASE pc'[w] = "advance"
    BY <1>4, <2>1, <2>3 DEF Executing
  <2>4. CASE pc'[w] = "failRead"
    <3>1. SameJob /\ job'.status = job.status
      BY <2>1 DEF SameJob
    <3>2. QED
      BY <2>1, <2>4, <3>1, SettleQuiet
  <2>5. QED
    BY <2>2, <2>3, <2>4
<1>7. CASE Advance(w)
  <2>1. /\ pc[w] = "advance" /\ pc'[w] = "advanced" /\ simTick' = engineTick[w] + 1
        /\ advances' = Append(advances, call[w].id)
        /\ UNCHANGED <<job, mine, call, reconciled>>
    BY <1>1, <1>7 DEF Advance, GoTo
  <2>2. /\ ToAdvance /\ engineTick[w] = simTick /\ job.active = call[w].id
        /\ call[w].id \in Ids
    BY <1>2, <2>1 DEF Tracks, Settles, Executing, JobOK, CallOK
  <2>3. ~Pending /\ Pending'
    BY <1>1, <2>1, <2>2 DEF Pending, ToAdvance
  <2>4. 1..(simTick' - 1) \subseteq reconciled
    <3>1. simTick' - 1 = simTick
      BY <1>1, <2>1, <2>2
    <3>2. QED
      BY <1>2, <2>3, <3>1 DEF Settled
  <2>5. Adv(call[w].id)' /\ \A id : Adv(id) => Adv(id)'
    <3>1. /\ advances' \in Seq(Ids) /\ Len(advances') = Len(advances) + 1
          /\ advances'[Len(advances) + 1] = call[w].id
          /\ \A k \in 1..Len(advances) : advances'[k] = advances[k]
      BY <1>1, <2>1, <2>2
    <3>2. /\ DOMAIN advances = 1..Len(advances) /\ DOMAIN advances' = 1..(Len(advances) + 1)
          /\ Len(advances) \in Nat
      BY <1>1, <3>1
    <3>3. Adv(call[w].id)'
      <4>1. Len(advances) + 1 \in DOMAIN advances' /\ call' = call
        BY <2>1, <3>2
      <4>2. QED
        BY <3>1, <4>1, Zenon DEF Adv
    <3>4. \A id : Adv(id) => Adv(id)'
      BY <3>1, <3>2 DEF Adv
    <3>5. QED
      BY <3>3, <3>4
  <2>6. Settled'
    BY <1>2, <2>1, <2>2, <2>3, <2>4, <2>5 DEF Settled
  <2>7. Settles(w)'
    BY <1>2, <2>1 DEF Settles, Executing
  <2>8. QED
    BY <2>6, <2>7, SettleFrame
<1>8. CASE ReadAdvanced(w)
  <2>1. /\ pc[w] = "advanced" /\ pc'[w] = "saveReconcile"
        /\ mine'[w] = [mine[w] EXCEPT !.phase = "reconcile", !.next = simTick]
        /\ UNCHANGED <<job, simTick, call, advances, reconciled>> /\ mine[w] \in JobRecords
    BY <1>1, <1>8 DEF ReadAdvanced, durable, GoTo, Keep, Executing
  <2>2. mine'[w].status = mine[w].status
    BY <2>1 DEF JobRecords
  <2>3. QED
    BY <1>4, <2>1, <2>2 DEF Executing
<1>9. CASE BuildToReconcile(w)
  <2>1. /\ pc[w] = "build" /\ pc'[w] = "reconcile"
        /\ UNCHANGED <<job, simTick, advances, reconciled, call, mine>>
    BY <1>1, <1>9 DEF BuildToReconcile, durable, GoTo
  <2>2. job.phase = "reconcile"
    BY <1>2, <2>1 DEF Settles
  <2>3. QED
    BY <1>4, <2>1, <2>2 DEF Executing
<1>10. CASE Reconcile(w)
  <2>1. /\ pc[w] = "reconcile" /\ pc'[w] = "complete" /\ reconciled' = reconciled \cup {simTick}
        /\ UNCHANGED <<job, simTick, advances, call, mine>>
    BY <1>1, <1>10 DEF Reconcile, GoTo
  <2>2. job.phase = "reconcile"
    BY <1>2, <2>1 DEF Settles
  <2>3. QED
    BY <1>4, <2>1, <2>2 DEF Executing
<1>11. CASE ReadCompleted(w)
  <2>1. /\ pc[w] = "complete" /\ pc'[w] = "saveCompleted"
        /\ mine'[w] = CompletedState(mine[w], call[w].id)
        /\ UNCHANGED <<job, simTick, advances, reconciled, call>> /\ mine[w] \in JobRecords
    BY <1>1, <1>11 DEF ReadCompleted, durable, GoTo, Keep, Executing
  <2>2. /\ mine'[w].active = None /\ mine'[w].phase = "idle"
        /\ mine'[w].lastDone = call[w].id
    BY <2>1 DEF JobRecords, CompletedState
  <2>3. job.phase = "reconcile" /\ simTick \in reconciled
    BY <1>2, <2>1 DEF Settles
  <2>4. QED
    BY <1>4, <2>1, <2>2, <2>3 DEF Executing
<1>12. CASE FailRead(w)
  <2>1. /\ pc[w] = "failRead" /\ pc'[w] = "failWrite"
        /\ mine'[w] = [job EXCEPT !.status = "failed"]
        /\ UNCHANGED <<job, simTick, advances, reconciled>>
    BY <1>1, <1>12 DEF FailRead, durable, GoTo, Keep
  <2>2. SameJob /\ mine'[w].status = "failed"
    BY <1>1, <2>1 DEF SameJob, JobRecords
  <2>3. Settles(w)'
    BY <2>1, <2>2 DEF Settles, Executing
  <2>4. Settled'
    BY <1>2, <2>1, <2>2, SettledKept
  <2>5. QED
    BY <2>3, <2>4, SettleFrame
<1>13. QED
  BY <1>3, <1>5, <1>6, <1>7, <1>8, <1>9, <1>10, <1>11, <1>12

LEMMA SettleNext ==
    ASSUME Orderly
    PROVE  JobOK /\ (Exclusive => HoldInv) /\ TrackInv /\ SettleInv /\ [Next]_vars => SettleInv'
<1>1. SUFFICES ASSUME JobOK, Exclusive => HoldInv, TrackInv, SettleInv, [Next]_vars
               PROVE  SettleInv'
  OBVIOUS
<1>2. CASE UNCHANGED vars
  BY <1>1, <1>2 DEF vars, durable, local, SettleInv, Settled, Settles, Pending, Adv
<1>3. ASSUME NEW w \in Workers,
             \/ \E t \in Triggers, r \in BOOLEAN : RunTick(w, t, r)
             \/ \E b \in Batches, n \in Sizes, r \in BOOLEAN : RunTrigger(w, b, n, r)
             \/ \E op \in Controls : ControlRead(w, op)
             \/ Step(w) \/ StepFails(w) \/ Crash(w)
      PROVE  SettleInv'
  <2>1. \A v \in Workers \ {w} : UNCHANGED <<pc[v], call[v], mine[v]>>
    BY <1>1, <1>3, OthersKeep
  <2>2. /\ pc \in [Workers -> Places] /\ mine \in [Workers -> States \cup {None}]
        /\ job \in JobRecords
    BY <1>1 DEF JobOK, States
  <2>3. CASE Bystands(w)
    <3>1. /\ SameJob /\ job'.status = job.status /\ UNCHANGED <<advances, reconciled>>
          /\ pc'[w] \in {"idle", "claim", "progress", "loop", "claimBatch"}
      BY <1>1, <2>3, BystanderSteps DEF SameJob
    <3>2. pc'[w] \notin Writing
      BY <3>1 DEF Writing, Holding, Executing
    <3>3. QED
      BY <1>1, <2>1, <3>1, <3>2, SettleQuiet
  <2>4. CASE StepFails(w)
    <3>1. /\ SameJob /\ job'.status = job.status /\ UNCHANGED <<advances, reconciled>>
          /\ pc'[w] = "failRead"
      BY <2>2, <2>4 DEF StepFails, Fail, GoTo, durable, SameJob
    <3>2. QED
      BY <1>1, <2>1, <3>1, SettleQuiet
  <2>5. CASE \E op \in Controls : ControlRead(w, op)
    <3>1. ControlRead(w, "config")
      BY <2>5 DEF Orderly, Exclusive
    <3>2. /\ pc'[w] = "setConfig" /\ mine'[w] = [job EXCEPT !.rev = @ + 1]
          /\ UNCHANGED <<job, simTick, advances, reconciled>>
      BY <2>2, <3>1 DEF ControlRead, GoTo, Keep, durable
    <3>3. SameJob /\ job'.status = job.status /\ mine'[w].status = job.status
      BY <2>2, <3>2 DEF SameJob, JobRecords
    <3>4. Settles(w)'
      BY <3>2, <3>3 DEF Settles, Executing
    <3>5. Settled'
      BY <1>1, <3>2, <3>3, SettledKept DEF SettleInv
    <3>6. QED
      BY <1>1, <2>1, <3>2, <3>3, <3>4, <3>5, SettleFrame
  <2>6. CASE \/ ClaimTick(w) \/ (ExecuteTick(w) /\ ~FlushDomain(w))
             \/ FailRead(w) \/ FailWrite(w) \/ SetStatus(w) \/ SetConfig(w)
    <3>1. pc[w] \in Writing \/ ClaimTick(w)
      BY <2>6 DEF ExecuteTick, ReadPosition, SaveTickIfOwned, BuildToAdvance, Advance,
         ReadAdvanced, BuildToReconcile, Reconcile, ReadCompleted, FailRead, FailWrite,
         SetStatus, SetConfig, Writing, Holding, Executing
    <3>2. Alone(w)
      BY <1>1, <3>1, WritesAlone DEF Orderly, Undisturbed
    <3>3. QED
      BY <1>1, <2>1, <2>6, <3>2, SaveSettles, ExecuteSettles DEF ExecuteTick
  <2>7. QED
    BY <1>3, <2>3, <2>4, <2>5, <2>6 DEF Step, Claim, Bystands
<1>4. QED
  BY <1>1, <1>2, <1>3 DEF Next, Reliable

\* A job that is ready with no active trigger has reconciled every tick, and the
\* trigger that completed is one that advanced the simulation itself (run_tick,
\* _execute_tick_phase and _claim_tick): for one worker that is never paused,
\* with any failing step, and for any number of workers under Exclusive.
THEOREM TicksReconciled == ASSUME Orderly PROVE Spec => []EveryTickReconciled
<1>1. JobOK /\ (Exclusive => HoldInv) /\ TrackInv /\ SettleInv /\ [Next]_vars =>
        (JobOK /\ (Exclusive => HoldInv) /\ TrackInv /\ SettleInv)'
  BY NextOK, HoldNext, TrackNext, SettleNext DEF Exclusive, Orderly, Undisturbed
<1>2. SettleInv => EveryTickReconciled
  BY DEF SettleInv, Settled, Pending, Adv, EveryTickReconciled
<1>3. QED
  BY <1>1, <1>2, InitOK, HoldInit, TrackInit, SettleInit, PTL DEF Spec

-----------------------------------------------------------------------------
(***************************************************************************)
(* Batches, with one worker.  The children of a batch advance one after    *)
(* the other, so what has advanced is told by the number of children that  *)
(* are done and by whether the next one is past its advance.               *)
(***************************************************************************)

ThisChild == ChildId(job.batch, job.done + 1)

Halfway ==
    \/ job.lastDone = ThisChild
    \/ job.active = ThisChild /\ (job.phase = "reconcile" \/ simTick # job.next)

Count == IF Halfway THEN job.done + 1 ELSE job.done

\* Children of other batches advance no more.
Apart ==
    /\ \A k \in DOMAIN advances : advances[k][1] \in Batches =>
          advances[k][1] = job.batch \/ Recorded(job, advances[k][1])
    /\ job.lastDone # None /\ job.lastDone[1] \in Batches =>
          job.lastDone[1] = job.batch \/ Recorded(job, job.lastDone[1])

InOrder ==
    job.batch # None =>
        /\ ~Recorded(job, job.batch)
        /\ job.lastDone = ThisChild => job.done < job.total
        /\ job.active # None =>
              /\ job.active = ThisChild /\ job.lastDone # ThisChild
              /\ job.done < job.total
              /\ job.status \in {"running", "failed"} /\ job.phase # "idle"

Counted ==
    job.batch # None =>
        /\ \A k \in AdvancesOf(job.batch) : advances[k][2] \in 1..Count
        /\ Cardinality(AdvancesOf(job.batch)) = Count

BatchOf(w) ==
    /\ pc[w] \in Writing \ {"failRead"} =>
          /\ mine[w].batch = job.batch /\ mine[w].total = job.total
          /\ mine[w].done = job.done /\ mine[w].records = job.records
    /\ pc[w] \in Executing =>
          job.active = call[w].id /\ (call[w].batch = None => job.batch = None)
    /\ pc[w] \in Executing \ {"saveCompleted"} => mine[w].status = "running"
    /\ pc[w] = "failWrite" => mine[w].status = "failed"
    /\ pc[w] \in Executing \cup {"claim", "flush"} /\ call[w].batch = None =>
          call[w].id[1] \in Triggers
    /\ pc[w] \in Executing \cup {"claim", "flush", "loop", "progress"} /\ call[w].batch # None =>
          job.batch = call[w].batch /\ job.done = call[w].done /\ job.total = call[w].total
    /\ pc[w] \in Executing \cup {"claim", "flush"} /\ call[w].batch # None =>
          call[w].id = ThisChild /\ job.done < job.total
    /\ pc[w] \in {"flush", "progress"} /\ call[w].batch # None => job.lastDone = ThisChild
    /\ pc[w] \in {"build", "reconcile", "complete", "saveCompleted"} /\ job.batch # None =>
          job.phase = "reconcile"
    /\ pc[w] = "saveCompleted" => mine[w].active = None /\ mine[w].lastDone = call[w].id
    /\ pc[w] \in {"setStatus", "setConfig"} => job.batch = None

BatchInv ==
    BatchAdvancesExactly /\ Apart /\ InOrder /\ Counted /\ \A w \in Workers : BatchOf(w)

LEMMA IdFacts ==
    ASSUME JobOK
    PROVE  /\ None \notin Ids /\ None \notin Batches /\ Triggers \cap Batches = {}
           /\ job.batch # None => ThisChild \in Ids /\ ThisChild # None
           /\ \A t \in Triggers : PlainId(t)[1] = t /\ PlainId(t) \in Ids
           /\ ThisChild[1] = job.batch /\ ThisChild[2] = job.done + 1
           /\ job.batch \in Batches \cup {None} /\ job.done \in Nat /\ job.total \in Nat
           /\ job.done <= job.total
<1>1. job.batch \in Batches \cup {None} /\ job.done \in Nat /\ job.total \in Nat
      /\ job.done <= job.total
  BY DEF JobOK, States, JobRecords, Valid
<1>2. job.done + 1 \in Nat \ {0}
  BY <1>1
<1>3. QED
  BY <1>1, <1>2, IdAssumption DEF Ids, PlainId, ChildId, ThisChild

SameBatch ==
    /\ job'.batch = job.batch /\ job'.total = job.total
    /\ job'.done = job.done /\ job'.records = job.records

\* A step that keeps how far the batch is.
LEMMA CountedKept ==
    ASSUME BatchAdvancesExactly, Apart, Counted, UNCHANGED advances, SameBatch,
           job.batch # None => Halfway' = Halfway,
           job'.lastDone = job.lastDone \/ job'.lastDone[1] \notin Batches \/
             job'.lastDone[1] = job.batch
    PROVE  BatchAdvancesExactly' /\ Apart' /\ Counted'
<1>1. \A b : AdvancesOf(b)' = AdvancesOf(b)
  BY DEF AdvancesOf
<1>2. BatchAdvancesExactly'
  BY <1>1 DEF BatchAdvancesExactly, SameBatch
<1>3. Apart'
  BY DEF Apart, SameBatch, Recorded
<1>4. job.batch # None => Count' = Count
  BY DEF Count, SameBatch
<1>5. Counted'
  BY <1>1, <1>4 DEF Counted, SameBatch
<1>6. QED
  BY <1>2, <1>3, <1>5

LEMMA BatchKept ==
    ASSUME BatchAdvancesExactly, Apart, InOrder, Counted, UNCHANGED advances,
           SameBatch, SameJob,
           job.batch = None \/ job'.status = job.status \/ job'.status \in {"running", "failed"}
    PROVE  BatchAdvancesExactly' /\ Apart' /\ InOrder' /\ Counted'
<1>1. ThisChild' = ThisChild
  BY DEF ThisChild, SameBatch
<1>2. Halfway' = Halfway
  BY <1>1 DEF Halfway, SameJob
<1>3. InOrder'
  BY <1>1 DEF InOrder, SameBatch, SameJob, Recorded
<1>4. QED
  BY <1>2, <1>3, CountedKept DEF SameJob

LEMMA BatchInit == Init => BatchInv
<1>1. SUFFICES ASSUME Init PROVE BatchInv
  OBVIOUS
<1>2. job.batch = None /\ job.lastDone = None /\ job.records = {} /\ DOMAIN advances = {}
  BY <1>1 DEF Init
<1>3. \A w \in Workers : BatchOf(w)
  BY <1>1 DEF Init, BatchOf, Writing, Holding, Executing
<1>4. QED
  BY <1>2, <1>3 DEF BatchInv, BatchAdvancesExactly, AdvancesOf, Apart, InOrder, Counted

\* The calls and the returns of ticks.
LEMMA BystanderBatch ==
    ASSUME JobOK, BatchInv, NEW w \in Workers, Workers = {w},
           \/ \E t \in Triggers, r \in BOOLEAN : RunTick(w, t, r)
           \/ \E b \in Batches, n \in Sizes, r \in BOOLEAN : RunTrigger(w, b, n, r)
           \/ ClaimTickDone(w) \/ ClaimTickRefused(w) \/ FlushDomain(w) \/ Crash(w)
           \/ ClaimSameBatch(w) \/ ClaimBatchRefused(w) \/ NextChild(w) \/ StepFails(w)
    PROVE  BatchInv'
<1>1. /\ pc \in [Workers -> Places] /\ call \in [Workers -> Calls] /\ call[w] \in Calls
      /\ BatchOf(w) /\ CallOK(w)
  BY DEF JobOK, BatchInv
<1>2. UNCHANGED <<job, simTick, advances>>
  BY DEF RunTick, RunTrigger, ClaimTickDone, ClaimTickRefused, FlushDomain, Crash,
     ClaimSameBatch, ClaimBatchRefused, NextChild, StepFails, durable
<1>3. BatchAdvancesExactly' /\ Apart' /\ InOrder' /\ Counted'
  <2>1. SameJob /\ SameBatch /\ job'.status = job.status
    BY <1>2 DEF SameJob, SameBatch
  <2>2. QED
    BY <1>2, <2>1, BatchKept DEF BatchInv
<1>4. SUFFICES BatchOf(w)'
  BY <1>3 DEF BatchInv
<1>5. ThisChild' = ThisChild
  BY <1>2 DEF ThisChild
<1>6. ASSUME pc'[w] \in {"idle", "claimBatch", "failRead"} PROVE BatchOf(w)'
  BY <1>6 DEF BatchOf, Writing, Holding, Executing
<1>7. ASSUME TickReturns(w), pc[w] \in {"claim", "flush"},
             call[w].batch # None => job.lastDone = ThisChild
      PROVE  BatchOf(w)'
  <2>1. CASE call[w].batch = None
    BY <1>1, <1>6, <1>7, <2>1 DEF TickReturns, Return, GoTo
  <2>2. CASE call[w].batch # None
    <3>1. pc'[w] = "progress" /\ call' = call
      BY <1>1, <1>7, <2>2 DEF TickReturns, GoTo
    <3>2. QED
      BY <1>1, <1>2, <1>5, <1>7, <2>2, <3>1 DEF BatchOf, Writing, Holding, Executing
  <2>3. QED
    BY <2>1, <2>2
<1>8. CASE \E t \in Triggers, r \in BOOLEAN : RunTick(w, t, r)
  <2>1. PICK t \in Triggers, r \in BOOLEAN : RunTick(w, t, r)
    BY <1>8
  <2>2. pc'[w] = "claim" /\ call'[w] = [NoCall EXCEPT !.id = PlainId(t), !.recover = r]
    BY <1>1, <2>1 DEF RunTick, GoTo
  <2>3. NoCall.batch = None
    BY DEF NoCall
  <2>4. call'[w].batch = None /\ call'[w].id = PlainId(t) /\ PlainId(t)[1] \in Triggers
    BY <2>2, <2>3, NoCallTyped, IdFacts DEF Calls
  <2>5. QED
    BY <2>2, <2>4 DEF BatchOf, Writing, Holding, Executing
<1>9. CASE \E b \in Batches, n \in Sizes, r \in BOOLEAN : RunTrigger(w, b, n, r)
  BY <1>1, <1>6, <1>9 DEF RunTrigger, GoTo
<1>10. CASE ClaimTickDone(w)
  <2>1. call[w].batch # None => job.lastDone = ThisChild
    BY <1>1, <1>10 DEF ClaimTickDone, BatchOf
  <2>2. QED
    BY <1>7, <1>10, <2>1 DEF ClaimTickDone
<1>11. CASE FlushDomain(w)
  <2>1. call[w].batch # None => job.lastDone = ThisChild
    BY <1>1, <1>11 DEF FlushDomain, BatchOf
  <2>2. QED
    BY <1>7, <1>11, <2>1 DEF FlushDomain
<1>12. CASE ClaimTickRefused(w) \/ Crash(w) \/ ClaimBatchRefused(w)
  BY <1>1, <1>6, <1>12 DEF ClaimTickRefused, Crash, ClaimBatchRefused, Return, GoTo
<1>13. CASE StepFails(w)
  BY <1>1, <1>6, <1>13 DEF StepFails, Fail, GoTo
<1>14. CASE ClaimSameBatch(w)
  <2>1. /\ pc[w] = "claimBatch" /\ job.batch = call[w].batch /\ pc'[w] = "loop"
        /\ call' = [call EXCEPT ![w].total = job.total, ![w].done = job.done,
                                ![w].start = job.next - job.done]
    BY <1>1, <1>14 DEF ClaimSameBatch, EnterBatch, GoTo
  <2>2. /\ call'[w].batch = call[w].batch /\ call'[w].total = job.total
        /\ call'[w].done = job.done
    BY <1>1, <2>1 DEF Calls
  <2>3. QED
    BY <1>2, <2>1, <2>2 DEF BatchOf, Writing, Holding, Executing
<1>15. CASE NextChild(w)
  <2>1. pc[w] = "loop" /\ call[w].done < call[w].total /\ call[w].batch \in Batches
    BY <1>1, <1>15 DEF NextChild, CallOK, BatchPlaces
  <2>2. job.batch = call[w].batch /\ job.done = call[w].done /\ job.total = call[w].total
    BY <1>1, <2>1, IdAssumption DEF BatchOf
  <2>3. \/ pc'[w] = "idle"
        \/ pc'[w] = "claim" /\ call' = [call EXCEPT ![w].id = ThisChild]
    BY <1>1, <1>15, <2>2 DEF NextChild, ThisChild, Return, GoTo
  <2>4. CASE pc'[w] = "claim" /\ call' = [call EXCEPT ![w].id = ThisChild]
    <3>1. /\ call'[w].batch = call[w].batch /\ call'[w].total = call[w].total
          /\ call'[w].done = call[w].done /\ call'[w].id = ThisChild
      BY <1>1, <2>4 DEF Calls
    <3>2. QED
      BY <1>2, <1>5, <2>1, <2>2, <2>4, <3>1, IdAssumption
         DEF BatchOf, Writing, Holding, Executing
  <2>5. QED
    BY <1>6, <2>3, <2>4
<1>16. QED
  BY <1>8, <1>9, <1>10, <1>11, <1>12, <1>13, <1>14, <1>15

\* A batch that begins: none of its children has advanced.
LEMMA NewBatch ==
    ASSUME JobOK, BatchInv, NEW w \in Workers, Workers = {w}, ClaimNewBatch(w)
    PROVE  BatchInv'
<1>1. /\ pc \in [Workers -> Places] /\ call \in [Workers -> Calls] /\ call[w] \in Calls
      /\ job \in JobRecords /\ CallOK(w)
  BY DEF JobOK, BatchInv, States
<1>2. /\ pc[w] = "claimBatch" /\ ~Recorded(job, call[w].batch) /\ job.batch = None
      /\ job.active = None /\ UNCHANGED <<simTick, advances>>
      /\ job' = [job EXCEPT !.batch = call[w].batch, !.total = call[w].total, !.done = 0]
  BY DEF ClaimNewBatch
<1>3. call[w].batch \in Batches /\ call[w].batch # None
  BY <1>1, <1>2, IdAssumption DEF CallOK, BatchPlaces
<1>4. /\ job'.batch = call[w].batch /\ job'.total = call[w].total /\ job'.done = 0
      /\ job'.active = None /\ job'.lastDone = job.lastDone /\ job'.records = job.records
  BY <1>1, <1>2 DEF JobRecords
<1>5. \A b : AdvancesOf(b)' = AdvancesOf(b) /\ Recorded(job', b) = Recorded(job, b)
  BY <1>2, <1>4 DEF AdvancesOf, Recorded
<1>6. AdvancesOf(call[w].batch) = {}
  BY <1>2, <1>3 DEF BatchInv, Apart, AdvancesOf
<1>7. ThisChild' \in Ids /\ ThisChild'[1] = call[w].batch
  BY <1>3, <1>4 DEF ThisChild, ChildId, Ids
<1>8. job.lastDone # ThisChild'
  BY <1>2, <1>3, <1>7, IdAssumption DEF BatchInv, Apart
<1>9. ~Halfway'
  BY <1>4, <1>7, <1>8, IdAssumption DEF Halfway
<1>10. BatchAdvancesExactly' /\ Apart'
  <2>1. BatchAdvancesExactly'
    BY <1>2, <1>4, <1>5 DEF BatchInv, BatchAdvancesExactly
  <2>2. Apart'
    BY <1>2, <1>4, <1>5, IdAssumption DEF BatchInv, Apart
  <2>3. QED
    BY <2>1, <2>2
<1>11. InOrder'
  BY <1>2, <1>4, <1>5, <1>8 DEF InOrder
<1>12. Count' = 0
  BY <1>4, <1>9 DEF Count
<1>13. Counted'
  BY <1>4, <1>5, <1>6, <1>12, FS_EmptySet DEF Counted
<1>14. BatchOf(w)'
  <2>1. /\ pc'[w] = "loop"
        /\ call' = [call EXCEPT ![w].total = job'.total, ![w].done = job'.done,
                                ![w].start = job'.next - job'.done]
    BY <1>1 DEF ClaimNewBatch, EnterBatch, GoTo
  <2>2. /\ call'[w].batch = call[w].batch /\ call'[w].total = job'.total
        /\ call'[w].done = job'.done
    BY <1>1, <2>1 DEF Calls
  <2>3. QED
    BY <1>4, <2>1, <2>2 DEF BatchOf, Writing, Holding, Executing
<1>15. QED
  BY <1>10, <1>11, <1>13, <1>14 DEF BatchInv

\* A child is counted as done: it was the one halfway.
LEMMA ProgressBatch ==
    ASSUME JobOK, BatchInv, NEW w \in Workers, Workers = {w}, SaveBatchProgress(w)
    PROVE  BatchInv'
<1>1. /\ pc \in [Workers -> Places] /\ call \in [Workers -> Calls] /\ call[w] \in Calls
      /\ job \in JobRecords /\ CallOK(w) /\ BatchOf(w)
  BY DEF JobOK, BatchInv, States
<1>2. pc[w] = "progress" /\ call[w].batch \in Batches /\ call[w].batch # None
  BY <1>1, IdAssumption DEF CallOK, BatchPlaces, SaveBatchProgress
<1>3. /\ job.batch = call[w].batch /\ job.done = call[w].done /\ job.total = call[w].total
      /\ job.lastDone = ThisChild
  BY <1>1, <1>2 DEF BatchOf
<1>4. job.done < job.total /\ job.active = None
  BY <1>2, <1>3 DEF BatchInv, InOrder
<1>5. /\ job' = [job EXCEPT !.done = call[w].done + 1]
      /\ call' = [call EXCEPT ![w].done = @ + 1]
      /\ pc'[w] = "loop" /\ UNCHANGED <<simTick, advances>>
  BY <1>1, <1>3, <1>4 DEF SaveBatchProgress, GoTo
<1>6. /\ job'.batch = job.batch /\ job'.total = job.total /\ job'.done = job.done + 1
      /\ job'.active = None /\ job'.lastDone = job.lastDone /\ job'.records = job.records
  BY <1>1, <1>3, <1>4, <1>5 DEF JobRecords
<1>7. \A b : AdvancesOf(b)' = AdvancesOf(b) /\ Recorded(job', b) = Recorded(job, b)
  BY <1>5, <1>6 DEF AdvancesOf, Recorded
<1>8. job.done \in Nat
  BY <1>1 DEF JobRecords
<1>9. ThisChild' # ThisChild /\ ThisChild' # None
  <2>1. ThisChild'[2] = job.done + 2 /\ ThisChild[2] = job.done + 1
    BY <1>6, <1>8 DEF ThisChild, ChildId
  <2>2. ThisChild' \in Ids
    BY <1>2, <1>3, <1>6, <1>8 DEF ThisChild, ChildId, Ids
  <2>3. QED
    BY <1>8, <2>1, <2>2, IdAssumption
<1>10. ~Halfway' /\ Halfway
  BY <1>3, <1>6, <1>9 DEF Halfway
<1>11. Count' = Count
  BY <1>6, <1>10 DEF Count
<1>12. BatchAdvancesExactly' /\ Apart' /\ InOrder' /\ Counted'
  <2>1. BatchAdvancesExactly' /\ Apart'
    BY <1>5, <1>6, <1>7 DEF BatchInv, BatchAdvancesExactly, Apart
  <2>2. InOrder'
    BY <1>3, <1>6, <1>7, <1>9 DEF BatchInv, InOrder
  <2>3. Counted'
    BY <1>5, <1>6, <1>7, <1>11 DEF BatchInv, Counted
  <2>4. QED
    BY <2>1, <2>2, <2>3
<1>13. BatchOf(w)'
  <2>1. /\ call'[w].batch = call[w].batch /\ call'[w].total = call[w].total
        /\ call'[w].done = call[w].done + 1
    BY <1>1, <1>5 DEF Calls
  <2>2. QED
    BY <1>3, <1>5, <1>6, <2>1 DEF BatchOf, Writing, Holding, Executing
<1>14. QED
  BY <1>12, <1>13 DEF BatchInv

\* A batch that is finished has advanced as often as its record will say.
LEMMA FinishBatch ==
    ASSUME JobOK, BatchInv, NEW w \in Workers, Workers = {w}, FinalizeBatch(w)
    PROVE  BatchInv'
<1> DEFINE record == [trigger |-> call[w].batch, ticks |-> call[w].total,
                      start |-> call[w].start, end |-> job.next]
<1>1. /\ pc \in [Workers -> Places] /\ call[w] \in Calls /\ job \in JobRecords
      /\ CallOK(w) /\ BatchOf(w)
  BY DEF JobOK, BatchInv, States
<1>2. /\ pc[w] = "loop" /\ call[w].batch \in Batches /\ call[w].batch # None
      /\ pc'[w] = "idle" /\ UNCHANGED <<simTick, advances>> /\ call[w].done >= call[w].total
  BY <1>1, IdAssumption DEF CallOK, BatchPlaces, FinalizeBatch, Return, GoTo
<1>3. job.batch = call[w].batch /\ job.done = call[w].done /\ job.total = call[w].total
  BY <1>1, <1>2 DEF BatchOf
<1>4. BatchOf(w)'
  BY <1>2 DEF BatchOf, Writing, Holding, Executing
<1>5. CASE UNCHANGED job
  <2>1. SameJob /\ SameBatch /\ job'.status = job.status
    BY <1>2, <1>5 DEF SameJob, SameBatch
  <2>2. QED
    BY <1>2, <1>4, <2>1, BatchKept DEF BatchInv
<1>6. CASE job' = FinalizedState(job, record)
  <2>1. /\ job'.batch = None /\ job'.records = job.records \cup {record}
        /\ job'.lastDone = job.lastDone
    BY <1>1, <1>6 DEF JobRecords, FinalizedState
  <2>2. record.trigger = job.batch /\ record.ticks = job.total
    BY <1>3
  <2> HIDE DEF record
  <2>3. \A b : AdvancesOf(b)' = AdvancesOf(b)
    BY <1>2 DEF AdvancesOf
  <2>4. \A b : Recorded(job', b) <=> (Recorded(job, b) \/ b = job.batch)
    BY <2>1, <2>2 DEF Recorded
  <2>5. Count = job.total
    <3>1. /\ job.done = job.total /\ job.done \in Nat
      BY <1>2, <1>3, IdFacts
    <3>2. job.batch # None /\ ThisChild # None
      BY <1>2, <1>3, IdFacts
    <3>3. ~Halfway
      BY <3>1, <3>2 DEF BatchInv, InOrder, Halfway
    <3>4. QED
      BY <3>1, <3>3 DEF Count
  <2>6. Cardinality(AdvancesOf(job.batch)) = job.total
    BY <1>2, <1>3, <2>5 DEF BatchInv, Counted
  <2>7. BatchAdvancesExactly'
    BY <1>2, <2>1, <2>2, <2>3, <2>6 DEF BatchInv, BatchAdvancesExactly
  <2>8. Apart'
    BY <1>2, <2>1, <2>4 DEF BatchInv, Apart
  <2>9. InOrder' /\ Counted'
    BY <2>1 DEF InOrder, Counted
  <2>10. QED
    BY <1>4, <2>7, <2>8, <2>9 DEF BatchInv
<1>7. QED
  BY <1>5, <1>6 DEF FinalizeBatch

\* The control operations and the save of a failure keep the batch.
LEMMA ControlBatch ==
    ASSUME JobOK, TrackInv, BatchInv, NEW w \in Workers, Workers = {w},
           \/ \E op \in Controls : ControlRead(w, op)
           \/ SetStatus(w) \/ SetConfig(w) \/ FailRead(w) \/ FailWrite(w)
    PROVE  BatchInv'
<1>1. /\ pc \in [Workers -> Places] /\ mine \in [Workers -> States \cup {None}]
      /\ job \in JobRecords /\ BatchOf(w) /\ Tracks(w)
  BY DEF JobOK, BatchInv, TrackInv, States
<1>2. ASSUME SameJob, SameBatch, UNCHANGED advances, BatchOf(w)',
             job.batch = None \/ job'.status = job.status \/ job'.status = "failed"
      PROVE  BatchInv'
  BY <1>2, BatchKept DEF BatchInv
<1>3. CASE \E op \in Controls : ControlRead(w, op)
  <2>1. /\ UNCHANGED <<job, simTick, advances>> /\ pc'[w] \in {"setStatus", "setConfig"}
        /\ job.batch = None
    BY <1>1, <1>3 DEF ControlRead, GoTo, durable
  <2>2. \/ \E x : mine' = [mine EXCEPT ![w] = [job EXCEPT !.status = x]]
        \/ mine' = [mine EXCEPT ![w] = [job EXCEPT !.rev = @ + 1]]
    BY <1>3, Zenon DEF ControlRead, Keep
  <2>3. \/ \E x : mine'[w] = [job EXCEPT !.status = x]
        \/ mine'[w] = [job EXCEPT !.rev = @ + 1]
    BY <1>1, <2>2
  <2>4. /\ mine'[w].batch = job.batch /\ mine'[w].total = job.total
        /\ mine'[w].done = job.done /\ mine'[w].records = job.records
    BY <1>1, <2>3 DEF JobRecords
  <2>5. BatchOf(w)'
    BY <2>1, <2>4 DEF BatchOf, Writing, Holding, Executing
  <2>6. SameJob /\ SameBatch
    BY <2>1 DEF SameJob, SameBatch
  <2>7. QED
    BY <1>2, <2>1, <2>5, <2>6
<1>4. CASE FailRead(w)
  <2>1. /\ UNCHANGED <<job, simTick, advances>> /\ pc'[w] = "failWrite"
        /\ mine'[w] = [job EXCEPT !.status = "failed"]
    BY <1>1, <1>4 DEF FailRead, GoTo, Keep, durable
  <2>2. /\ mine'[w].batch = job.batch /\ mine'[w].total = job.total
        /\ mine'[w].done = job.done /\ mine'[w].records = job.records
        /\ mine'[w].status = "failed"
    BY <1>1, <2>1 DEF JobRecords
  <2>3. BatchOf(w)'
    BY <2>1, <2>2 DEF BatchOf, Writing, Holding, Executing
  <2>4. SameJob /\ SameBatch /\ job'.status = job.status
    BY <2>1 DEF SameJob, SameBatch
  <2>5. QED
    BY <1>2, <2>1, <2>3, <2>4
<1>5. CASE SetStatus(w) \/ SetConfig(w) \/ FailWrite(w)
  <2>1. /\ pc[w] \in {"setStatus", "setConfig", "failWrite"} /\ pc'[w] = "idle"
        /\ job' = mine[w] \/ (job' = job /\ pc[w] = "setConfig")
        /\ UNCHANGED <<simTick, advances>>
    BY <1>1, <1>5 DEF SetStatus, SetConfig, FailWrite, Return, GoTo
  <2>2. SameJob
    BY <1>1, <2>1 DEF Tracks, SameCheckpoint, SameJob
  <2>3. SameBatch
    BY <1>1, <2>1 DEF BatchOf, SameBatch, Writing, Holding
  <2>4. job.batch = None \/ job'.status = "failed"
    BY <1>1, <2>1 DEF BatchOf
  <2>5. BatchOf(w)'
    BY <2>1 DEF BatchOf, Writing, Holding, Executing
  <2>6. QED
    BY <1>2, <2>1, <2>2, <2>3, <2>4, <2>5
<1>6. QED
  BY <1>3, <1>4, <1>5

\* The steps of a tick that save the copy: how far the batch is stays as it was.
LEMMA SaveBatch ==
    ASSUME JobOK, TrackInv, BatchInv, NEW w \in Workers, Workers = {w},
           \/ SaveTickIfOwned(w, "saveRecovered", "build")
           \/ SaveTickIfOwned(w, "saveAdvance", "rebuild")
           \/ SaveTickIfOwned(w, "saveReconcile", "reconcile")
           \/ SaveTickIfOwned(w, "saveCompleted", "flush")
    PROVE  BatchInv'
<1>1. /\ pc \in [Workers -> Places] /\ BatchOf(w) /\ Tracks(w)
      /\ BatchAdvancesExactly /\ Apart /\ InOrder /\ Counted
  BY DEF JobOK, BatchInv, TrackInv
<1>2. PICK from \in {"saveRecovered", "saveAdvance", "saveReconcile", "saveCompleted"},
           to \in {"build", "rebuild", "reconcile", "flush"} :
         /\ SaveTickIfOwned(w, from, to)
         /\ from = "saveCompleted" <=> to = "flush"
         /\ from = "saveAdvance" <=> to = "rebuild"
  OBVIOUS
<1>3. pc[w] \in Executing /\ pc[w] = from
  BY <1>2 DEF SaveTickIfOwned, Executing
<1>4. Owns(w)
  BY <1>1, <1>3 DEF BatchOf, Owns
<1>5. /\ job' = mine[w] /\ pc'[w] = to
      /\ UNCHANGED <<simTick, advances, call, mine>>
  BY <1>1, <1>2, <1>4 DEF SaveTickIfOwned, GoTo
<1>6. SameBatch
  BY <1>1, <1>3, <1>5 DEF BatchOf, SameBatch, Writing, Holding
<1>7. ThisChild' = ThisChild
  BY <1>6 DEF ThisChild, SameBatch
<1>8. job.active = call[w].id /\ job.active # None
  BY <1>1, <1>3 DEF BatchOf, Tracks
<1>9. job.batch # None => /\ job.active = ThisChild /\ job.lastDone # ThisChild
                          /\ job.done < job.total /\ ~Recorded(job, job.batch)
                          /\ call[w].batch # None
  BY <1>1, <1>3, <1>8 DEF InOrder, BatchOf
<1>10. job.batch = None => call[w].batch = None /\ call[w].id[1] \in Triggers
  <2>1. call[w].batch # None => job.batch = call[w].batch
    BY <1>1, <1>3 DEF BatchOf
  <2>2. call[w].batch = None => call[w].id[1] \in Triggers
    BY <1>1, <1>3 DEF BatchOf
  <2>3. QED
    BY <2>1, <2>2
<1>11. Recorded(job', job.batch) = Recorded(job, job.batch)
  BY <1>6 DEF SameBatch, Recorded
<1>12. CASE pc[w] # "saveCompleted"
  <2>1. /\ job'.active = job.active /\ job'.lastDone = job.lastDone /\ job'.next = simTick
        /\ job'.status = "running"
    BY <1>1, <1>2, <1>3, <1>5, <1>12 DEF Tracks, BatchOf
  <2>2. \/ job'.phase = "reconcile" /\ HasAdvanced /\ pc[w] # "saveAdvance"
        \/ job'.phase = "advance" /\ ToAdvance /\ pc[w] = "saveAdvance"
    BY <1>1, <1>2, <1>3, <1>5, <1>12 DEF Tracks
  <2>3. simTick \in Nat /\ job.next \in Nat
    BY DEF JobOK, States, JobRecords
  <2>4. Halfway' = Halfway
    BY <1>5, <1>7, <2>1, <2>2, <2>3 DEF Halfway, HasAdvanced, ToAdvance
  <2>5. InOrder'
    BY <1>6, <1>7, <1>9, <1>11, <2>1, <2>2 DEF InOrder, SameBatch
  <2>6. BatchAdvancesExactly' /\ Apart' /\ Counted'
    BY <1>1, <1>5, <1>6, <2>1, <2>4, CountedKept
  <2>7. to # "flush"
    BY <1>2, <1>3, <1>12
  <2>8. BatchOf(w)'
    <3>1. to # "rebuild" => job'.phase = "reconcile"
      BY <1>2, <1>3, <2>2
    <3>2. QED
      BY <1>1, <1>2, <1>3, <1>5, <1>6, <1>7, <1>12, <2>1, <2>7, <3>1
         DEF BatchOf, SameBatch, Writing, Holding, Executing
  <2>9. QED
    BY <2>5, <2>6, <2>8 DEF BatchInv
<1>13. CASE pc[w] = "saveCompleted"
  <2>1. job'.active = None /\ job'.lastDone = call[w].id /\ to = "flush"
    BY <1>1, <1>2, <1>3, <1>5, <1>13 DEF BatchOf
  <2>2. job.batch # None => Halfway /\ Halfway'
    BY <1>1, <1>7, <1>8, <1>9, <1>13, <2>1 DEF Halfway, BatchOf
  <2>3. InOrder'
    BY <1>6, <1>7, <1>9, <1>11, <2>1 DEF InOrder, SameBatch
  <2>4. job'.lastDone[1] \notin Batches \/ job'.lastDone[1] = job.batch
    BY <1>8, <1>9, <1>10, <2>1, IdFacts, IdAssumption
  <2>5. BatchAdvancesExactly' /\ Apart' /\ Counted'
    BY <1>1, <1>5, <1>6, <2>2, <2>4, CountedKept
  <2>6. BatchOf(w)'
    BY <1>1, <1>3, <1>5, <1>6, <1>7, <1>8, <1>9, <2>1
       DEF BatchOf, SameBatch, Writing, Holding, Executing
  <2>7. QED
    BY <2>3, <2>5, <2>6 DEF BatchInv
<1>14. QED
  BY <1>12, <1>13

LEMMA AdvancesFinite ==
    ASSUME advances \in Seq(Ids), NEW b
    PROVE  /\ DOMAIN advances = 1..Len(advances) /\ Len(advances) \in Nat
           /\ IsFiniteSet(AdvancesOf(b)) /\ Cardinality(AdvancesOf(b)) \in Nat
<1>1. DOMAIN advances = 1..Len(advances) /\ Len(advances) \in Nat
  OBVIOUS
<1>2. IsFiniteSet(1..Len(advances))
  BY <1>1, FS_Interval
<1>3. AdvancesOf(b) \subseteq 1..Len(advances)
  BY <1>1 DEF AdvancesOf
<1>4. QED
  BY <1>1, <1>2, <1>3, FS_Subset, FS_CardinalityType

\* The advance of a tick is one more of its batch, the next child, and none of
\* any other.
LEMMA AdvanceBatch ==
    ASSUME JobOK, TrackInv, BatchInv, NEW w \in Workers, Workers = {w}, Advance(w)
    PROVE  BatchInv'
<1> DEFINE n == Len(advances) + 1
<1>1. /\ pc \in [Workers -> Places] /\ BatchOf(w) /\ Tracks(w) /\ advances \in Seq(Ids)
      /\ simTick \in Nat /\ job.next \in Nat
  BY DEF JobOK, BatchInv, TrackInv, States, JobRecords
<1>2. /\ pc[w] = "advance" /\ pc'[w] = "advanced" /\ simTick' = engineTick[w] + 1
      /\ advances' = Append(advances, call[w].id)
      /\ UNCHANGED <<job, mine, call>>
  BY <1>1 DEF Advance, GoTo
<1>3. /\ ToAdvance /\ engineTick[w] = simTick /\ job.active = call[w].id
      /\ call[w].id \in Ids
  BY <1>1, <1>2 DEF Tracks, BatchOf, Executing, JobOK, CallOK
<1>4. /\ DOMAIN advances = 1..Len(advances) /\ Len(advances) \in Nat
      /\ DOMAIN advances' = 1..n /\ advances'[n] = call[w].id
      /\ \A k \in 1..Len(advances) : advances'[k] = advances[k]
  BY <1>1, <1>2, <1>3
<1>5. n \notin DOMAIN advances /\ DOMAIN advances' = DOMAIN advances \cup {n}
  BY <1>4
<1>6. \A k \in DOMAIN advances : advances'[k] = advances[k]
  BY <1>4
<1> HIDE DEF n
<1>7. BatchOf(w)'
  <2>1. ThisChild' = ThisChild
    BY <1>2 DEF ThisChild
  <2>2. QED
    BY <1>1, <1>2, <2>1 DEF BatchOf, Writing, Holding, Executing
<1>8. CASE job.batch = None
  <2>1. call[w].id[1] \notin Batches
    <3>1. call[w].batch = None
      BY <1>1, <1>2, <1>8 DEF BatchOf, Executing
    <3>2. call[w].id[1] \in Triggers
      BY <1>1, <1>2, <3>1 DEF BatchOf, Executing
    <3>3. QED
      BY <3>2, IdAssumption
  <2>2. \A b \in Batches : AdvancesOf(b)' = AdvancesOf(b)
    BY <1>4, <1>5, <1>6, <2>1 DEF AdvancesOf
  <2>3. \A b \in Batches : \A k \in AdvancesOf(b) : advances'[k] = advances[k]
    BY <1>6 DEF AdvancesOf
  <2>4. \A r \in job.records : r.trigger \in Batches
    BY DEF JobOK, States, JobRecords, Records
  <2>5. BatchAdvancesExactly'
    BY <1>2, <2>2, <2>3, <2>4 DEF BatchInv, BatchAdvancesExactly
  <2>6. Apart'
    BY <1>2, <1>4, <1>5, <1>6, <2>1 DEF BatchInv, Apart
  <2>7. InOrder' /\ Counted'
    BY <1>2, <1>8 DEF InOrder, Counted
  <2>8. QED
    BY <1>7, <2>5, <2>6, <2>7 DEF BatchInv
<1>9. CASE job.batch # None
  <2>1. /\ call[w].id = ThisChild /\ job.lastDone # ThisChild /\ ~Recorded(job, job.batch)
    BY <1>3, <1>9 DEF BatchInv, InOrder, ToAdvance
  <2>2. ThisChild' = ThisChild /\ job' = job
    BY <1>2 DEF ThisChild
  <2>3. ~Halfway /\ Halfway'
    BY <1>1, <1>2, <1>3, <2>1, <2>2 DEF Halfway, ToAdvance
  <2>4. job.done \in Nat /\ job.batch \in Batches /\ ThisChild[1] = job.batch
        /\ ThisChild[2] = job.done + 1
    BY <1>9, IdFacts
  <2>5. Count = job.done /\ Count' = job.done + 1
    BY <2>2, <2>3 DEF Count
  <2>6. \A b \in Batches \ {job.batch} : AdvancesOf(b)' = AdvancesOf(b)
    BY <1>4, <1>5, <1>6, <2>1, <2>4 DEF AdvancesOf
  <2>7. AdvancesOf(job.batch)' = AdvancesOf(job.batch) \cup {n} /\ n \notin AdvancesOf(job.batch)
    BY <1>2, <1>4, <1>5, <1>6, <2>1, <2>4 DEF AdvancesOf
  <2>8. \A b : \A k \in AdvancesOf(b) : advances'[k] = advances[k]
    BY <1>6 DEF AdvancesOf
  <2>9. \A k \in AdvancesOf(job.batch) : advances[k][2] \in 1..job.done
    BY <1>9, <2>5 DEF BatchInv, Counted
  <2>10. \A k \in AdvancesOf(job.batch) : advances[k] # ThisChild
    <3>1. job.done + 1 \notin 1..job.done
      BY <2>4
    <3>2. QED
      BY <2>4, <2>9, <3>1
  <2>11. \A b \in Batches : \A j, k \in AdvancesOf(b)' : advances'[j] = advances'[k] => j = k
    <3>1. \A b \in Batches : \A j, k \in AdvancesOf(b) : advances[j] = advances[k] => j = k
      BY DEF BatchInv, BatchAdvancesExactly
    <3>2. \A j, k \in AdvancesOf(job.batch)' : advances'[j] = advances'[k] => j = k
      BY <1>4, <2>1, <2>4, <2>7, <2>8, <2>10, <3>1
    <3>3. \A b \in Batches \ {job.batch} :
             \A j, k \in AdvancesOf(b)' : advances'[j] = advances'[k] => j = k
      BY <2>6, <2>8, <3>1
    <3>4. QED
      BY <2>2, <3>2, <3>3 DEF AdvancesOf
  <2>12. \A r \in job.records : Cardinality(AdvancesOf(r.trigger)') = r.ticks
    <3>1. \A r \in job.records : r.trigger \in Batches /\ r.trigger # job.batch
      BY <2>1 DEF JobOK, States, JobRecords, Records, Recorded
    <3>2. QED
      BY <2>6, <3>1 DEF BatchInv, BatchAdvancesExactly
  <2>13. BatchAdvancesExactly'
    BY <2>2, <2>11, <2>12 DEF BatchAdvancesExactly
  <2>14. Apart'
    BY <1>2, <1>4, <1>5, <1>6, <2>1, <2>4 DEF BatchInv, Apart
  <2>15. InOrder'
    BY <2>2 DEF BatchInv, InOrder
  <2>16. Counted'
    <3>1. Cardinality(AdvancesOf(job.batch)) = job.done /\ IsFiniteSet(AdvancesOf(job.batch))
      BY <1>1, <1>9, <2>5, AdvancesFinite DEF BatchInv, Counted
    <3>2. Cardinality(AdvancesOf(job.batch) \cup {n}) = job.done + 1
      BY <2>7, <3>1, FS_AddElement
    <3>3. \A k \in AdvancesOf(job.batch)' : advances'[k][2] \in 1..(job.done + 1)
      <4>1. advances'[n][2] \in 1..(job.done + 1)
        BY <1>4, <2>1, <2>4
      <4>2. \A i \in 1..job.done : i \in 1..(job.done + 1)
        BY <2>4
      <4>3. QED
        BY <2>7, <2>8, <2>9, <4>1, <4>2
    <3>4. QED
      BY <2>2, <2>5, <2>7, <3>2, <3>3 DEF Counted
  <2>17. QED
    BY <1>7, <2>13, <2>14, <2>15, <2>16 DEF BatchInv
<1>10. QED
  BY <1>8, <1>9

\* The other steps of a tick.
LEMMA ExecuteBatch ==
    ASSUME JobOK, TrackInv, BatchInv, NEW w \in Workers, Workers = {w},
           \/ ClaimTick(w) \/ ReadPosition(w) \/ BuildToAdvance(w) \/ ReadAdvanced(w)
           \/ BuildToReconcile(w) \/ Reconcile(w) \/ ReadCompleted(w)
    PROVE  BatchInv'
<1>1. /\ pc \in [Workers -> Places] /\ mine \in [Workers -> States \cup {None}]
      /\ job \in JobRecords
      /\ pc[w] \in Executing => mine[w] \in JobRecords
  BY DEF JobOK, CallOK, States
<1>2. /\ BatchOf(w) /\ Tracks(w) /\ BatchAdvancesExactly /\ Apart /\ InOrder /\ Counted
      /\ CheckpointTracksPosition
  BY DEF BatchInv, TrackInv
<1>3. CASE ClaimTick(w)
  <2>1. /\ job'.active = call[w].id /\ job'.status = "running" /\ call[w].id \in Ids
        /\ job'.next = job.next /\ job'.lastDone = job.lastDone
        /\ pc'[w] = "position" /\ mine'[w] = job' /\ SameBatch
        /\ IF Unresolved(job) THEN job'.phase = job.phase /\ job'.active = job.active
           ELSE job'.phase = "advance"
        /\ UNCHANGED <<simTick, advances, call>>
    BY <1>3, ClaimTickSteps DEF SameBatch
  <2>2. /\ pc[w] = "claim" /\ job.lastDone # call[w].id
        /\ job.batch # None => call[w].id = ThisChild
    BY <1>3 DEF ClaimTick, Claimable, MatchesBatch, ThisChild
  <2>3. ThisChild' = ThisChild
    BY <2>1 DEF ThisChild, SameBatch
  <2>4. job.batch # None => call[w].batch # None
    <3>1. call[w].batch = None => call[w].id[1] \in Triggers
      BY <1>2, <2>2 DEF BatchOf
    <3>2. job.batch # None => call[w].id[1] \in Batches
      BY <2>2, IdFacts
    <3>3. QED
      BY <3>1, <3>2, IdAssumption
  <2>5. BatchOf(w)'
    BY <1>2, <2>1, <2>2, <2>3, <2>4 DEF BatchOf, SameBatch, Writing, Holding, Executing
  <2>6. job.batch # None => job.done < job.total
    BY <1>2, <2>2, <2>4 DEF BatchOf
  <2>7. job.batch # None /\ ~Unresolved(job) => job.active = None
    BY <1>2 DEF InOrder, Unresolved
  <2>8. job.batch # None => Halfway' = Halfway
    <3>1. CASE Unresolved(job)
      BY <2>1, <2>3, <3>1 DEF Halfway
    <3>2. CASE ~Unresolved(job) /\ job.batch # None
      <4>1. job.active = None /\ simTick = job.next /\ ThisChild # None
        BY <1>2, <2>7, <3>2, IdFacts DEF CheckpointTracksPosition
      <4>2. ~Halfway /\ ~Halfway'
        BY <2>1, <2>2, <2>3, <3>2, <4>1 DEF Halfway
      <4>3. QED
        BY <4>2 DEF Halfway
    <3>3. QED
      BY <3>1, <3>2
  <2>9. InOrder'
    <3>1. job.batch # None => job'.phase # "idle"
      BY <1>2, <2>1 DEF InOrder, Unresolved
    <3>2. QED
      BY <1>2, <2>1, <2>2, <2>3, <2>6, <3>1 DEF InOrder, SameBatch, Recorded
  <2>10. BatchAdvancesExactly' /\ Apart' /\ Counted'
    BY <1>2, <2>1, <2>8, CountedKept
  <2>11. QED
    BY <2>5, <2>9, <2>10 DEF BatchInv
<1>4. ASSUME pc[w] \in Executing \ {"saveCompleted"}, pc'[w] \in Executing \cup {"failRead"},
             UNCHANGED <<job, call, simTick, advances>>,
             mine'[w].batch = mine[w].batch, mine'[w].total = mine[w].total,
             mine'[w].done = mine[w].done, mine'[w].records = mine[w].records,
             pc'[w] # "saveCompleted" => mine'[w].status = mine[w].status,
             pc'[w] = "saveCompleted" => /\ mine'[w].active = None
                                         /\ mine'[w].lastDone = call[w].id,
             pc'[w] \in {"build", "reconcile", "complete", "saveCompleted"}
                 /\ job.batch # None => job.phase = "reconcile"
      PROVE  BatchInv'
  <2>1. SameJob /\ SameBatch /\ job'.status = job.status /\ ThisChild' = ThisChild
    BY <1>4 DEF SameJob, SameBatch, ThisChild
  <2>2. BatchAdvancesExactly' /\ Apart' /\ InOrder' /\ Counted'
    BY <1>2, <1>4, <2>1, BatchKept
  <2>3. BatchOf(w)'
    <3>1. /\ mine[w].batch = job.batch /\ mine[w].total = job.total
          /\ mine[w].done = job.done /\ mine[w].records = job.records
          /\ mine[w].status = "running"
      BY <1>2, <1>4 DEF BatchOf, Writing, Holding, Executing
    <3>2. pc'[w] \notin {"claim", "flush", "loop", "progress", "setStatus", "setConfig",
                         "failWrite"}
      BY <1>4 DEF Executing
    <3>3. QED
      BY <1>2, <1>4, <2>1, <3>1, <3>2 DEF BatchOf
  <2>4. QED
    BY <2>2, <2>3 DEF BatchInv
<1>5. CASE ReadPosition(w)
  <2>1. /\ pc[w] = "position" /\ mine[w] \in JobRecords
        /\ UNCHANGED <<job, call, simTick, advances>>
    BY <1>1, <1>5 DEF ReadPosition, durable, Executing
  <2>2. \/ /\ mine'[w] = [mine[w] EXCEPT !.phase = "reconcile", !.next = simTick]
           /\ pc'[w] = "saveRecovered"
        \/ /\ mine'[w] = [mine[w] EXCEPT !.next = simTick] /\ pc'[w] = "saveAdvance"
        \/ /\ mine'[w] = mine[w] /\ pc'[w] = "build" /\ mine[w].phase # "advance"
    BY <1>1, <1>5 DEF ReadPosition, Keep, GoTo
  <2>3. /\ mine'[w].status = mine[w].status /\ mine'[w].batch = mine[w].batch
        /\ mine'[w].total = mine[w].total /\ mine'[w].done = mine[w].done
        /\ mine'[w].records = mine[w].records
    BY <2>1, <2>2 DEF JobRecords
  <2>4. mine[w].phase # "advance" /\ job.batch # None => job.phase = "reconcile"
    <3>1. mine[w].phase = job.phase /\ job.active # None
      BY <1>2, <2>1 DEF Tracks, SameCheckpoint, Executing
    <3>2. job.batch # None => job.phase # "idle"
      BY <1>2, <3>1 DEF InOrder
    <3>3. QED
      BY <1>1, <3>1, <3>2 DEF JobRecords
  <2>5. QED
    BY <1>4, <2>1, <2>2, <2>3, <2>4 DEF Executing
<1>6. CASE BuildToAdvance(w)
  <2>1. pc[w] = "rebuild" /\ UNCHANGED <<job, simTick, advances, call, mine>>
    BY <1>6 DEF BuildToAdvance, Fail, durable
  <2>2. pc'[w] \in {"advance", "failRead"}
    BY <1>1, <1>6 DEF BuildToAdvance, Fail, GoTo
  <2>3. QED
    BY <1>4, <2>1, <2>2 DEF Executing
<1>7. CASE ReadAdvanced(w)
  <2>1. /\ pc[w] = "advanced" /\ pc'[w] = "saveReconcile"
        /\ mine'[w] = [mine[w] EXCEPT !.phase = "reconcile", !.next = simTick]
        /\ UNCHANGED <<job, simTick, call, advances>> /\ mine[w] \in JobRecords
    BY <1>1, <1>7 DEF ReadAdvanced, durable, GoTo, Keep, Executing
  <2>2. /\ mine'[w].status = mine[w].status /\ mine'[w].batch = mine[w].batch
        /\ mine'[w].total = mine[w].total /\ mine'[w].done = mine[w].done
        /\ mine'[w].records = mine[w].records
    BY <2>1 DEF JobRecords
  <2>3. QED
    BY <1>4, <2>1, <2>2 DEF Executing
<1>8. CASE BuildToReconcile(w) \/ Reconcile(w)
  <2>1. /\ pc[w] \in {"build", "reconcile"} /\ pc'[w] \in {"reconcile", "complete"}
        /\ UNCHANGED <<job, simTick, advances, call, mine>>
    BY <1>1, <1>8 DEF BuildToReconcile, Reconcile, durable, GoTo
  <2>2. job.batch # None => job.phase = "reconcile"
    BY <1>2, <2>1 DEF BatchOf
  <2>3. QED
    BY <1>4, <2>1, <2>2 DEF Executing
<1>9. CASE ReadCompleted(w)
  <2>1. /\ pc[w] = "complete" /\ pc'[w] = "saveCompleted"
        /\ mine'[w] = CompletedState(mine[w], call[w].id)
        /\ UNCHANGED <<job, simTick, advances, call>> /\ mine[w] \in JobRecords
    BY <1>1, <1>9 DEF ReadCompleted, durable, GoTo, Keep, Executing
  <2>2. /\ mine'[w].active = None /\ mine'[w].lastDone = call[w].id
        /\ mine'[w].batch = mine[w].batch /\ mine'[w].total = mine[w].total
        /\ mine'[w].done = mine[w].done /\ mine'[w].records = mine[w].records
    BY <2>1 DEF JobRecords, CompletedState
  <2>3. job.batch # None => job.phase = "reconcile"
    BY <1>2, <2>1 DEF BatchOf
  <2>4. QED
    BY <1>4, <2>1, <2>2, <2>3 DEF Executing
<1>10. QED
  BY <1>3, <1>5, <1>6, <1>7, <1>8, <1>9

LEMMA BatchNext ==
    ASSUME OneWorker PROVE JobOK /\ TrackInv /\ BatchInv /\ [Next]_vars => BatchInv'
<1>1. SUFFICES ASSUME JobOK, TrackInv, BatchInv, [Next]_vars PROVE BatchInv'
  OBVIOUS
<1>2. CASE UNCHANGED vars
  <2>1. UNCHANGED <<job, simTick, advances, pc, call, mine>> /\ SameJob /\ SameBatch
    BY <1>2 DEF vars, durable, local, SameJob, SameBatch
  <2>2. BatchAdvancesExactly' /\ Apart' /\ InOrder' /\ Counted'
    BY <1>1, <2>1, BatchKept DEF BatchInv
  <2>3. \A w \in Workers : BatchOf(w)'
    BY <1>1, <2>1 DEF BatchInv, BatchOf, ThisChild
  <2>4. QED
    BY <2>2, <2>3 DEF BatchInv
<1>3. ASSUME NEW w \in Workers,
             \/ \E t \in Triggers, r \in BOOLEAN : RunTick(w, t, r)
             \/ \E b \in Batches, n \in Sizes, r \in BOOLEAN : RunTrigger(w, b, n, r)
             \/ \E op \in Controls : ControlRead(w, op)
             \/ Step(w) \/ StepFails(w) \/ Crash(w)
      PROVE  BatchInv'
  <2>1. Workers = {w}
    BY DEF OneWorker
  <2>2. CASE \/ \E t \in Triggers, r \in BOOLEAN : RunTick(w, t, r)
             \/ \E b \in Batches, n \in Sizes, r \in BOOLEAN : RunTrigger(w, b, n, r)
             \/ ClaimTickDone(w) \/ ClaimTickRefused(w) \/ FlushDomain(w) \/ Crash(w)
             \/ ClaimSameBatch(w) \/ ClaimBatchRefused(w) \/ NextChild(w) \/ StepFails(w)
    BY <1>1, <2>1, <2>2, BystanderBatch
  <2>3. CASE \/ \E op \in Controls : ControlRead(w, op)
             \/ SetStatus(w) \/ SetConfig(w) \/ FailRead(w) \/ FailWrite(w)
    BY <1>1, <2>1, <2>3, ControlBatch
  <2>4. CASE ClaimNewBatch(w) \/ SaveBatchProgress(w) \/ FinalizeBatch(w)
    BY <1>1, <2>1, <2>4, NewBatch, ProgressBatch, FinishBatch
  <2>5. CASE ClaimTick(w) \/ (ExecuteTick(w) /\ ~FlushDomain(w))
    BY <1>1, <2>1, <2>5, SaveBatch, ExecuteBatch, AdvanceBatch DEF ExecuteTick
  <2>6. QED
    BY <1>3, <2>2, <2>3, <2>4, <2>5 DEF Step, Claim
<1>4. QED
  BY <1>1, <1>2, <1>3 DEF Next, Reliable

\* A batch advances the simulation by exactly its number of ticks and each of its
\* children once (run_trigger, _claim_batch, _save_batch_progress and
\* _finalize_batch): for one worker at a time, any batches and sizes, every
\* control operation, and any number of crashes, failing steps and recoveries.
THEOREM BatchesExact == ASSUME OneWorker PROVE Spec => []BatchAdvancesExactly
<1>1. JobOK /\ TrackInv /\ BatchInv /\ [Next]_vars => BatchInv'
  BY BatchNext
<1>2. BatchInv => BatchAdvancesExactly
  BY DEF BatchInv
<1>3. Spec => [](JobOK /\ (Exclusive => HoldInv) /\ TrackInv)
  BY TrackInvariant DEF Undisturbed
<1>4. QED
  BY <1>1, <1>2, <1>3, BatchInit, PTL DEF Spec

=============================================================================
