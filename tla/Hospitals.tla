----------------------------- MODULE Hospitals -----------------------------
(* The hospital domain (sose/examples/hospitals): patient flow and the       *)
(* preemptive procedure suite.                                               *)
EXTENDS ProcessRuntime

AdmissionChart ==
    {<<"admitted", "triage", "triaged">>, <<"triaged", "wait_bed", "waiting_bed">>,
     <<"waiting_bed", "allocate_bed", "bed_allocated">>,
     <<"bed_allocated", "start_treatment", "treatment">>,
     <<"bed_allocated", "deteriorate", "waiting_icu">>,
     <<"treatment", "deteriorate", "waiting_icu">>, <<"waiting_icu", "allocate_icu", "icu">>,
     <<"treatment", "ready_discharge", "discharge_ready">>,
     <<"icu", "ready_discharge", "discharge_ready">>,
     <<"discharge_ready", "discharge", "discharged">>,
     <<"triaged", "transfer", "transferred">>, <<"waiting_icu", "transfer", "transferred">>}

TreatmentEpisodeChart ==
    {<<"planned", "queue", "waiting_capacity">>, <<"waiting_capacity", "start", "in_progress">>,
     <<"in_progress", "interrupt", "interrupted">>, <<"interrupted", "resume", "in_progress">>,
     <<"in_progress", "complete", "completed">>}

Chart == [admission |-> AdmissionChart, normal |-> TreatmentEpisodeChart,
          emergency |-> TreatmentEpisodeChart]

On(e, event, next) == Dispatch(Chart, e, event, next)

\* data.queue: the admission's item of triage_queue; data.preempted: there is
\* a ResourcePreemptionResult (at most one emergency); data.operator: what is
\* called besides the tick.
Init ==
    \E operator \in {"none", "transfer", "icu", "procedure"} :
       Start([admission |-> "admitted", normal |-> "planned", emergency |-> "absent"],
             [queue |-> "none", preempted |-> FALSE, operator |-> operator], {})

TriageAndQueue ==
    \/ Call /\ state.admission = "admitted" /\ On("admission", "triage", "waitBed")
    \/ pc = "waitBed" /\ On("admission", "wait_bed", "enqueue")
    \/ pc = "enqueue" /\ Record([data EXCEPT !.queue = "queued"], "idle")

TransferBeforeQueue ==
    \/ /\ Call /\ data.operator = "transfer" /\ state.admission = "admitted"
       /\ On("admission", "triage", "transferNow")
    \/ /\ Call /\ data.operator = "transfer" /\ state.admission = "triaged" /\ Skip("transferNow")
    \/ pc = "transferNow" /\ On("admission", "transfer", "idle")

WardRequests == {"ward bed", "ward team"}
IcuRequests == {"icu bed", "icu team"}

\* Two requests; if one is refused the other one is given back, and the
\* refused demand goes on waiting.
Both(pair, granted) ==
    IF pair \subseteq held THEN Skip(granted)
    ELSE IF pair \cap held = {} THEN Skip("idle")
    ELSE \E r \in pair \cap held : Withdraw(r, "idle")

ClaimNextWardAdmission ==
    \/ /\ Call /\ state.admission = "waiting_bed"
       /\ EnsureRequested("ward bed", "wardTeam", "wardTeam")
    \/ pc = "wardTeam" /\ EnsureRequested("ward team", "ward", "ward")
    \/ pc = "ward" /\ Both(WardRequests, "select")
    \/ pc = "select" /\ data.queue = "none" /\ Withdraw("ward bed", "noPatient")
    \/ pc = "noPatient" /\ Withdraw("ward team", "idle")
    \/ pc = "select" /\ data.queue # "none" /\ Record([data EXCEPT !.queue = "taken"], "allocate")
    \/ pc = "allocate" /\ On("admission", "allocate_bed", "treat")
    \/ pc = "treat" /\ On("admission", "start_treatment", "idle")

ReleaseWardCapacity ==
    \/ pc = "freeBed" /\ Withdraw("ward bed", "freeTeam")
    \/ pc = "freeTeam" /\ Withdraw("ward team", "idle")

\* The tick discharges a treated patient whatever its episode is doing.
DischargeFromWard ==
    \/ Call /\ state.admission = "treatment" /\ On("admission", "ready_discharge", "discharge")
    \/ pc = "discharge" /\ On("admission", "discharge", "freeBed")

DeteriorateToIcuWait ==
    /\ Call /\ data.operator = "icu" /\ state.admission \in {"bed_allocated", "treatment"}
    /\ On("admission", "deteriorate", "freeBed")

ReconcileIcuAllocation ==
    \/ /\ Call /\ data.operator = "icu" /\ state.admission = "waiting_icu"
       /\ EnsureRequested("icu bed", "icuTeam", "icuTeam")
    \/ pc = "icuTeam" /\ EnsureRequested("icu team", "icu", "icu")
    \/ pc = "icu" /\ Both(IcuRequests, "allocateIcu")
    \/ pc = "allocateIcu" /\ On("admission", "allocate_icu", "idle")

DischargeFromIcu ==
    \/ /\ Call /\ data.operator = "icu" /\ state.admission = "icu"
       /\ On("admission", "ready_discharge", "leaveIcu")
    \/ pc = "leaveIcu" /\ On("admission", "discharge", "freeIcuBed")
    \/ pc = "freeIcuBed" /\ Withdraw("icu bed", "freeIcuTeam")
    \/ pc = "freeIcuTeam" /\ Withdraw("icu team", "idle")

TransferFromIcuWait ==
    \/ /\ Call /\ data.operator = "icu" /\ state.admission = "waiting_icu" /\ Disturbed
       /\ Withdraw("icu bed", "dropIcuTeam")
    \/ pc = "dropIcuTeam" /\ Withdraw("icu team", "transferNow")

UnderCare == state.admission \in {"treatment", "icu"}
Procedures == data.operator = "procedure" /\ pc = "idle"

ReconcileProcedureStart ==
    \/ /\ Procedures /\ UnderCare /\ state.normal = "planned"
       /\ On("normal", "queue", "suite")
    \/ Procedures /\ UnderCare /\ state.normal = "waiting_capacity" /\ Skip("suite")
    \/ pc = "suite" /\ EnsureRequested("suite normal", "startNormal", "idle")
    \/ pc = "startNormal" /\ On("normal", "start", "idle")

EnsureEmergencyEpisode ==
    /\ state.emergency = "absent"
    /\ Create("emergency", "planned", "queueEmergency")

\* The urgent request takes the suite in one commit with its evidence.
Preempt(next) ==
    /\ held' = (held \ {"suite normal"}) \cup {"suite emergency"}
    /\ data' = [data EXCEPT !.preempted = TRUE]
    /\ Goto(next)
    /\ UNCHANGED <<state, work, waiting>>

CommitEmergencyPreemption ==
    \/ /\ Procedures /\ Disturbed /\ state.normal = "in_progress"
       /\ IF "suite normal" \in held
          THEN /\ ~data.preempted
               /\ \/ EnsureEmergencyEpisode
                  \/ state.emergency # "absent" /\ Skip("queueEmergency")
          ELSE data.preempted /\ Skip("startEmergency")
    \/ pc = "queueEmergency" /\ UnderCare /\ On("emergency", "queue", "preempt")
    \/ pc = "queueEmergency" /\ ~UnderCare /\ Skip("idle")
    \/ pc = "preempt" /\ Preempt("startEmergency")
    \/ pc = "startEmergency" /\ On("emergency", "start", "interrupt")

ReconcilePreemptionBusiness ==
    /\ pc = "interrupt"
    /\ IF data.preempted /\ "suite normal" \notin held
       THEN On("normal", "interrupt", "idle") ELSE Skip("idle")

CompleteEmergencyAndResume ==
    \/ /\ Procedures /\ state.emergency # "absent"
       /\ IF state.normal = "interrupted" THEN Skip("emergency")
          ELSE /\ state.normal = "in_progress" /\ data.preempted /\ "suite normal" \notin held
               /\ On("normal", "interrupt", "emergency")
    \/ /\ pc = "emergency"
       /\ IF "suite emergency" \in held THEN On("emergency", "start", "completeEmergency")
          ELSE Skip("completeEmergency")
    \/ pc = "completeEmergency" /\ On("emergency", "complete", "emergencyDone")
    \/ /\ pc = "emergencyDone"
       /\ IF state.emergency = "completed" THEN Withdraw("suite emergency", "reacquire")
          ELSE Skip("idle")
    \/ pc = "reacquire" /\ EnsureRequested("suite normal", "resume", "idle")
    \/ pc = "resume" /\ On("normal", "resume", "idle")

CompleteProcedure ==
    \/ /\ Procedures /\ state.normal = "in_progress" /\ "suite normal" \in held
       /\ On("normal", "complete", "freeSuite")
    \/ pc = "freeSuite" /\ Withdraw("suite normal", "idle")

ReconcileTick ==
    \/ TriageAndQueue \/ TransferBeforeQueue \/ ClaimNextWardAdmission \/ ReleaseWardCapacity
    \/ DischargeFromWard \/ DeteriorateToIcuWait \/ ReconcileIcuAllocation \/ DischargeFromIcu
    \/ TransferFromIcuWait \/ ReconcileProcedureStart \/ CommitEmergencyPreemption
    \/ ReconcilePreemptionBusiness \/ CompleteEmergencyAndResume \/ CompleteProcedure

\* States between two dispatches of one call, which no later call leaves, and
\* an admission that waits for a bed but was never queued.
CutOff ==
    \/ state.admission \in {"triaged", "bed_allocated", "discharge_ready"}
    \/ state.admission = "waiting_bed" /\ data.queue = "none"

Finished ==
    \/ /\ state.admission \in {"discharged", "transferred"}
       /\ state.normal \in {"planned", "waiting_capacity", "completed"}
    \/ crashes > 0 /\ CutOff

-----------------------------------------------------------------------------
\* An admitted patient has the bed and the team and left the queue, a patient
\* in intensive care its own; an interrupted procedure was preempted by the
\* emergency, and one suite is never held by both (HOSP-01 to HOSP-09).
Causality ==
    /\ crashes = 0 /\ state.admission \in {"bed_allocated", "treatment"} =>
          WardRequests \subseteq held \/ pc = "freeTeam"
    /\ state.admission \in {"bed_allocated", "treatment"} => data.queue = "taken"
    /\ state.admission = "icu" => IcuRequests \subseteq held
    /\ state.normal = "interrupted" => data.preempted
    /\ state.normal = "in_progress" => "suite normal" \in held \/ data.preempted
    /\ ~({"suite normal", "suite emergency"} \subseteq held)
    /\ state.emergency \in {"in_progress", "completed"} => data.preempted

\* A discharged or transferred patient leaves neither ward nor intensive-care
\* capacity reserved (discharge_from_icu, transfer).
CapacityReturned ==
    Returned(state.admission \in {"discharged", "transferred"}, WardRequests \cup IcuRequests)
=============================================================================
