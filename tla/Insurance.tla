----------------------------- MODULE Insurance -----------------------------
(* The insurance claims domain (sose/examples/insurance). *)
EXTENDS ProcessRuntime, TLC

ClaimChart ==
    {<<"opened", "request_documents", "pending_documents">>,
     <<"reopened", "request_documents", "pending_documents">>,
     <<"pending_documents", "documents_ready", "ready_for_assessment">>,
     <<"ready_for_assessment", "start_assessment", "assessing">>,
     <<"reopened", "start_assessment", "assessing">>,
     <<"assessing", "flag_fraud", "fraud_review">>,
     <<"fraud_review", "clear_fraud", "ready_for_assessment">>,
     <<"assessing", "approve", "approved">>, <<"assessing", "reject", "rejected">>,
     <<"fraud_review", "reject", "rejected">>,
     <<"approved", "schedule_payment", "payment_scheduled">>,
     <<"payment_scheduled", "record_payment", "paid">>, <<"rejected", "reopen", "reopened">>}

DocumentRequestChart ==
    {<<"open", "satisfy", "satisfied">>, <<"open", "expire", "expired">>}

AssessmentChart ==
    {<<"pending", "start", "in_progress">>, <<"in_progress", "approve", "approved">>,
     <<"in_progress", "reject", "rejected">>, <<"in_progress", "flag_fraud", "fraud_flagged">>}

ReserveChart ==
    {<<"proposed", "establish", "established">>, <<"established", "release", "released">>}

PaymentChart ==
    {<<"planned", "schedule", "scheduled">>, <<"scheduled", "make_due", "due">>,
     <<"due", "record_partial", "partially_paid">>, <<"due", "complete", "paid">>,
     <<"partially_paid", "complete", "paid">>}

FraudInvestigationChart ==
    {<<"opened", "assign", "assigned">>, <<"assigned", "clear", "cleared">>,
     <<"assigned", "confirm", "confirmed">>}

\* The ordinal names an assessment: the tick uses 1, an operator 2.
Ordinals == {"1", "2"}
Assessment(n) == "assessment" \o n
Chart == [claim |-> ClaimChart, request |-> DocumentRequestChart,
          assessment1 |-> AssessmentChart, assessment2 |-> AssessmentChart,
          reserve |-> ReserveChart, payment |-> PaymentChart,
          investigation |-> FraudInvestigationChart]

On(e, event, next) == Dispatch(Chart, e, event, next)

\* data: the ordinal of this call, the claim's queue items, the selections
\* taken from the queue, and what is paid.
Init ==
    Start([claim |-> "opened", request |-> "absent", assessment1 |-> "absent",
           assessment2 |-> "absent", reserve |-> "absent", payment |-> "absent",
           investigation |-> "absent"],
          [n |-> "1", queue |-> {}, selected |-> {}, paid |-> "nothing"], {})

\* A claim that is reopened after its request was answered stays reopened.
EnsureDocumentRequest ==
    \/ /\ Call /\ state.claim \in {"opened", "reopened"}
       /\ IF state.request = "absent" THEN On("claim", "request_documents", "newRequest")
          ELSE Skip("deadline")
    \/ pc = "newRequest" /\ Create("request", "open", "deadline")
    \/ /\ pc = "deadline"
       /\ IF state.request = "open" /\ ~Pending("request", "expire")
          THEN Schedule(<<<<"request", "expire">>>>, "idle") ELSE Skip("idle")

SatisfyDocuments ==
    \/ /\ Call /\ state.claim = "pending_documents" /\ state.request = "open"
       /\ On("request", "satisfy", "cancelExpiry")
    \/ pc = "cancelExpiry" /\ CancelPending("request", "expire", "documentsReady")
    \/ pc = "documentsReady" /\ On("claim", "documents_ready", "idle")

QueueClaim ==
    \E n \in Ordinals :
       /\ Call
       /\ \/ n = "1" /\ state.claim = "ready_for_assessment"
          \/ /\ n = "2" /\ Disturbed /\ state.assessment1 \in {"rejected", "fraud_flagged"}
             /\ state.claim \in {"ready_for_assessment", "reopened"}
       /\ Record([data EXCEPT !.n = n,
                     !.queue = IF n \in data.selected THEN @ ELSE @ \cup {n}], "adjuster")

ClaimNextForAssessment ==
    \/ pc = "adjuster" /\ Disturbed /\ Withdraw("adjuster", "idle")
    \/ pc = "adjuster" /\ EnsureRequested("adjuster", "select", "idle")
    \/ /\ pc = "select"
       /\ Record([data EXCEPT !.queue = @ \ {data.n}, !.selected = @ \cup {data.n}],
                 "startAssessment")
    \/ pc = "startAssessment" /\ On("claim", "start_assessment", "newAssessment")
    \/ /\ pc = "newAssessment"
       /\ IF state[Assessment(data.n)] = "absent"
          THEN Create(Assessment(data.n), "pending", "begin") ELSE Skip("begin")
    \/ pc = "begin" /\ On(Assessment(data.n), "start", "idle")

\* The tick completes assessment 1 only while it is in progress.
CompleteAssessment ==
    \/ /\ Call /\ state.claim = "assessing"
       /\ \E n \in Ordinals, outcome \in {"approve", "reject", "flag_fraud"} :
             /\ n = "2" => Disturbed
             /\ outcome # "approve" => Disturbed
             /\ state[Assessment(n)] = "in_progress"
             /\ On(Assessment(n), outcome, "claim " \o outcome)
    \/ \E outcome \in {"approve", "reject", "flag_fraud"} :
          pc = "claim " \o outcome /\ On("claim", outcome, "freeAdjuster")
    \/ pc = "freeAdjuster" /\ Withdraw("adjuster", "idle")

ReconcileFraud ==
    \/ /\ Call /\ state.claim = "fraud_review"
       /\ IF state.investigation = "absent" THEN Create("investigation", "opened", "investigator")
          ELSE Skip(IF state.investigation \in {"cleared", "confirmed"} THEN "verdict"
                    ELSE "investigator")
    \/ pc = "investigator" /\ EnsureRequested("investigator", "assign", "idle")
    \/ pc = "assign" /\ On("investigation", "assign", "decideFraud")
    \/ pc = "decideFraud" /\ On("investigation", "clear", "verdict")
    \/ pc = "decideFraud" /\ Disturbed /\ On("investigation", "confirm", "verdict")
    \/ /\ pc = "verdict"
       /\ On("claim", IF state.investigation = "confirmed" THEN "reject" ELSE "clear_fraud",
             "freeInvestigator")
    \/ pc = "freeInvestigator" /\ Withdraw("investigator", "idle")

EnsureReserve ==
    \/ /\ Call /\ state.claim = "approved"
       /\ IF state.reserve = "absent" THEN Create("reserve", "proposed", "establish")
          ELSE Skip("establish")
    \/ pc = "establish" /\ On("reserve", "establish", "newPayment")

SchedulePayment ==
    \/ /\ pc = "newPayment"
       /\ IF state.payment = "absent" THEN Create("payment", "planned", "plan") ELSE Skip("plan")
    \/ pc = "plan" /\ On("payment", "schedule", "claimScheduled")
    \/ pc = "claimScheduled" /\ On("claim", "schedule_payment", "dueDate")
    \/ /\ pc = "dueDate"
       /\ IF state.payment = "scheduled" /\ ~Pending("payment", "make_due")
          THEN Schedule(<<<<"payment", "make_due">>>>, "idle") ELSE Skip("idle")

ReconcilePayment ==
    \/ /\ Call /\ state.claim = "payment_scheduled"
       /\ \/ state.payment = "paid" /\ Withdraw("processor", "recordPayment")
          \/ /\ state.payment \in {"due", "partially_paid"}
             /\ \/ Disturbed /\ Withdraw("processor", "idle")
                \/ EnsureRequested("processor", "pay", "idle")
    \/ /\ pc = "pay" /\ state.payment = "due" /\ Disturbed
       /\ Record([data EXCEPT !.paid = "half"], "recordPartial")
    \/ pc = "recordPartial" /\ On("payment", "record_partial", "freeProcessor")
    \/ pc = "freeProcessor" /\ Withdraw("processor", "idle")
    \/ pc = "pay" /\ Record([data EXCEPT !.paid = "all"], "completePayment")
    \/ pc = "completePayment" /\ On("payment", "complete", "paymentDone")
    \/ pc = "paymentDone" /\ Withdraw("processor", "recordPayment")
    \/ pc = "recordPayment" /\ On("claim", "record_payment", "releaseReserve")
    \/ pc = "releaseReserve" /\ On("reserve", "release", "idle")

ReopenClaim ==
    /\ Call /\ Disturbed /\ state.claim = "rejected"
    /\ On("claim", "reopen", "idle")

ReconcileTick ==
    \/ EnsureDocumentRequest \/ SatisfyDocuments \/ QueueClaim \/ ClaimNextForAssessment
    \/ CompleteAssessment \/ ReconcileFraud \/ EnsureReserve \/ SchedulePayment
    \/ ReconcilePayment \/ ReopenClaim

\* Claims that no call of the tick moves any more although nothing crashed:
\* documents that expired, a reopened claim, and a claim whose assessment 1
\* was decided before the fraud review or the reopening (INS-08).
Unattended ==
    \/ state.claim = "pending_documents" /\ state.request = "expired"
    \/ state.claim = "reopened"
    \/ state.claim = "assessing" /\ state.assessment1 \in {"rejected", "fraud_flagged"}

\* A crash came between the two halves of a handover.
CutOff ==
    \/ state.claim = "pending_documents" /\ state.request # "open"
    \/ state.claim = "assessing" /\ state.assessment1 # "in_progress"
    \/ state.claim = "payment_scheduled" /\ state.payment = "scheduled"

Finished ==
    \/ state.claim \in {"paid", "rejected"} \/ Unattended
    \/ crashes > 0 /\ CutOff

-----------------------------------------------------------------------------
\* A claim is assessed only with its documents, reviewed for fraud only when
\* an assessment says so, approved only by an assessment, and paid from an
\* established reserve that is released only when all is paid (INS-01 to
\* INS-10).
Causality ==
    /\ state.claim \in {"ready_for_assessment", "assessing", "fraud_review", "approved",
                        "payment_scheduled", "paid"} => state.request = "satisfied"
    /\ \A n \in Ordinals : state[Assessment(n)] # "absent" => n \in data.selected
    /\ state.claim = "fraud_review" =>
          \E n \in Ordinals : state[Assessment(n)] = "fraud_flagged"
    /\ state.claim \in {"approved", "payment_scheduled", "paid"} =>
          \E n \in Ordinals : state[Assessment(n)] = "approved"
    /\ state.payment # "absent" => state.reserve \in {"established", "released"}
    /\ state.claim = "paid" => data.paid = "all"
    /\ state.reserve = "released" => state.claim = "paid"

\* A paid claim leaves no adjuster, investigator or processor reserved
\* (reconcile_payment).
CapacityReturned ==
    Returned(state.claim = "paid", {"adjuster", "investigator", "processor"})
=============================================================================
