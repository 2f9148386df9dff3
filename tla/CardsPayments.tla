--------------------------- MODULE CardsPayments ---------------------------
(* The cards and payments domain (sose/examples/cards_payments). *)
EXTENDS ProcessRuntime

PaymentChart ==
    {<<"authorization_requested", "authorize", "authorized">>,
     <<"authorization_requested", "decline", "declined">>, <<"authorized", "capture", "captured">>,
     <<"authorized", "reverse", "reversed">>, <<"captured", "settlement_due", "settlement_pending">>,
     <<"settlement_pending", "settle", "settled">>,
     <<"settlement_pending", "wait_retry", "settlement_retry_wait">>,
     <<"settlement_retry_wait", "retry_settlement", "settlement_pending">>,
     <<"settled", "refund", "refunded">>}

DisputeChart ==
    {<<"opened", "request_evidence", "evidence_requested">>,
     <<"evidence_requested", "submit_evidence", "under_review">>,
     <<"under_review", "issue_chargeback", "chargeback">>,
     <<"chargeback", "resolve_merchant", "merchant_won">>,
     <<"chargeback", "resolve_cardholder", "cardholder_won">>}

Chart == [payment |-> PaymentChart, dispute |-> DisputeChart]
On(e, event, next) == Dispatch(Chart, e, event, next)

\* data: the payment was settled at some time.
Init == Start([payment |-> "authorization_requested", dispute |-> "absent"], FALSE, {})

\* An unavailable processor leaves the demand of an earlier call where it is.
ReconcileAuthorization ==
    \/ /\ Call /\ state.payment = "authorization_requested"
       /\ EnsureRequested("authorization", "authorize", "idle")
    \/ pc = "authorize" /\ On("payment", "authorize", "authorized")
    \/ pc = "authorize" /\ Disturbed /\ On("payment", "decline", "authorized")
    \/ pc = "authorized" /\ Withdraw("authorization", "idle")

ReconcileReversal ==
    Call /\ Disturbed /\ state.payment = "authorized" /\ On("payment", "reverse", "idle")

ReconcileCaptureAndScheduleSettlement ==
    \/ Call /\ state.payment = "authorized" /\ On("payment", "capture", "settlementDue")
    \/ pc = "settlementDue" /\ Schedule(<<<<"payment", "settlement_due">>>>, "idle")

ReconcileSettlement ==
    \/ /\ Call /\ state.payment = "settlement_pending"
       /\ EnsureRequested("settlement", "settle", "idle")
    \/ /\ pc = "settle"
       /\ state' = [state EXCEPT !.payment = Moved(PaymentChart, @, "settle")]
       /\ data' = TRUE
       /\ Goto("settled")
       /\ UNCHANGED <<work, requests>>
    \/ pc = "settle" /\ Disturbed /\ On("payment", "wait_retry", "retryAt")
    \/ pc = "retryAt" /\ Schedule(<<<<"payment", "retry_settlement">>>>, "settled")
    \/ pc = "settled" /\ Withdraw("settlement", "idle")

ReconcileRefund ==
    \/ Call /\ Disturbed /\ state.payment = "settled" /\ EnsureRequested("refund", "refund", "idle")
    \/ pc = "refund" /\ On("payment", "refund", "refunded")
    \/ pc = "refunded" /\ Withdraw("refund", "idle")

\* A dispute that is already past `opened` makes the call raise.
StartDispute ==
    \/ /\ Call /\ Disturbed /\ state.payment = "settled" /\ state.dispute = "absent"
       /\ Create("dispute", "opened", "requestEvidence")
    \/ Call /\ state.dispute = "opened" /\ Skip("requestEvidence")
    \/ pc = "requestEvidence" /\ On("dispute", "request_evidence", "evidenceAt")
    \/ pc = "evidenceAt" /\ Schedule(<<<<"dispute", "submit_evidence">>>>, "idle")

ReconcileDispute ==
    \/ Call /\ state.dispute = "under_review" /\ EnsureRequested("analyst", "chargeback", "idle")
    \/ pc = "chargeback" /\ On("dispute", "issue_chargeback", "resolve")
    \/ \E event \in {"resolve_merchant", "resolve_cardholder"} :
          pc = "resolve" /\ On("dispute", event, "resolved")
    \/ pc = "resolved" /\ Withdraw("analyst", "idle")

ReconcileTick ==
    \/ ReconcileAuthorization \/ ReconcileReversal \/ ReconcileCaptureAndScheduleSettlement
    \/ ReconcileSettlement \/ ReconcileRefund \/ StartDispute \/ ReconcileDispute

\* A crash between a transition and the work it should have scheduled.
CutOff ==
    \/ state.payment \in {"captured", "settlement_retry_wait"} /\ work = {}
    \/ state.dispute = "evidence_requested" /\ work = {}
    \/ state.dispute = "chargeback"

Finished ==
    \/ /\ state.payment \in {"settled", "declined", "reversed", "refunded"}
       /\ state.dispute \in {"absent", "merchant_won", "cardholder_won"}
    \/ crashes > 0 /\ CutOff

-----------------------------------------------------------------------------
\* Settled means that settlement was recorded, and only a settled payment is
\* disputed or refunded; nothing is scheduled for a payment that left the
\* settlement; a dispute is resolved by an analyst (PAY-01 to PAY-09).
Causality ==
    /\ state.payment \in {"settled", "refunded"} => data
    /\ state.dispute # "absent" => data
    /\ data => state.payment \in {"settled", "refunded"}
    /\ \A event \in {"settlement_due", "retry_settlement"} : Pending("payment", event) =>
          state.payment \in {"captured", "settlement_retry_wait"}
    /\ pc = "resolve" => "analyst" \in held

\* A payment that ended leaves no processor reserved, and the analyst only
\* with a dispute under review (reconcile_settlement, reconcile_dispute).
CapacityReturned ==
    Returned(state.payment \in {"settled", "declined", "reversed"},
             {"authorization", "settlement", "analyst"} \ (IF state.dispute = "under_review"
                                                          THEN {"analyst"} ELSE {}))
=============================================================================
