----------------------------- MODULE CreditLoans -----------------------------
(* The credit and loans domain (sose/examples/credit_loans). *)
EXTENDS ProcessRuntime, Integers, TLC, FiniteSetsExt

LoanApplicationChart ==
    {<<"submitted", "start_analysis", "under_analysis">>,
     <<"under_analysis", "approve", "approved">>, <<"under_analysis", "reject", "rejected">>}

CreditDecisionChart ==
    {<<"pending", "approve", "approved">>, <<"pending", "reject", "rejected">>}

LoanChart ==
    {<<"approved", "disburse", "disbursed">>, <<"disbursed", "activate", "servicing">>,
     <<"servicing", "mark_delinquent", "delinquent">>, <<"delinquent", "cure", "servicing">>,
     <<"delinquent", "begin_restructure", "restructuring">>,
     <<"restructuring", "resume_servicing", "servicing">>,
     <<"servicing", "pay_off", "paid_off">>, <<"delinquent", "pay_off", "paid_off">>,
     <<"delinquent", "default", "defaulted">>}

InstallmentChart ==
    {<<"scheduled", "make_due", "due">>, <<"scheduled", "restructure", "restructured">>}
    \cup {<<s, "record_partial", "partially_paid">> : s \in {"due", "overdue"}}
    \cup {<<s, "miss", "overdue">> : s \in {"due", "partially_paid"}}
    \cup UNION {{<<s, "complete", "paid">>, <<s, "restructure", "restructured">>} :
                  s \in {"due", "partially_paid", "overdue"}}

PaymentChart == {<<"initiated", "post", "posted">>, <<"initiated", "fail", "failed">>}

DelinquencyCaseChart ==
    {<<"opened", "begin_collection", "collection">>, <<"collection", "default", "defaulted">>}
    \cup UNION {{<<s, "cure", "cured">>, <<s, "restructure", "restructured">>} :
                  s \in {"opened", "collection"}}

CollectionCaseChart ==
    {<<"opened", "assign", "assigned">>, <<"assigned", "contact", "contacted">>,
     <<"contacted", "promise", "promised">>,
     <<"contacted", "escalate", "escalated">>, <<"promised", "escalate", "escalated">>}
    \cup {<<s, "resolve", "resolved">> : s \in {"contacted", "promised", "escalated"}}

RestructureChart ==
    {<<"proposed", "accept", "accepted">>, <<"proposed", "reject", "rejected">>,
     <<"accepted", "apply", "applied">>}

\* The installments in their order (a bound on installment_count), and the
\* replacement that a restructure creates.
Ordinals == <<"i1">>
Scheduled == {Ordinals[n] : n \in DOMAIN Ordinals}
Installments == Scheduled \cup {"r"}
\* The payments of an installment, by ordinal.
FirstPayment == [i1 |-> "p1"]
Payments == [p1 |-> "i1", p1b |-> "i1"]
Delinquency == [i \in Scheduled |-> "delinquency " \o i]
Collection == [i \in Scheduled |-> "collection " \o i]

Chart == [application |-> LoanApplicationChart, decision |-> CreditDecisionChart,
          loan |-> LoanChart, restructure |-> RestructureChart]
         @@ [d \in {Delinquency[i] : i \in Scheduled} |-> DelinquencyCaseChart]
         @@ [c \in {Collection[i] : i \in Scheduled} |-> CollectionCaseChart]
         @@ [i \in Installments |-> InstallmentChart]
         @@ [p \in DOMAIN Payments |-> PaymentChart]

On(e, event, next) == Dispatch(Chart, e, event, next)

Base == 2                        \* the amount of an installment
Principal == Base * Len(Ordinals)

\* data: amounts due and paid per installment, the loan's balance, payments'
\* amounts and those applied, the restructure's link to its replacement; the
\* installment and payment of the current call, and whether it promises.  A
\* behaviour has one kind of operator intervention.
Init == \E operator \in {"payments", "collection", "restructure"} :
    Start([e \in DOMAIN Chart |-> IF e = "application" THEN "submitted" ELSE "absent"],
          [amount |-> [i \in Installments |-> Base], paid |-> [i \in Installments |-> 0],
           balance |-> Principal, sum |-> [p \in DOMAIN Payments |-> 0], applied |-> {},
           linked |-> FALSE, item |-> Ordinals[1], payment |-> "p1", tick |-> FALSE,
           promise |-> FALSE, operator |-> operator],
          {})

Remaining(i) == data.amount[i] - data.paid[i]
Payable == {"due", "partially_paid", "overdue"}
Undecided == state.application \in {"submitted", "under_analysis"}

\* The decision first, then the application; the analyst is withdrawn after
\* both, by this call only.
ReconcileUnderwriting ==
    \/ /\ Call /\ Undecided
       /\ \/ Disturbed /\ Withdraw("credit_analyst", "idle")
          \/ EnsureRequested("credit_analyst", "analyse", "idle")
    \/ pc = "analyse" /\ On("application", "start_analysis", "decision")
    \/ /\ pc = "decision"
       /\ IF state.decision = "absent" THEN Create("decision", "pending", "decide")
          ELSE Skip("decide")

DispatchUnderwritingDecisions ==
    \/ pc = "decide" /\ On("decision", "approve", "approve")
    \/ pc = "decide" /\ Disturbed /\ On("decision", "reject", "reject")
    \/ pc = "approve" /\ On("application", "approve", "withdrawAnalyst")
    \/ pc = "reject" /\ On("application", "reject", "withdrawAnalyst")
    \/ pc = "withdrawAnalyst" /\ Withdraw("credit_analyst", "idle")

\* A loan needs both approvals; after a crash between them that disagree with
\* the next call's, none is made.
EnsureLoan ==
    /\ Call /\ state.application = "approved"
    /\ \/ /\ state.loan = "absent" /\ state.decision = "approved"
          /\ Create("loan", "approved", "disburse")
       \/ state.loan \in {"approved", "disbursed"} /\ Skip("disburse")

\* Once the loan is in servicing the tick does not come back here.
DisburseAndSchedule ==
    \/ EnsureLoan
    \/ pc = "disburse" /\ On("loan", "disburse", "activate")
    \/ pc = "activate" /\ On("loan", "activate", "plan i1")
    \/ \E n \in DOMAIN Ordinals :
          LET i == Ordinals[n]
              next == IF n = Len(Ordinals) THEN "idle" ELSE "plan " \o Ordinals[n + 1]
          IN  \/ pc = "plan " \o i /\ Create(i, "scheduled", "schedule " \o i)
              \/ pc = "schedule " \o i /\ Schedule(<<<<i, "make_due">>>>, next)

\* The tick acts on the first installment that is due or overdue.
Serves(i) ==
    /\ Call /\ ~Undecided /\ state.loan \notin {"absent", "approved", "disbursed"}
    /\ \E n \in DOMAIN Ordinals :
          /\ Ordinals[n] = i
          /\ \A m \in 1..(n - 1) : state[Ordinals[m]] \notin Payable
    /\ state[i] \in Payable

ProcessDueInstallment ==
    \E i \in Scheduled :
      /\ Serves(i) /\ state[i] # "overdue"
      /\ \/ /\ Remaining(i) > 0
            /\ Record([data EXCEPT !.item = i, !.tick = FALSE,
                                   !.payment = FirstPayment[i]], "pay")
         \/ /\ Disturbed /\ ~Pending(i, "miss")
            /\ Schedule(<<<<i, "miss">>>>, "idle")

\* Collection, then the payment and the cure of the delinquency.
ProcessOverdueInstallment ==
    \/ \E i \in Scheduled :
          /\ Serves(i) /\ state[i] = "overdue"
          /\ Record([data EXCEPT !.item = i, !.tick = TRUE, !.promise = FALSE,
                                 !.payment = FirstPayment[i]], "delinquency")
    \/ /\ pc = "collected"
       /\ \/ (Disturbed \/ ~data.tick) /\ Skip("idle")
          \/ data.tick /\ Skip(IF Remaining(data.item) > 0 THEN "pay" ELSE "cure")

\* A payment is recorded with its amount; a recorded one is posted again with
\* the same amount only.
InitiatePayment(amount) ==
    LET p == data.payment i == data.item IN
    \/ /\ state[p] = "absent" /\ state[i] \in Payable /\ amount <= Remaining(i)
       /\ state' = [state EXCEPT ![p] = "initiated"]
       /\ data' = [data EXCEPT !.sum[p] = amount]
       /\ Goto("post")
       /\ UNCHANGED <<work, requests>>
    \/ /\ state[p] # "absent"
       /\ Skip(IF data.sum[p] = amount /\ (state[p] = "initiated" => state[i] \in Payable)
               THEN "post" ELSE "idle")

\* The tick pays what remains; the operator pays a part, or repeats a payment.
EnsurePostedPayment ==
    \/ /\ Call /\ Disturbed /\ data.operator # "collection"
       /\ \E p \in DOMAIN Payments :
             /\ \/ state[p] # "absent" /\ p \notin data.applied
                \/ /\ data.operator = "payments" /\ state[p] = "absent"
                   /\ state[Payments[p]] \in Payable /\ Remaining(Payments[p]) > 0
             /\ Record([data EXCEPT !.item = Payments[p], !.payment = p, !.tick = FALSE],
                       "payPart")
    \/ pc = "pay" /\ InitiatePayment(Remaining(data.item))
    \/ /\ pc = "payPart"
       /\ InitiatePayment(IF state[data.payment] = "absent" THEN 1 ELSE data.sum[data.payment])
    \/ pc = "post" /\ On(data.payment, "post", "apply")

\* The installment, the loan and a linked replacement in one transaction.
ApplyPaymentToBalances ==
    LET p == data.payment i == data.item
        less(a) == IF a > data.sum[p] THEN a - data.sum[p] ELSE 0
    IN
    /\ pc = "apply"
    /\ IF p \in data.applied THEN Skip("progress")
       ELSE Record([data EXCEPT !.paid[i] = @ + data.sum[p],
                                !.balance = less(@),
                                !.applied = @ \cup {p},
                                !.amount.r = IF state[i] = "restructured" /\ data.linked
                                             THEN less(@) ELSE @], "progress")

DispatchInstallmentPaymentProgress ==
    LET i == data.item IN
    \/ /\ pc = "progress" /\ Remaining(i) <= 0
       /\ IF state[i] \in Payable THEN On(i, "complete", "cancelMiss") ELSE Skip("cancelMiss")
    \/ /\ pc = "progress" /\ Remaining(i) > 0
       /\ IF state[i] \in {"due", "overdue"} THEN On(i, "record_partial", "payoff")
          ELSE Skip("payoff")
    \/ pc = "cancelMiss" /\ CancelPending(i, "miss", "payoff")

DispatchLoanPayoffIfEligible ==
    LET next == IF data.tick THEN "cure" ELSE "idle" IN
    /\ pc = "payoff"
    /\ IF data.balance = 0 /\ state.loan \in {"servicing", "delinquent"}
       THEN On("loan", "pay_off", next) ELSE Skip(next)

PostPayment ==
    \/ EnsurePostedPayment \/ ApplyPaymentToBalances
    \/ DispatchInstallmentPaymentProgress \/ DispatchLoanPayoffIfEligible

EnsureDelinquency ==
    \/ /\ pc = "delinquency"
       /\ IF state[Delinquency[data.item]] = "absent"
          THEN Create(Delinquency[data.item], "opened", "delinquent") ELSE Skip("delinquent")
    \/ pc = "delinquent" /\ On("loan", "mark_delinquent", "case")

\* A demand of the agent outlives the overdue installment when the tick pays
\* it in the same call.
ReconcileCollection ==
    LET d == Delinquency[data.item] c == Collection[data.item] IN
    \/ /\ Call /\ Disturbed /\ data.operator = "collection"
       /\ \E i \in Scheduled : state[i] = "overdue"
             /\ Record([data EXCEPT !.item = i, !.tick = FALSE, !.promise = TRUE], "delinquency")
    \/ EnsureDelinquency
    \/ pc = "case" /\ IF state[c] = "absent" THEN Create(c, "opened", "agent") ELSE Skip("agent")
    \/ pc = "agent" /\ Disturbed /\ Withdraw("agent", "collected")
    \/ pc = "agent" /\ EnsureRequested("agent", "begin", "collected")
    \/ pc = "begin" /\ On(d, "begin_collection", "assign")
    \/ pc = "assign" /\ On(c, "assign", "contact")
    \/ pc = "contact" /\ On(c, "contact", "promise")
    \/ /\ pc = "promise"
       /\ IF data.promise /\ state[c] = "contacted" THEN On(c, "promise", "followup")
          ELSE Skip("release")
    \/ pc = "followup" /\ Schedule(<<<<c, "escalate">>>>, "release")
    \/ pc = "release" /\ Withdraw("agent", "collected")

\* Raises for an installment that is not paid.
CureDelinquency ==
    LET d == Delinquency[data.item] c == Collection[data.item] IN
    \/ /\ pc = "cure"
       /\ IF state[data.item] # "paid" THEN Skip("idle") ELSE On(d, "cure", "resolve")
    \/ /\ pc = "resolve"
       /\ IF state[c] \in {"contacted", "promised", "escalated"}
          THEN On(c, "resolve", "unescalate") ELSE Skip("cured")
    \/ pc = "unescalate" /\ CancelPending(c, "escalate", "cured")
    \/ /\ pc = "cured"
       /\ IF \E i \in Scheduled : state[Delinquency[i]] \in {"opened", "collection"} THEN Skip("idle")
          ELSE On("loan", "cure", "idle")

\* An overdue installment's loan; repeated after an interruption.
EnsureRestructureRecord ==
    \/ /\ Call /\ Disturbed /\ data.operator = "restructure"
       /\ \E i \in Scheduled :
             /\ state[Delinquency[i]] # "absent"
             /\ \/ state.loan \in {"delinquent", "restructuring"}
                \/ state.loan = "servicing" /\ state.restructure # "absent"
             /\ Record([data EXCEPT !.item = i], "propose")
    \/ /\ pc = "propose"
       /\ IF state.restructure = "absent" THEN Create("restructure", "proposed", "accept")
          ELSE Skip("accept")
    \/ pc = "accept" /\ On("restructure", "accept", "restructuring")
    \/ pc = "restructuring" /\ On("loan", "begin_restructure", "mark")

MarkInstallmentsRestructured ==
    \/ \E n \in DOMAIN Ordinals :
          LET i == Ordinals[n] IN
          \/ /\ pc = "mark" /\ state[i] \in Payable \cup {"scheduled"}
             /\ \A m \in 1..(n - 1) : state[Ordinals[m]] \notin Payable \cup {"scheduled"}
             /\ On(i, "restructure", "unschedule " \o i)
          \/ pc = "unschedule " \o i /\ CancelPending(i, "make_due", "unmiss " \o i)
          \/ pc = "unmiss " \o i /\ CancelPending(i, "miss", "mark")
    \/ /\ pc = "mark" /\ \A i \in Scheduled : state[i] \notin Payable \cup {"scheduled"}
       /\ On("restructure", "apply", "replace")

EnsureReplacementInstallment ==
    \/ /\ pc = "replace"
       /\ IF state.r # "absent" THEN Skip("link")
          ELSE /\ state' = [state EXCEPT !.r = "scheduled"]
               /\ data' = [data EXCEPT !.amount.r = data.balance]
               /\ Goto("link")
               /\ UNCHANGED <<work, requests>>
    \/ pc = "link" /\ Record([data EXCEPT !.linked = TRUE], "due")
    \/ /\ pc = "due"
       /\ IF state.r = "scheduled" /\ ~Pending("r", "make_due")
          THEN Schedule(<<<<"r", "make_due">>>>, "settle") ELSE Skip("settle")

ResolveRestructureCollection ==
    LET d == Delinquency[data.item] c == Collection[data.item] IN
    \/ pc = "settle" /\ On(d, "restructure", "settleCase")
    \/ /\ pc = "settleCase"
       /\ IF state[c] \in {"contacted", "promised", "escalated"}
          THEN On(c, "resolve", "settled") ELSE Skip("resume")
    \/ pc = "settled" /\ CancelPending(c, "escalate", "resume")

ApplyRestructure ==
    \/ EnsureRestructureRecord \/ MarkInstallmentsRestructured
    \/ EnsureReplacementInstallment \/ ResolveRestructureCollection
    \/ pc = "resume" /\ On("loan", "resume_servicing", "idle")

DefaultLoan ==
    \/ /\ Call /\ Disturbed
       /\ \E i \in Scheduled : state[Delinquency[i]] = "collection"
                                  /\ state[Collection[i]] = "escalated"
                                  /\ On(Delinquency[i], "default", "default")
    \/ pc = "default" /\ On("loan", "default", "idle")

ReconcileTick ==
    \/ ReconcileUnderwriting \/ DispatchUnderwritingDecisions \/ DisburseAndSchedule
    \/ ProcessDueInstallment \/ ProcessOverdueInstallment \/ PostPayment
    \/ ReconcileCollection \/ CureDelinquency \/ ApplyRestructure \/ DefaultLoan

\* The operator stepped in and has to go on: the tick would pay another amount
\* with the same ordinal, and does not visit the replacement installment.
Operated ==
    \/ data.sum.p1 = 1 \/ data.sum.p1b = 1 \/ state.restructure # "absent"
    \/ \E i \in Scheduled : state[Delinquency[i]] = "defaulted"

\* A crash left what the tick does not repeat.
CutOff ==
    \/ state.application = "approved" /\ state.decision = "rejected"
    \/ state.loan = "servicing" /\ \E i \in Scheduled :
          state[i] = "absent" \/ (state[i] = "scheduled" /\ ~Pending(i, "make_due"))
    \/ \E i \in Scheduled : state[i] \in Payable /\ Remaining(i) <= 0
    \/ data.balance = 0

Finished ==
    \/ state.application = "rejected"
    \/ state.loan \in {"paid_off", "defaulted"}
    \/ Operated
    \/ crashes > 0 /\ CutOff

-----------------------------------------------------------------------------
AppliedTo(these) ==
    MapThenSumSet(LAMBDA p : data.sum[p], {p \in data.applied : Payments[p] \in these})

\* Every payment counts once in the balances of the loan and of its
\* installment although its steps are cut off and repeated
\* (_apply_payment_to_balances); a loan exists only for an approved
\* application; a default needs an escalated collection; the replacement
\* installment is what the balance leaves (CL-01 to CL-10).
Causality ==
    /\ state.loan # "absent" => state.application = "approved" /\ state.decision = "approved"
    /\ data.balance = Max({0, Principal - AppliedTo(Installments)})
    /\ \A i \in Scheduled :
          /\ data.paid[i] = AppliedTo({i})
          /\ crashes = 0 => data.paid[i] <= data.amount[i]
          /\ state[i] = "paid" => Remaining(i) <= 0
          /\ state[Delinquency[i]] # "absent" =>
                state[i] \in {"overdue", "partially_paid", "paid", "restructured"}
    /\ state.loan = "defaulted" => \E i \in Scheduled :
          state[Delinquency[i]] = "defaulted" /\ state[Collection[i]] \in {"escalated", "resolved"}
    /\ data.linked /\ state.r # "paid" => data.amount.r = data.balance

\* A decided application leaves no analyst reserved (reconcile_underwriting).
CapacityReturned == Returned(~Undecided, {"credit_analyst"})
=============================================================================
