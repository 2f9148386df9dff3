---------------------------- MODULE OrderToCash ----------------------------
(* The order-to-cash domain (sose/examples/order_to_cash). *)
EXTENDS ProcessRuntime

SalesOrderChart ==
    {<<"submitted", "approve_credit", "ordered">>,
     <<"submitted", "hold_credit", "credit_hold">>,
     <<"credit_hold", "release_credit", "ordered">>,
     <<"ordered", "start_fulfillment", "fulfilling">>,
     <<"fulfilling", "record_partial", "partial_fulfillment">>,
     <<"fulfilling", "fulfill", "fulfilled">>,
     <<"partial_fulfillment", "fulfill", "fulfilled">>,
     <<"fulfilled", "ship", "shipped">>,
     <<"shipped", "invoice", "invoiced">>}

ReceivableChart ==
    {<<"open", "mark_due", "due">>, <<"due", "mark_overdue", "overdue">>,
     <<"due", "collect", "collected">>, <<"overdue", "collect", "collected">>}

CollectionCaseChart ==
    {<<"opened", "assign", "assigned">>, <<"assigned", "contact", "contacted">>,
     <<"contacted", "promise", "promised">>,
     <<"contacted", "escalate", "escalated">>, <<"promised", "escalate", "escalated">>}
    \cup {<<s, "resolve", "resolved">> : s \in {"contacted", "promised", "escalated"}}

Chart == [order |-> SalesOrderChart, receivable |-> ReceivableChart,
          case |-> CollectionCaseChart]

On(e, event, next) == Dispatch(Chart, e, event, next)

Init ==
    Start([order |-> "submitted", receivable |-> "absent", case |-> "absent"], {}, {})

ReconcileCredit ==
    /\ Call
    /\ \/ state.order = "submitted" /\ On("order", "approve_credit", "idle")
       \/ state.order = "submitted" /\ Disturbed /\ On("order", "hold_credit", "idle")
       \/ state.order = "credit_hold" /\ On("order", "release_credit", "idle")

\* The team is withdrawn at the end; after a crash before that the next call
\* comes back here only while the order is not fulfilled.
ReconcileFulfillment ==
    \/ /\ Call
       /\ state.order \in {"ordered", "fulfilling", "partial_fulfillment"}
       /\ \/ Disturbed /\ Withdraw("fulfillment_team", "idle")
          \/ EnsureRequested("fulfillment_team", "fulfil", "idle")
    \/ /\ pc = "fulfil"
       /\ \/ state.order = "ordered" /\ On("order", "start_fulfillment", "fulfil")
          \/ /\ state.order = "fulfilling" /\ Disturbed
             /\ On("order", "record_partial", "withdraw")
          \/ /\ state.order \in {"fulfilling", "partial_fulfillment"}
             /\ On("order", "fulfill", "withdraw")
    \/ pc = "withdraw" /\ Withdraw("fulfillment_team", "idle")

\* Mutants of EnsureReceivable: before the invoice; only in the call that made
\* the invoice.
EnsureReceivableEarly ==
    /\ state.order \in {"shipped", "invoiced"} /\ state.receivable = "absent"
    /\ \/ Call /\ Create("receivable", "open", "due")
       \/ pc = "ship" /\ Create("receivable", "open", "idle")
EnsureReceivableInCallOnly ==
    /\ state.order = "invoiced" /\ state.receivable = "absent"
    /\ pc = "ship" /\ Create("receivable", "open", "idle")

\* The call that creates the receivable of an invoiced order goes on with it.
EnsureReceivable ==
    /\ state.order = "invoiced" /\ state.receivable = "absent"
    /\ \/ Call /\ Create("receivable", "open", "due")
       \/ pc = "ship" /\ Create("receivable", "open", "idle")

ShipInvoiceAndEnsureReceivable ==
    \/ /\ pc \in {"idle", "ship"}
       /\ \/ state.order = "fulfilled" /\ On("order", "ship", "ship")
          \/ state.order = "shipped" /\ On("order", "invoice", "ship")
    \/ EnsureReceivable

ScheduleDue ==
    /\ pc \in {"idle", "due"}
    /\ state.receivable = "open"
    /\ ~Pending("receivable", "mark_due")
    /\ Schedule(<<<<"receivable", "mark_due">>>>, "idle")

\* auto_collect is off.
ScheduleOverdue ==
    /\ Call /\ Disturbed
    /\ state.receivable = "due"
    /\ ~Pending("receivable", "mark_overdue")
    /\ Schedule(<<<<"receivable", "mark_overdue">>>>, "idle")

EnsureCollectionCase ==
    /\ Call /\ Disturbed
    /\ state.receivable = "overdue"
    /\ IF state.case = "absent" THEN Create("case", "opened", "agent") ELSE Skip("agent")

\* promise: the follow-up is scheduled in a transaction after the transition.
ReconcileCollection ==
    \/ EnsureCollectionCase
    \/ pc = "agent" /\ EnsureRequested("collection_agent", "collect", "idle")
    \/ /\ pc = "collect"
       /\ \/ state.case = "opened" /\ On("case", "assign", "collect")
          \/ state.case = "assigned" /\ On("case", "contact", "collect")
          \/ state.case = "contacted" /\ Disturbed /\ On("case", "promise", "followup")
          \/ /\ state.case \notin {"opened", "assigned"}
             /\ Withdraw("collection_agent", "idle")
    \/ pc = "followup" /\ Schedule(<<<<"case", "escalate">>>>, "withdrawAgent")
    \/ pc = "withdrawAgent" /\ Withdraw("collection_agent", "idle")

\* auto_collect: the receivable, then the schedule and the case it leaves.
CollectReceivable ==
    \/ /\ Call
       /\ state.receivable \in {"due", "overdue"}
       /\ On("receivable", "collect", "collected")
    \/ pc = "collected" /\ CancelPending("receivable", "mark_overdue", "case")
    \/ /\ pc = "case"
       /\ IF state.case \in {"contacted", "promised", "escalated"}
          THEN On("case", "resolve", "cancelEscalation")
          ELSE Skip("idle")
    \/ pc = "cancelEscalation" /\ CancelPending("case", "escalate", "idle")

ReconcileTick ==
    \/ ReconcileCredit \/ ReconcileFulfillment \/ ShipInvoiceAndEnsureReceivable
    \/ ScheduleDue \/ ScheduleOverdue \/ ReconcileCollection \/ CollectReceivable

Finished == state.receivable = "collected"

-----------------------------------------------------------------------------
\* No fulfilment capacity is asked for before reconcile_credit approved the
\* order, ensure_receivable creates a receivable only of an invoiced order,
\* and a collection case is opened only for an overdue one (O2C-01 to
\* O2C-05), wherever a call is cut off.
Causality ==
    /\ "fulfillment_team" \in held \cup waiting =>
          state.order \notin {"submitted", "credit_hold"}
    /\ state.receivable # "absent" => state.order = "invoiced"
    /\ state.case # "absent" => state.receivable \in {"overdue", "collected"}

\* reconcile_fulfillment gives the team back although demands, partial
\* fulfilment and scenarios interrupt it.
CapacityReturned == Returned(Finished, {"fulfillment_team"})
=============================================================================
