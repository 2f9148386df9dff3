--------------------------- MODULE RecordToReport ---------------------------
(* The record-to-report domain (sose/examples/record_to_report). *)
EXTENDS ProcessRuntime, TLC

JournalEntryChart ==
    {<<"drafted", "submit", "submitted">>, <<"submitted", "post", "posted">>,
     <<"submitted", "reject", "rejected">>}

ReconciliationItemChart ==
    {<<"pending", "start", "reconciling">>, <<"reconciling", "match", "matched">>,
     <<"reconciling", "mark_unmatched", "unmatched">>,
     <<"unmatched", "require_adjustment", "adjustment_required">>,
     <<"adjustment_required", "apply_adjustment", "reconciled">>,
     <<"unmatched", "reject", "rejected">>, <<"adjustment_required", "reject", "rejected">>}

AdjustmentChart ==
    {<<"proposed", "submit", "submitted">>, <<"submitted", "approve", "approved">>,
     <<"approved", "post", "posted">>,
     <<"submitted", "reject", "rejected">>, <<"approved", "reject", "rejected">>}

CloseTaskChart ==
    {<<"pending", "start", "in_progress">>, <<"in_progress", "complete", "completed">>,
     <<"in_progress", "fail", "failed">>, <<"failed", "retry", "in_progress">>}

AccountingPeriodChart ==
    {<<"open", "prepare_close", "close_ready">>, <<"reopened", "prepare_close", "close_ready">>,
     <<"close_ready", "close", "closed">>, <<"closed", "reopen", "reopened">>}

Tasks == {"task1", "task2"}
Chart == [journal |-> JournalEntryChart, item |-> ReconciliationItemChart,
          adjustment |-> AdjustmentChart, period |-> AccountingPeriodChart,
          task1 |-> CloseTaskChart, task2 |-> CloseTaskChart]

On(e, event, next) == Dispatch(Chart, e, event, next)

\* data: the close task of the current call.
Init ==
    Start([journal |-> "drafted", item |-> "pending", adjustment |-> "absent",
           period |-> "open", task1 |-> "pending", task2 |-> "absent"],
          "task1", {})

\* One posting processor serves the journal and the adjustment.
Processor(r) == {"posting journal", "posting adjustment"} \ {r}
Blocked == IF held \cap Processor("none") = {} THEN {} ELSE Processor("none")

EnsureProcessor(r, granted) ==
    IF Processor(r) \cap (held \cup waiting) = {} THEN EnsureRequested(r, granted, "idle")
    ELSE /\ waiting' = waiting \cup {r}
         /\ Goto("idle")
         /\ UNCHANGED <<entities, work, held>>

SubmitAndPostJournal ==
    \/ /\ Call /\ state.journal # "posted"
       /\ \/ (state.journal = "rejected" \/ Disturbed) /\ Withdraw("posting journal", "idle")
          \/ state.journal # "rejected" /\ EnsureProcessor("posting journal", "submit")
    \/ pc = "submit" /\ On("journal", "submit", "post")
    \/ pc = "post" /\ On("journal", "post", "posted")
    \/ pc = "post" /\ Disturbed /\ On("journal", "reject", "posted")
    \/ pc = "posted" /\ Withdraw("posting journal", "idle")

\* The analyst of an item that is already decided is not withdrawn by the tick.
ReconcileItem ==
    \/ /\ Call /\ state.journal = "posted" /\ state.item \in {"pending", "reconciling"}
       /\ EnsureRequested("analyst", "start", "idle")
    \/ pc = "start" /\ On("item", "start", "decide")
    \/ pc = "decide" /\ On("item", "match", "decided")
    \/ pc = "decide" /\ Disturbed /\ On("item", "mark_unmatched", "decided")
    \/ pc = "decided" /\ Withdraw("analyst", "idle")

EnsureAdjustment ==
    \/ /\ Call /\ state.journal = "posted"
       /\ state.item \in {"unmatched", "adjustment_required"}
       /\ IF state.adjustment = "absent" THEN On("item", "require_adjustment", "propose")
          ELSE Skip("adjust")
    \/ pc = "propose" /\ Create("adjustment", "proposed", "adjust")

PostAdjustment ==
    \/ EnsureAdjustment
    \/ /\ pc = "adjust" /\ state.adjustment \in {"posted", "rejected"}
       /\ Withdraw("posting adjustment", "apply")
    \/ /\ pc = "adjust" /\ state.adjustment \notin {"posted", "rejected"}
       /\ \/ Disturbed /\ Withdraw("posting adjustment", "idle")
          \/ EnsureProcessor("posting adjustment", "submitAdjustment")
    \/ pc = "submitAdjustment" /\ On("adjustment", "submit", "approveAdjustment")
    \/ pc = "approveAdjustment" /\ On("adjustment", "approve", "postAdjustment")
    \/ pc = "postAdjustment" /\ On("adjustment", "post", "adjusted")
    \/ pc = "postAdjustment" /\ Disturbed /\ On("adjustment", "reject", "adjusted")
    \/ pc = "adjusted" /\ Withdraw("posting adjustment", "apply")
    \/ /\ pc = "apply"
       /\ IF state.adjustment = "posted" THEN On("item", "apply_adjustment", "idle") ELSE Skip("idle")

PeriodReadyForClose == state.journal = "posted" /\ state.item \in {"matched", "reconciled"}

\* The tick closes with the first task; the operator with a reopened one's.
ScheduleClose ==
    /\ Call /\ PeriodReadyForClose
    /\ \E t \in Tasks : /\ state[t] = "pending" /\ ~Pending(t, "start")
                        /\ Schedule(<<<<t, "start">>>>, "idle")

ReconcilePeriodCloseTransitions ==
    \/ pc = "prepare" /\ On("period", "prepare_close", "close")
    \/ pc = "close" /\ On("period", "close", "complete")

ReconcileClose ==
    \/ /\ Call /\ PeriodReadyForClose
       /\ \E t \in Tasks : state[t] = "in_progress" /\ Record(t, "accountant")
    \/ pc = "accountant" /\ Disturbed /\ Withdraw("accountant " \o data, "idle")
    \/ pc = "accountant" /\ EnsureRequested("accountant " \o data, "prepare", "idle")
    \/ ReconcilePeriodCloseTransitions
    \/ pc = "complete" /\ On(data, "complete", "closed")
    \/ pc = "closed" /\ Withdraw("accountant " \o data, "idle")

\* The period first, then the task of the next close.
ReopenPeriod ==
    \/ /\ Call /\ Disturbed /\ state.period = "closed" /\ state.task2 = "absent"
       /\ On("period", "reopen", "newTask")
    \/ pc = "newTask" /\ Create("task2", "pending", "idle")

ReconcileTick ==
    \/ SubmitAndPostJournal \/ ReconcileItem \/ PostAdjustment \/ ScheduleClose
    \/ ReconcileClose \/ ReopenPeriod

\* A crash left the processor with the journal, or a reopened period without
\* its task.
CutOff ==
    \/ "posting journal" \in held \cup waiting /\ state.journal = "posted"
    \/ state.period = "reopened" /\ state.task2 = "absent"

Finished ==
    \/ state.period = "closed" /\ \A t \in Tasks : state[t] \in {"absent", "completed"}
    \/ state.journal = "rejected" \/ state.adjustment = "rejected"
    \/ crashes > 0 /\ CutOff

-----------------------------------------------------------------------------
\* A reconciliation item moves only with its posted journal, an adjustment is
\* posted before the item is reconciled, and the period closes only when
\* everything in it is posted, with the accountant of the close task (R2R-01
\* to R2R-07).
Causality ==
    /\ state.item # "pending" => state.journal = "posted"
    /\ state.adjustment # "absent" => state.item \in {"adjustment_required", "reconciled"}
    /\ state.item = "reconciled" => state.adjustment = "posted"
    /\ state.period \in {"close_ready", "closed", "reopened"} => PeriodReadyForClose
    /\ crashes = 0 /\ state.period = "close_ready" => \E t \in Tasks : "accountant " \o t \in held
    /\ state.task2 # "absent" => state.task1 = "completed" \/ crashes > 0

\* A closed period whose tasks are complete leaves nobody reserved
\* (submit_and_post_journal, post_adjustment, reconcile_close).
CapacityReturned ==
    Returned(state.period = "closed" /\ \A t \in Tasks : state[t] \in {"absent", "completed"},
             {"posting journal", "posting adjustment", "analyst", "accountant task1",
              "accountant task2"})
=============================================================================
