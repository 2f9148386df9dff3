-------------------------- MODULE SubscriptionSaaS --------------------------
(* The subscription domain (sose/examples/subscription_saas). *)
EXTENDS ProcessRuntime

SubscriptionChart ==
    {<<"active", "request_cancel", "cancellation_pending">>,
     <<"cancellation_pending", "withdraw_cancel", "active">>, <<"cancellation_pending", "end", "ended">>}

EntitlementChart == {<<"active", "supersede", "superseded">>, <<"active", "revoke", "revoked">>}
ChangeRequestChart == {<<"scheduled", "apply", "applied">>, <<"scheduled", "cancel", "cancelled">>}
SubscriptionOccurrenceChart == {<<"captured", "commit", "committed">>}

Entitlements == {"initial", "changed"}
Chart == [subscription |-> SubscriptionChart, initial |-> EntitlementChart,
          changed |-> EntitlementChart, change |-> ChangeRequestChart,
          occurrence |-> SubscriptionOccurrenceChart]

On(e, event, next) == Dispatch(Chart, e, event, next)

\* data: active_entitlement_id of the subscription; its plan_code is saved
\* with it.
Init ==
    Start([subscription |-> "active", initial |-> "active", changed |-> "absent",
           change |-> "absent", occurrence |-> "absent"], "initial", {})

\* The change and the subscription that lists it are saved together; the
\* work that applies it is scheduled afterwards.
RequestPlanChange ==
    \/ /\ Call /\ state.subscription = "active" /\ state.change = "absent"
       /\ Create("change", "scheduled", "applyAt")
    \/ pc = "applyAt" /\ Schedule(<<<<"change", "apply">>>>, "idle")

\* The tick reconciles for an active subscription that has the old plan; an
\* operator's call does not look at the subscription.
ReconcilePlanChange ==
    \/ /\ Call /\ state.change = "applied"
       /\ Disturbed \/ (state.subscription = "active" /\ data = "initial")
       /\ IF state.changed = "absent" THEN Create("changed", "active", "supersede")
          ELSE Skip("supersede")
    \/ pc = "supersede" /\ On("initial", "supersede", "replace")
    \/ /\ pc = "replace"
       /\ data' = "changed"
       /\ state' = [state EXCEPT !.occurrence = IF @ = "absent" THEN "captured" ELSE @]
       /\ Goto("commit")
       /\ UNCHANGED <<work, requests>>
    \/ pc = "commit" /\ On("occurrence", "commit", "idle")

\* A scheduled change is cancelled before the subscription is; the two
\* boundaries of the term are scheduled last, and only for an entitlement
\* that is active now.
RequestCancellation ==
    \/ /\ Call /\ Disturbed /\ state.subscription = "active"
       /\ IF state.change = "scheduled" THEN CancelPending("change", "apply", "cancelChange")
          ELSE Skip("requestCancel")
    \/ pc = "cancelChange" /\ On("change", "cancel", "requestCancel")
    \/ pc = "requestCancel" /\ On("subscription", "request_cancel", "endAt")
    \/ Call /\ Disturbed /\ state.subscription = "cancellation_pending" /\ Skip("endAt")
    \/ /\ pc = "endAt"
       /\ IF Pending("subscription", "end") THEN Skip("revokeAt")
          ELSE ScheduleLast(<<"subscription", "end">>, "revokeAt")
    \/ /\ pc = "revokeAt"
       /\ IF state[data] # "active" \/ Pending(data, "revoke") THEN Skip("idle")
          ELSE ScheduleLast(<<data, "revoke">>, "idle")

WithdrawCancellation ==
    \/ /\ Call /\ Disturbed /\ state.subscription = "cancellation_pending"
       /\ CancelPending("subscription", "end", "keepEntitlement")
    \/ pc = "keepEntitlement" /\ CancelPending(data, "revoke", "withdrawCancel")
    \/ pc = "withdrawCancel" /\ On("subscription", "withdraw_cancel", "idle")

ReconcileTick ==
    \/ RequestPlanChange \/ ReconcilePlanChange \/ RequestCancellation \/ WithdrawCancellation

\* Nothing proposes a plan again once its change was cancelled.
Unattended == state.subscription = "active" /\ state.change = "cancelled"

\* The work that a transition or a record announces was not scheduled.
CutOff ==
    \/ state.change = "scheduled" /\ ~Pending("change", "apply")
    \/ state.subscription = "cancellation_pending" /\ ~Pending("subscription", "end")

Finished ==
    \/ data = "changed" \/ state.subscription = "ended" \/ Unattended
    \/ crashes > 0 /\ CutOff

-----------------------------------------------------------------------------
\* An entitlement of the new plan exists only when the change was applied,
\* replaces the old one, and a cancelled change is never applied; without an
\* interruption a subscription points to an entitlement in force and an
\* active one has no end scheduled (SUB-01 to SUB-09).
Causality ==
    /\ state.changed # "absent" => state.change = "applied"
    /\ state.occurrence # "absent" => data = "changed" /\ state.initial # "active"
    /\ state.change = "cancelled" => ~Pending("change", "apply")
    /\ crashes = 0 /\ pc = "idle" => state[data] # "superseded"
    /\ crashes = 0 /\ pc = "idle" /\ state.subscription = "active" =>
          ~Pending("subscription", "end") /\ state[data] = "active"
=============================================================================
