------------------------- MODULE ScheduledWorkSpec --------------------------
(***************************************************************************)
(* What the durable runtime promises of scheduled work, without workers,   *)
(* transactions, backends or crashes: every accepted item runs exactly     *)
(* once or is withdrawn, in the order of its due time, and logical time    *)
(* never passes an item that has not run.                                  *)
(***************************************************************************)
EXTENDS Naturals, Sequences, FiniteSets

CONSTANTS
    Items,      \* records with a field due \in Time
    Time        \* the instants of logical time, a set of naturals

VARIABLES
    pending,    \* accepted, neither run nor withdrawn
    now,        \* logical time
    log,        \* the items that ran, in order
    withdrawn   \* how many items were withdrawn

vars == <<pending, now, log, withdrawn>>

Init ==
    /\ pending = {}
    /\ now = 0
    /\ log = <<>>
    /\ withdrawn = 0

Accept(i) ==
    /\ i \notin pending
    /\ i.due >= now
    /\ pending' = pending \cup {i}
    /\ UNCHANGED <<now, log, withdrawn>>

Withdraw(i) ==
    /\ i \in pending
    /\ pending' = pending \ {i}
    /\ withdrawn' = withdrawn + 1
    /\ UNCHANGED <<now, log>>

\* Time moves to t and a set of pending items runs, none due before now or
\* after t, in the order of their due times.
Advance(ran, t) ==
    /\ t >= now
    /\ ran \subseteq pending
    /\ \A i \in ran : now <= i.due /\ i.due <= t
    /\ \A i \in pending \ ran : i.due >= t
    /\ pending' = pending \ ran
    /\ now' = t
    /\ \E order \in [1..Cardinality(ran) -> ran] :
          /\ \A j, k \in DOMAIN order :
                j < k => order[j] # order[k] /\ order[j].due <= order[k].due
          /\ log' = log \o order
    /\ UNCHANGED withdrawn

Next ==
    \/ \E i \in Items : Accept(i) \/ Withdraw(i)
    \/ \E ran \in SUBSET pending, t \in Time : Advance(ran, t)

Spec == Init /\ [][Next]_vars

=============================================================================
