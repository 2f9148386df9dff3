---------------------------- MODULE ResourceSpec ----------------------------
(***************************************************************************)
(* What a durable resource promises: requests wait in the order of         *)
(* priority and arrival, one is granted when a unit is free, those of one  *)
(* priority in the order of arrival, and a request is withdrawn or         *)
(* released once.  No process, no backend, no crash.                       *)
(***************************************************************************)
EXTENDS Naturals, Sequences, FiniteSets, SequencesExt

CONSTANTS Clients, Ranks, Units

VARIABLES
    pending,   \* the requests that wait, by priority and arrival
    granted    \* the requests that own a unit

Waits(r) == \E i \in DOMAIN pending : pending[i].req = r

Init == pending = <<>> /\ granted = {}

Ask(r, p) ==
    /\ ~Waits(r) /\ r \notin granted
    /\ pending' = InsertAt(pending, Cardinality({i \in DOMAIN pending : pending[i].prio <= p}) + 1,
                           [req |-> r, prio |-> p])
    /\ UNCHANGED granted

\* An urgent request that arrives after the choice does not change it.
Grant(i) ==
    /\ i \in DOMAIN pending
    /\ \A j \in 1..i - 1 : pending[j].prio < pending[i].prio
    /\ Cardinality(granted) < Units
    /\ granted' = granted \cup {pending[i].req}
    /\ pending' = RemoveAt(pending, i)

Withdraw(i) ==
    /\ i \in DOMAIN pending
    /\ pending' = RemoveAt(pending, i)
    /\ UNCHANGED granted

GiveBack(r) ==
    /\ r \in granted
    /\ granted' = granted \ {r}
    /\ UNCHANGED pending

Next ==
    \/ \E r \in Clients, p \in Ranks : Ask(r, p)
    \/ \E i \in DOMAIN pending : Grant(i) \/ Withdraw(i)
    \/ \E r \in Clients : GiveBack(r)

Spec == Init /\ [][Next]_<<pending, granted>>
=============================================================================
