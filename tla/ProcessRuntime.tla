--------------------------- MODULE ProcessRuntime ---------------------------
(***************************************************************************)
(* What a reference domain (sose/examples) sees of the library: persisted  *)
(* entities moved by statecharts, scheduled commands, and reservations.    *)
(*                                                                         *)
(* The job runner calls the domain's reconcile_tick after every tick.  It  *)
(* is a sequence of transactions decided from what is persisted, and the   *)
(* process may die between any two of them; the next call starts again     *)
(* from the persisted state.  Every operator below is one transaction.     *)
(* That a reservation or a schedule survives a crash inside of its own     *)
(* transactions is the subject of DurableResources and DurableRuntime.     *)
(*                                                                         *)
(* The configuration and the scenarios may change between two calls, so a  *)
(* domain chooses them in every call until `calm`; from then on they have  *)
(* their default values and no other process takes capacity.               *)
(***************************************************************************)
EXTENDS Naturals, Sequences

CONSTANT MaxCrashes    \* bound on the number of crashes

VARIABLES
    state,     \* state[e]: the persisted state of entity e, or "absent"
    data,      \* the other persisted facts: selections, effects, attributes
    work,      \* scheduled commands: a set of sequences of <<entity, event>>,
               \* each in the order in which its commands fall due
    held,      \* requests with a durable reservation
    waiting,   \* requests with a durable demand that is not granted
    pc,        \* where reconcile_tick is; "idle" between two calls
    calm,      \* configuration, scenarios and capacity are back to default
    crashes    \* crashes so far

entities == <<state, data>>
requests == <<held, waiting>>
control == <<pc, calm, crashes>>
vars == <<entities, work, requests, control>>

Start(s, d, w) ==
    /\ state = s
    /\ data = d
    /\ work = w
    /\ held = {}
    /\ waiting = {}
    /\ pc = "idle"
    /\ calm = FALSE
    /\ crashes = 0

Call == pc = "idle"

\* What a call may find only before `calm`.
Disturbed == ~calm

Goto(next) == pc' = next /\ UNCHANGED <<calm, crashes>>

\* reconcile_tick decides without a transaction, or returns.
Skip(next) == Goto(next) /\ UNCHANGED <<entities, work, requests>>

\* The state after an event: a chart is a set of <<from, event, to>>, and an
\* event without a transition from the current state changes nothing.
Moved(chart, s, event) ==
    IF \E t \in chart : t[1] = s /\ t[2] = event
    THEN (CHOOSE t \in chart : t[1] = s /\ t[2] = event)[3]
    ELSE s

\* engine.dispatch: one event in a transaction of its own.
Dispatch(Chart, e, event, next) ==
    /\ state' = [state EXCEPT ![e] = Moved(Chart[e], @, event)]
    /\ Goto(next)
    /\ UNCHANGED <<data, work, requests>>

\* uow.save_entity of a new entity.
Create(e, initial, next) ==
    /\ state' = [state EXCEPT ![e] = initial]
    /\ Goto(next)
    /\ UNCHANGED <<data, work, requests>>

\* uow.save_entity with new attributes, or another durable fact.
Record(d, next) ==
    /\ data' = d
    /\ Goto(next)
    /\ UNCHANGED <<state, work, requests>>

\* engine.context.schedules.at, scheduler.find_pending and cancel_pending.
Schedule(commands, next) ==
    /\ work' = work \cup {commands}
    /\ Goto(next)
    /\ UNCHANGED <<entities, requests>>

\* The same for a command that falls due after everything already scheduled.
ScheduleLast(command, next) ==
    /\ work' = IF work = {} THEN {<<command>>} ELSE {Append(commands, command) : commands \in work}
    /\ Goto(next)
    /\ UNCHANGED <<entities, requests>>

Pending(e, event) ==
    \E commands \in work : \E i \in 1..Len(commands) : commands[i] = <<e, event>>

CancelPending(e, event, next) ==
    /\ work' = {SelectSeq(commands, LAMBDA c : c # <<e, event>>) : commands \in work} \ {<<>>}
    /\ Goto(next)
    /\ UNCHANGED <<entities, requests>>

\* resources.ensure_requested: idempotent; granted at once or left waiting,
\* because other instances of the process use the same resource.
EnsureRequested(r, granted, refused) ==
    /\ \/ held' = held \cup {r} /\ waiting' = waiting \ {r} /\ Goto(granted)
       \/ /\ r \notin held
          /\ Disturbed
          /\ waiting' = waiting \cup {r}
          /\ UNCHANGED held
          /\ Goto(refused)
    /\ UNCHANGED <<entities, work>>

\* Mutant of Withdraw: a reservation is released, a demand stays.
WithdrawReservation(r, next) ==
    /\ held' = held \ {r}
    /\ Goto(next)
    /\ UNCHANGED <<entities, work, waiting>>

\* resources.withdraw: the demand is cancelled or the reservation released.
Withdraw(r, next) ==
    /\ held' = held \ {r}
    /\ waiting' = waiting \ {r}
    /\ Goto(next)
    /\ UNCHANGED <<entities, work>>

\* Between two calls: a demand is granted when the resource becomes free; a
\* domain names the ones that its own reservations keep `blocked`.
Grant(blocked) ==
    /\ pc = "idle"
    /\ \E r \in waiting \ blocked : held' = held \cup {r} /\ waiting' = waiting \ {r}
    /\ UNCHANGED <<entities, work, control>>

\* Between two calls: scheduled work falls due and is executed by a tick.
Fire(Chart) ==
    /\ pc = "idle"
    /\ \E commands \in work :
          /\ LET e == Head(commands)[1]
             IN  state' = [state EXCEPT ![e] = Moved(Chart[e], @, Head(commands)[2])]
          /\ work' = (work \ {commands}) \cup ({Tail(commands)} \ {<<>>})
    /\ UNCHANGED <<data, requests, control>>

CalmDown ==
    /\ ~calm
    /\ calm' = TRUE
    /\ UNCHANGED <<entities, work, requests, pc, crashes>>

\* The process dies, or a step of reconcile_tick raises.
Crash ==
    /\ pc # "idle"
    /\ crashes < MaxCrashes
    /\ crashes' = crashes + 1
    /\ pc' = "idle"
    /\ UNCHANGED <<entities, work, requests, calm>>

-----------------------------------------------------------------------------
\* A process that ended without an interruption holds none of `these`.
Returned(ended, these) ==
    crashes = 0 /\ ended /\ pc = "idle" => (held \cup waiting) \cap these = {}
=============================================================================
