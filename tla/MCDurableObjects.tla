-------------------------- MODULE MCDurableObjects --------------------------
(***************************************************************************)
(* The four kinds of durable object, each on its own: `object` chooses the *)
(* one that a behaviour is about, the others stay as they begin.           *)
(***************************************************************************)
EXTENDS DurableResources, PreemptiveResources, DurableStores, DurableContainers

VARIABLE object

Objects == {"resource", "preemptive", "store", "container"}
vars == <<object, resVars, preVars, storeVars, contVars>>

\* Item "a" is put aside by the others in a priority store.
Priorities == [i \in StoreItems |-> IF i = "a" THEN 2 ELSE 1]
Filters == {StoreItems, {"b"}}

Init ==
    /\ object \in Objects
    /\ ResInit /\ PreInit /\ StoreInit /\ ContInit
    /\ object # "store" => storeKind = "fifo"

ResourceStep == object = "resource" /\ ResNext /\ UNCHANGED <<object, preVars, storeVars, contVars>>
PreemptiveStep == object = "preemptive" /\ PreNext /\ UNCHANGED <<object, resVars, storeVars, contVars>>
StoreStep == object = "store" /\ StoreNext /\ UNCHANGED <<object, resVars, preVars, contVars>>
ContainerStep == object = "container" /\ ContNext /\ UNCHANGED <<object, resVars, preVars, storeVars>>

Next == ResourceStep \/ PreemptiveStep \/ StoreStep \/ ContainerStep

Spec ==
    /\ Init /\ [][Next]_vars
    /\ WF_vars(object = "store" /\ StoreServe /\ UNCHANGED <<object, resVars, preVars, contVars>>)

-----------------------------------------------------------------------------
\* The types of the four managers, in memory and in the database.
TypeOK == ResTypeOK /\ PreTypeOK /\ StoreTypeOK /\ ContTypeOK
=============================================================================
