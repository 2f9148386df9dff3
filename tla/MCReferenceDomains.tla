------------------------- MODULE MCReferenceDomains -------------------------
(***************************************************************************)
(* The reference domains, each on its own: `domain` is the one that a      *)
(* behaviour is about.  What a domain promises is named in its module.     *)
(***************************************************************************)
EXTENDS ProcessRuntime

CONSTANT Domains    \* the domains of a run

VARIABLE domain

OrderToCash == INSTANCE OrderToCash
ProcureToPay == INSTANCE ProcureToPay
MaintenanceRepair == INSTANCE MaintenanceRepair
Manufacturing == INSTANCE Manufacturing
Logistics == INSTANCE Logistics
WarehouseFulfillment == INSTANCE WarehouseFulfillment
Transit == INSTANCE Transit
CreditLoans == INSTANCE CreditLoans
Aviation == INSTANCE Aviation
Construction == INSTANCE Construction
RecordToReport == INSTANCE RecordToReport
Insurance == INSTANCE Insurance
Hospitals == INSTANCE Hospitals
Airports == INSTANCE Airports
EnergyUtilities == INSTANCE EnergyUtilities
FieldService == INSTANCE FieldService
Telecom == INSTANCE Telecom
CardsPayments == INSTANCE CardsPayments
Hospitality == INSTANCE Hospitality
ServiceManagement == INSTANCE ServiceManagement
SubscriptionSaaS == INSTANCE SubscriptionSaaS
WarehouseManagement == INSTANCE WarehouseManagement
CanonicalProblems == INSTANCE CanonicalProblems
    WITH Philosophers <- 3, Readers <- 2, Writers <- 2, Customers <- 4, Chairs <- 1,
         Jobs <- 3, Machines <- 2, Items <- 3, BufferSize <- 2

DomainInit ==
    /\ domain \in Domains
    /\ domain = "order_to_cash" => OrderToCash!Init
    /\ domain = "p2p" => ProcureToPay!Init
    /\ domain = "mro" => MaintenanceRepair!Init
    /\ domain = "manufacturing" => Manufacturing!Init
    /\ domain = "logistics" => Logistics!Init
    /\ domain = "warehouse_fulfillment" => WarehouseFulfillment!Init
    /\ domain = "transit" => Transit!Init
    /\ domain = "credit_loans" => CreditLoans!Init
    /\ domain = "aviation" => Aviation!Init
    /\ domain = "construction" => Construction!Init
    /\ domain = "record_to_report" => RecordToReport!Init
    /\ domain = "insurance" => Insurance!Init
    /\ domain = "hospitals" => Hospitals!Init
    /\ domain = "airports" => Airports!Init
    /\ domain = "energy_utilities" => EnergyUtilities!Init
    /\ domain = "field_service" => FieldService!Init
    /\ domain = "telecom" => Telecom!Init
    /\ domain = "cards_payments" => CardsPayments!Init
    /\ domain = "hospitality" => Hospitality!Init
    /\ domain = "itsm" => ServiceManagement!Init
    /\ domain = "subscription_saas" => SubscriptionSaaS!Init
    /\ domain = "warehouse_management" => WarehouseManagement!Init
    /\ domain = "canonical" => CanonicalProblems!Init

ReconcileTick ==
    \/ domain = "order_to_cash" /\ OrderToCash!ReconcileTick
    \/ domain = "p2p" /\ ProcureToPay!ReconcileTick
    \/ domain = "mro" /\ MaintenanceRepair!ReconcileTick
    \/ domain = "manufacturing" /\ Manufacturing!ReconcileTick
    \/ domain = "logistics" /\ Logistics!ReconcileTick
    \/ domain = "warehouse_fulfillment" /\ WarehouseFulfillment!ReconcileTick
    \/ domain = "transit" /\ Transit!ReconcileTick
    \/ domain = "credit_loans" /\ CreditLoans!ReconcileTick
    \/ domain = "aviation" /\ Aviation!ReconcileTick
    \/ domain = "construction" /\ Construction!ReconcileTick
    \/ domain = "record_to_report" /\ RecordToReport!ReconcileTick
    \/ domain = "insurance" /\ Insurance!ReconcileTick
    \/ domain = "hospitals" /\ Hospitals!ReconcileTick
    \/ domain = "airports" /\ Airports!ReconcileTick
    \/ domain = "energy_utilities" /\ EnergyUtilities!ReconcileTick
    \/ domain = "field_service" /\ FieldService!ReconcileTick
    \/ domain = "telecom" /\ Telecom!ReconcileTick
    \/ domain = "cards_payments" /\ CardsPayments!ReconcileTick
    \/ domain = "hospitality" /\ Hospitality!ReconcileTick
    \/ domain = "itsm" /\ ServiceManagement!ReconcileTick
    \/ domain = "subscription_saas" /\ SubscriptionSaaS!ReconcileTick
    \/ domain = "warehouse_management" /\ WarehouseManagement!ReconcileTick
    \/ domain = "canonical" /\ CanonicalProblems!ReconcileTick

Charts ==
    CASE domain = "order_to_cash" -> OrderToCash!Chart
      [] domain = "p2p" -> ProcureToPay!Chart
      [] domain = "mro" -> MaintenanceRepair!Chart
      [] domain = "manufacturing" -> Manufacturing!Chart
      [] domain = "logistics" -> Logistics!Chart
      [] domain = "warehouse_fulfillment" -> WarehouseFulfillment!Chart
      [] domain = "transit" -> Transit!Chart
      [] domain = "credit_loans" -> CreditLoans!Chart
      [] domain = "aviation" -> Aviation!Chart
      [] domain = "construction" -> Construction!Chart
      [] domain = "record_to_report" -> RecordToReport!Chart
      [] domain = "insurance" -> Insurance!Chart
      [] domain = "hospitals" -> Hospitals!Chart
      [] domain = "airports" -> Airports!Chart
      [] domain = "energy_utilities" -> EnergyUtilities!Chart
      [] domain = "field_service" -> FieldService!Chart
      [] domain = "telecom" -> Telecom!Chart
      [] domain = "cards_payments" -> CardsPayments!Chart
      [] domain = "hospitality" -> Hospitality!Chart
      [] domain = "itsm" -> ServiceManagement!Chart
      [] domain = "subscription_saas" -> SubscriptionSaaS!Chart
      [] domain = "warehouse_management" -> WarehouseManagement!Chart
      [] domain = "canonical" -> CanonicalProblems!Chart

\* The demands that the process's own reservations keep from being granted.

Kept ==
    CASE domain = "manufacturing" -> Manufacturing!Blocked
      [] domain = "construction" -> Construction!Blocked
      [] domain = "record_to_report" -> RecordToReport!Blocked
      [] OTHER -> {}

Step == ReconcileTick /\ UNCHANGED domain
Tick == Fire(Charts) /\ UNCHANGED domain
Settle == CalmDown /\ UNCHANGED domain
Next == Step \/ Tick \/ Settle \/ ((Grant(Kept) \/ Crash) /\ UNCHANGED domain)

all == <<vars, domain>>

\* The runner calls reconcile_tick after every tick.  Logical time passes with
\* every tick, so the date of a scheduled command arrives although the time at
\* which no call is in progress comes and goes.
Spec ==
    /\ DomainInit /\ [][Next]_all
    /\ WF_all(Step) /\ SF_all(Tick) /\ WF_all(Settle)

-----------------------------------------------------------------------------
\* What reconcile_tick must never let a process do: a receivable before its
\* invoice, work without the resources it needs, inventory before inspection.
\* Each domain states its own, for every crash and every configuration.
Causality ==
    /\ domain = "order_to_cash" => OrderToCash!Causality
    /\ domain = "p2p" => ProcureToPay!Causality
    /\ domain = "mro" => MaintenanceRepair!Causality
    /\ domain = "manufacturing" => Manufacturing!Causality
    /\ domain = "logistics" => Logistics!Causality
    /\ domain = "warehouse_fulfillment" => WarehouseFulfillment!Causality
    /\ domain = "transit" => Transit!Causality
    /\ domain = "credit_loans" => CreditLoans!Causality
    /\ domain = "aviation" => Aviation!Causality
    /\ domain = "construction" => Construction!Causality
    /\ domain = "record_to_report" => RecordToReport!Causality
    /\ domain = "insurance" => Insurance!Causality
    /\ domain = "hospitals" => Hospitals!Causality
    /\ domain = "airports" => Airports!Causality
    /\ domain = "energy_utilities" => EnergyUtilities!Causality
    /\ domain = "field_service" => FieldService!Causality
    /\ domain = "telecom" => Telecom!Causality
    /\ domain = "cards_payments" => CardsPayments!Causality
    /\ domain = "hospitality" => Hospitality!Causality
    /\ domain = "itsm" => ServiceManagement!Causality
    /\ domain = "subscription_saas" => SubscriptionSaaS!Causality
    /\ domain = "warehouse_management" => WarehouseManagement!Causality
    /\ domain = "canonical" => CanonicalProblems!Causality

\* A process that ends, in a run without a crash, gives back every unit of
\* capacity that it reserved and withdraws every demand that still waits.  The
\* domains name the resources: those that the code does release.
CapacityReturned ==
    /\ domain = "order_to_cash" => OrderToCash!CapacityReturned
    /\ domain = "p2p" => ProcureToPay!CapacityReturned
    /\ domain = "mro" => MaintenanceRepair!CapacityReturned
    /\ domain = "logistics" => Logistics!CapacityReturned
    /\ domain = "warehouse_fulfillment" => WarehouseFulfillment!CapacityReturned
    /\ domain = "credit_loans" => CreditLoans!CapacityReturned
    /\ domain = "aviation" => Aviation!CapacityReturned
    /\ domain = "construction" => Construction!CapacityReturned
    /\ domain = "record_to_report" => RecordToReport!CapacityReturned
    /\ domain = "insurance" => Insurance!CapacityReturned
    /\ domain = "hospitals" => Hospitals!CapacityReturned
    /\ domain = "airports" => Airports!CapacityReturned
    /\ domain = "field_service" => FieldService!CapacityReturned
    /\ domain = "telecom" => Telecom!CapacityReturned
    /\ domain = "cards_payments" => CardsPayments!CapacityReturned
    /\ domain = "itsm" => ServiceManagement!CapacityReturned
    /\ domain = "warehouse_management" => WarehouseManagement!CapacityReturned
    /\ domain = "canonical" => CanonicalProblems!CapacityReturned

\* Once capacity and configuration are back to normal, every process comes to
\* one of its ends although a call of reconcile_tick was cut off anywhere: the
\* calls that follow find what is missing and do it.  Where the code cannot, the
\* domain's Finished names the state in which the process stays.
EveryProcessEnds == <>(
    \/ domain = "order_to_cash" /\ (OrderToCash!Finished)
    \/ domain = "p2p" /\ (ProcureToPay!Finished \/ ProcureToPay!Rejected)
    \/ domain = "mro" /\ (MaintenanceRepair!Finished)
    \/ domain = "manufacturing" /\ (Manufacturing!Finished)
    \/ domain = "logistics" /\ (Logistics!Finished)
    \/ domain = "warehouse_fulfillment" /\ (WarehouseFulfillment!Finished)
    \/ domain = "transit" /\ (Transit!Finished)
    \/ domain = "credit_loans" /\ (CreditLoans!Finished)
    \/ domain = "aviation" /\ (Aviation!Finished)
    \/ domain = "construction" /\ (Construction!Finished)
    \/ domain = "record_to_report" /\ (RecordToReport!Finished)
    \/ domain = "insurance" /\ (Insurance!Finished)
    \/ domain = "hospitals" /\ (Hospitals!Finished)
    \/ domain = "airports" /\ (Airports!Finished)
    \/ domain = "energy_utilities" /\ (EnergyUtilities!Finished)
    \/ domain = "field_service" /\ (FieldService!Finished)
    \/ domain = "telecom" /\ (Telecom!Finished)
    \/ domain = "cards_payments" /\ (CardsPayments!Finished)
    \/ domain = "hospitality" /\ (Hospitality!Finished)
    \/ domain = "itsm" /\ (ServiceManagement!Finished)
    \/ domain = "subscription_saas" /\ (SubscriptionSaaS!Finished)
    \/ domain = "warehouse_management" /\ (WarehouseManagement!Finished)
    \/ domain = "canonical" /\ (CanonicalProblems!Finished))
=============================================================================
