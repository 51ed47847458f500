---------------------------- MODULE ShopBootstrap ----------------------------
(* Customers and orders of a shop as runSync copies them, the script that  *)
(* runs one sync per type and then derives each customer's last order, and *)
(* the API's syncs and webhooks that may run in between.  Each of them is  *)
(* one transaction here; CommerceSync has their overlaps.  The products    *)
(* that the script syncs first touch neither table.                        *)
EXTENDS Naturals, FiniteSetsExt

CONSTANTS
    ShopOrders,
    ShopCustomers,
    NoCustomer      \* customer_id is null

ASSUME BootstrapAssumption ==
    IsFiniteSet(ShopOrders) /\ ShopCustomers # {} /\ NoCustomer \notin ShopCustomers

VARIABLES
    atShop,         \* external: when an order was placed (0: not yet), by
                    \* whom, and whether its payload still names them
    customerRow,    \* commerce_customers: is there a row, and last_order_at
    orderRow,       \* orders: processed_at (0: no row) and customer_id
    boot,           \* what the script does next
    bootAlone       \* no program state: the script's syncs succeeded, and
                    \* nobody else wrote since it began

bootVars == <<atShop, customerRow, orderRow, boot, bootAlone>>

Times == 0 .. Cardinality(ShopOrders)
BootSteps == {"idle", "customers", "orders", "backfill", "done"}
MaxTime(S) == Max(S \cup {0})

BootstrapTypeOK ==
    /\ atShop \in [ShopOrders -> [at : Times, by : ShopCustomers, named : BOOLEAN]]
    /\ customerRow \in [ShopCustomers -> [held : BOOLEAN, last : Times]]
    /\ orderRow \in [ShopOrders -> [at : Times, by : ShopCustomers \cup {NoCustomer}]]
    /\ boot \in BootSteps
    /\ bootAlone \in BOOLEAN

BootstrapInit ==
    /\ atShop = [o \in ShopOrders |->
                    [at |-> 0, by |-> CHOOSE c \in ShopCustomers : TRUE, named |-> FALSE]]
    /\ customerRow = [c \in ShopCustomers |-> [held |-> FALSE, last |-> 0]]
    /\ orderRow = [o \in ShopOrders |-> [at |-> 0, by |-> NoCustomer]]
    /\ boot = "idle"
    /\ bootAlone = FALSE

-----------------------------------------------------------------------------
(* The shop: the next order, by a customer, who may later be redacted.     *)
Placed == {o \in ShopOrders : atShop[o].at > 0}
Named(c) == {o \in Placed : atShop[o].by = c /\ atShop[o].named}
ShopSells(c) ==
    /\ Placed # ShopOrders
    /\ LET o == CHOOSE o \in ShopOrders : o \notin Placed IN
       atShop' = [atShop EXCEPT ![o] =
                     [at |-> Cardinality(Placed) + 1, by |-> c, named |-> TRUE]]
    /\ bootAlone' = FALSE
    /\ UNCHANGED <<customerRow, orderRow, boot>>
ShopRedacts(c) ==
    /\ Named(c) # {}
    /\ atShop' = [o \in ShopOrders |->
                     IF o \in Named(c) THEN [atShop[o] EXCEPT !.named = FALSE] ELSE atShop[o]]
    /\ bootAlone' = FALSE
    /\ UNCHANGED <<customerRow, orderRow, boot>>

(* upsertCustomer for all that the shop lists: Shopify tells no last       *)
(* order, so the column is written with null.                              *)
CustomersUpserted ==
    [c \in ShopCustomers |->
        IF Named(c) # {} THEN [held |-> TRUE, last |-> 0] ELSE customerRow[c]]

(* upsertOrder: the customer is the row of that external id, if any.       *)
OrderUpserted(o, customers) ==
    LET s == atShop[o] IN
    [at |-> s.at, by |-> IF s.named /\ customers[s.by].held THEN s.by ELSE NoCustomer]
OrdersUpserted(customers) ==
    [o \in ShopOrders |-> IF o \in Placed THEN OrderUpserted(o, customers) ELSE orderRow[o]]

(* runSync of the API, for a type or for all, customers first.  One that   *)
(* fails at the listing of the orders commits what it has.                 *)
ApiSync(types) ==
    LET customers == IF "customers" \in types THEN CustomersUpserted ELSE customerRow IN
    /\ customerRow' = customers
    /\ orderRow' = IF "orders" \in types THEN OrdersUpserted(customers) ELSE orderRow
    /\ bootAlone' = FALSE
    /\ UNCHANGED <<atShop, boot>>

ApiWebhook(o) ==
    /\ o \in Placed
    /\ orderRow' = [orderRow EXCEPT ![o] = OrderUpserted(o, customerRow)]
    /\ bootAlone' = FALSE
    /\ UNCHANGED <<atShop, customerRow, boot>>

-----------------------------------------------------------------------------
(* The script.  A sync that fails is reported and the script goes on.      *)
OrdersFirst(step) ==
    CASE step = "idle" -> "orders" [] step = "orders" -> "customers"
      [] step = "customers" -> "backfill" [] step = "backfill" -> "done"
StepAfter(step) ==
    CASE step = "idle" -> "customers" [] step = "customers" -> "orders"
      [] step = "orders" -> "backfill" [] step = "backfill" -> "done"
BootStart ==
    /\ boot \in {"idle", "done"}
    /\ boot' = StepAfter("idle")
    /\ bootAlone' = TRUE
    /\ UNCHANGED <<atShop, customerRow, orderRow>>

BootCustomers ==
    /\ boot = "customers"
    /\ boot' = StepAfter(boot)
    /\ \/ customerRow' = CustomersUpserted /\ UNCHANGED bootAlone
       \/ UNCHANGED customerRow /\ bootAlone' = FALSE
    /\ UNCHANGED <<atShop, orderRow>>

BootOrders ==
    /\ boot = "orders"
    /\ boot' = StepAfter(boot)
    /\ \/ orderRow' = OrdersUpserted(customerRow) /\ UNCHANGED bootAlone
       \/ UNCHANGED orderRow /\ bootAlone' = FALSE
    /\ UNCHANGED <<atShop, customerRow>>

(* UPDATE ... FROM (SELECT customer_id, MAX(processed_at) ... GROUP BY):   *)
(* customers without an order keep what they had.                          *)
Linked(c) == {o \in ShopOrders : orderRow[o].by = c}
LastOfAll(c) == MaxTime({orderRow[o].at : o \in ShopOrders})
LastAt(c) == MaxTime({orderRow[o].at : o \in Linked(c)})
BootBackfill ==
    /\ boot = "backfill"
    /\ boot' = StepAfter(boot)
    /\ customerRow' = [c \in ShopCustomers |->
           IF Linked(c) # {} THEN [customerRow[c] EXCEPT !.last = LastAt(c)]
           ELSE customerRow[c]]
    /\ UNCHANGED <<atShop, orderRow, bootAlone>>

(* An exception, or the process, ends the script.                          *)
BootDies ==
    /\ boot \notin {"idle", "done"}
    /\ boot' = "idle"
    /\ UNCHANGED <<atShop, customerRow, orderRow, bootAlone>>

BootstrapNext ==
    \/ \E o \in ShopOrders : ApiWebhook(o)
    \/ \E c \in ShopCustomers : ShopSells(c) \/ ShopRedacts(c)
    \/ \E types \in {{"customers"}, {"orders"}, {"customers", "orders"}} : ApiSync(types)
    \/ BootStart \/ BootCustomers \/ BootOrders \/ BootBackfill \/ BootDies

-----------------------------------------------------------------------------
(* Properties                                                              *)

(* Whatever syncs, webhooks and scripts ran, and in whatever order: a      *)
(* last order that a customer row shows is one of that customer that the   *)
(* database holds, never somebody else's.                                  *)
RecencyIsTheirs ==
    \A c \in ShopCustomers : customerRow[c].last # 0 =>
        \E o \in ShopOrders :
            orderRow[o].at = customerRow[c].last /\ atShop[o].by = c

(* A script whose syncs succeeded while nobody else wrote leaves every     *)
(* order with its customer and every customer with the time of their last  *)
(* order, also for customers and orders the database did not know before.  *)
BootstrapIsComplete ==
    boot = "done" /\ bootAlone =>
        \A c \in ShopCustomers : Named(c) # {} =>
            /\ Named(c) \subseteq Linked(c)
            /\ customerRow[c].last = MaxTime({atShop[o].at : o \in Named(c)})

(* Both: what a customer row says of its orders is true, and after an      *)
(* undisturbed script it is all there is to say.                           *)
RecencyIsRight == RecencyIsTheirs /\ BootstrapIsComplete
=============================================================================
