----------------------------- MODULE ShopMirror -----------------------------
(***************************************************************************)
(* What the copy of a shop promises, without statements, attempts, locks   *)
(* or queues: rows only ever come from the shop, all those of a sync at    *)
(* once; a sync that succeeds brings everything up to what the shop had    *)
(* when it was asked for; links to products are never lost; and a          *)
(* disconnected integration comes back only with the end of a sync.        *)
(***************************************************************************)
EXTENDS Naturals

CONSTANTS Products, Orders, ProductOf, Syncs

VARIABLES
    shop,      \* the shop's products and the revision of each order
    status,    \* of the integration; "none" is no row
    product,   \* the products copied
    order,     \* the orders copied: their revision (0: none), linked or not
    asking,    \* the syncs that were accepted and have not ended
    asked      \* what the shop had when each sync was asked for

mirrorVars == <<shop, status, product, order, asking, asked>>

MirrorInit ==
    /\ shop = [products |-> {}, orders |-> [o \in Orders |-> 0]]
    /\ status = "none"
    /\ product = {}
    /\ order = [o \in Orders |-> [rev |-> 0, linked |-> FALSE]]
    /\ asking = {}
    /\ asked = [j \in Syncs |-> shop]

(* The shop, external: it only grows.                                      *)
Grow ==
    /\ shop' \in [products : SUBSET Products, orders : [Orders -> Nat]]
    /\ shop.products \subseteq shop'.products
    /\ \A o \in Orders : shop.orders[o] <= shop'.orders[o]
    /\ UNCHANGED <<status, product, order, asking, asked>>

Connect ==
    /\ status = "none"
    /\ status' = "connected"
    /\ UNCHANGED <<shop, product, order, asking, asked>>

Disconnect ==
    /\ status # "none"
    /\ status' = "revoked"
    /\ UNCHANGED <<shop, product, order, asking, asked>>

Ask(j) ==
    /\ status # "none"
    /\ j \notin asking
    /\ asking' = asking \cup {j}
    /\ asked' = [asked EXCEPT ![j] = shop]
    /\ UNCHANGED <<shop, status, product, order>>

End(j) ==
    /\ j \in asking
    /\ asking' = asking \ {j}
    /\ UNCHANGED <<shop, asked>>

(* The rows of products come with those of their orders, and an order that *)
(* was linked, or whose product the sync has listed, is linked after it.   *)
CopyProducts(P) ==
    /\ P \subseteq shop.products
    /\ product' = product \cup P

CopyOrder(j, P, o) ==
    /\ order'[o].rev \in 1 .. shop.orders[o]
    /\ asked[j].orders[o] <= order'[o].rev
    /\ ProductOf[o] \in P \/ order[o].linked => order'[o].linked
    /\ order'[o].linked => ProductOf[o] \in product'

Succeed(j) ==
    /\ End(j)
    /\ status' = "connected"
    /\ \E P \in SUBSET Products :
         /\ asked[j].products \subseteq P
         /\ CopyProducts(P)
         /\ order' \in [Orders -> [rev : Nat, linked : BOOLEAN]]
         /\ \A o \in Orders :
              \/ CopyOrder(j, P, o)
              \/ asked[j].orders[o] = 0 /\ order'[o] = order[o]

(* The shop answered with an error, after its products or before.          *)
Fail(j) ==
    /\ End(j)
    /\ status' = "error"
    /\ \E P \in SUBSET Products : CopyProducts(P)
    /\ UNCHANGED order

GiveUp(j) ==
    /\ End(j)
    /\ UNCHANGED <<status, product, order>>

(* A webhook: at any time, in any order, again.                            *)
Hear(o, r) ==
    /\ status # "none"
    /\ r \in 1 .. shop.orders[o]
    /\ order' = [order EXCEPT ![o] = [rev |-> r, linked |-> ProductOf[o] \in product]]
    /\ UNCHANGED <<shop, status, product, asking, asked>>

MirrorNext ==
    \/ Grow \/ Connect \/ Disconnect
    \/ \E j \in Syncs : Ask(j) \/ Succeed(j) \/ Fail(j) \/ GiveUp(j)
    \/ \E o \in Orders : \E r \in 1 .. shop.orders[o] : Hear(o, r)

MirrorSpec == MirrorInit /\ [][MirrorNext]_mirrorVars
=============================================================================
