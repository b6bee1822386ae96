------------------------ MODULE CommerceOrderService ------------------------
(***************************************************************************)
(* The order service: MIXED orders from the cart to delivery, cancellation *)
(* or expiry.  Its transition and delete accept LEGACY orders as well.     *)
(***************************************************************************)
EXTENDS ShopState

-----------------------------------------------------------------------------
\* What happens to the inventory of an order.

ReservedProducts(o) == {p \in Products : orderLine[o][p].allocation = "RESERVED"}
ConsumedProducts(o) == {p \in Products : orderLine[o][p].allocation = "CONSUMED"}
HeldPets(o) == IF IsLegacy(o) THEN OrderPets(o)
               ELSE {q \in Pets : orderLine[o][q].allocation = "RESERVED"}

\* Mutant: the last reserved unit cannot be released.
ReservesExceed(o) ==
    \A p \in ReservedProducts(o) : orderLine[o][p].quantity < product[p].reserved

\* The UPDATE of release_product hits a row only if reserved covers the line.
\* Otherwise the transaction fails with INVENTORY_STATE_CONFLICT.
ReservesCover(o) ==
    \A p \in ReservedProducts(o) : orderLine[o][p].quantity <= product[p].reserved

Reallocated(o, items, allocation) ==
    orderLine' = [orderLine EXCEPT ![o] = [i \in Items |->
        IF i \in items THEN [orderLine[o][i] EXCEPT !.allocation = allocation]
        ELSE orderLine[o][i]]]

\* release(consume=False): reserves are dropped, paid units go back to stock.
Release(o) ==
    /\ ReservesCover(o)
    /\ product' = [p \in Products |->
         IF p \in ReservedProducts(o)
         THEN [product[p] EXCEPT !.reserved = @ - orderLine[o][p].quantity]
         ELSE IF p \in ConsumedProducts(o)
         THEN [product[p] EXCEPT !.stock = @ + orderLine[o][p].quantity]
         ELSE product[p]]
    /\ PetsBecome(HeldPets(o), "available")
    /\ Reallocated(o, ReservedProducts(o) \cup ConsumedProducts(o)
                        \cup {q \in Pets : orderLine[o][q].allocation = "RESERVED"},
                   "RELEASED")

\* Mutant: sold units leave the stock and stay reserved.
ConsumedStockOnly(o) ==
    [p \in Products |->
        IF p \in ReservedProducts(o)
        THEN [product[p] EXCEPT !.stock = @ - orderLine[o][p].quantity]
        ELSE product[p]]

\* consume_paid_products, and release(consume=True) for the product lines.
ConsumedStock(o) ==
    [p \in Products |->
        IF p \in ReservedProducts(o)
        THEN [stock |-> product[p].stock - orderLine[o][p].quantity,
              reserved |-> product[p].reserved - orderLine[o][p].quantity]
        ELSE product[p]]

\* release(consume=True): everything still reserved is handed over.
Consume(o) ==
    /\ ReservesCover(o)
    /\ product' = ConsumedStock(o)
    /\ PetsBecome(HeldPets(o), "sold")
    /\ Reallocated(o, {i \in Items : orderLine[o][i].allocation = "RESERVED"},
                   "CONSUMED")

-----------------------------------------------------------------------------
\* The UPDATEs of this service and of a payment bump the version of the order.

\* Mutant: an UPDATE without version=version+1.
MovedUnversioned(row, status, paymentStatus) ==
    [row EXCEPT !.status = status, !.paymentStatus = paymentStatus]

Moved(row, status, paymentStatus) ==
    [row EXCEPT !.status = status, !.paymentStatus = paymentStatus,
                !.version = @ + 1]

Transitioned(o, status, paymentStatus) ==
    storeOrder' = [storeOrder EXCEPT ![o] = Moved(@, status, paymentStatus)]

-----------------------------------------------------------------------------
\* create: a draft with the prices of the cart and no reserve.
CreateOrder(o, u) ==
    LET basket == {i \in Items : InBasket(cartLine[u], i)} IN
    /\ storeOrder[o].status = "absent"
    /\ basket # {}
    /\ \A i \in basket : card[i].publication = "PUBLISHED"
    /\ storeOrder' = [storeOrder EXCEPT ![o] =
          [NoOrderRow EXCEPT !.owner = u, !.status = "draft", !.cartVersion = cart[u]]]
    /\ orderLine' = [orderLine EXCEPT ![o] = [i \in Items |->
          [quantity |-> cartLine[u][i].quantity,
           price |-> IF i \notin basket THEN NoPrice
                     ELSE IF cartLine[u][i].price = NoPrice THEN card[i].price
                     ELSE cartLine[u][i].price,
           allocation |-> "NONE"]]]
    /\ UNCHANGED <<stockVars, payment, card, cartVars>>

\* Mutant: the quoted price is not compared.
SellableAtAnyPrice(line, i) ==
    /\ card[i].publication = "PUBLISHED"
    /\ i \in Products => line.quantity <= product[i].stock - product[i].reserved
    /\ i \in Pets => pet[i] = "available"

\* Mutant: units that others reserved are sold again.
SellableFromStock(line, i) ==
    /\ card[i].publication = "PUBLISHED"
    /\ card[i].price = line.price
    /\ i \in Products => line.quantity <= product[i].stock
    /\ i \in Pets => pet[i] = "available"

\* Mutant: the status of a pet is not looked at.
SellableHeldPet(line, i) ==
    /\ card[i].publication = "PUBLISHED"
    /\ card[i].price = line.price
    /\ i \in Products => line.quantity <= product[i].stock - product[i].reserved

\* checkout_amount: the line can still be sold, at the price it was quoted.
Sellable(line, i) ==
    /\ card[i].publication = "PUBLISHED"
    /\ card[i].price = line.price
    /\ i \in Products => line.quantity <= product[i].stock - product[i].reserved
    /\ i \in Pets => pet[i] = "available"

\* place: the whole basket is reserved, or nothing is, and the cart is emptied.
Place(actor, o) ==
    LET u == storeOrder[o].owner
        basket == {i \in Items : InBasket(orderLine[o], i)}
    IN
    /\ MayModify(actor, o)
    /\ ~IsLegacy(o)
    /\ storeOrder[o].status = "draft"
    /\ cart[u] = storeOrder[o].cartVersion
    /\ u \in Profiled
    /\ \A i \in basket : Sellable(orderLine[o][i], i)
    /\ product' = [p \in Products |->
          [product[p] EXCEPT !.reserved = @ + orderLine[o][p].quantity]]
    /\ PetsBecome(basket \cap Pets, "reserved")
    /\ Reallocated(o, basket, "RESERVED")
    /\ Transitioned(o, "placed", "UNPAID")
    /\ cartLine' = [cartLine EXCEPT ![u] = [i \in Items |-> NoCartLine]]
    /\ cart' = [cart EXCEPT ![u] = @ + 1]
    /\ UNCHANGED <<payment, card>>

-----------------------------------------------------------------------------
\* transition.  An overdue order is expired first, which fails the caller's
\* version or status check and rolls back, so only orders in time pass.

MayTransition(actor, o, target) ==
    /\ IF target = "cancelled" THEN MayModify(actor, o) ELSE actor \in Admins
    /\ ~Overdue(o)
    /\ CanTransition(storeOrder[o].status, target)

\* Mutant: approval does not wait for payment.
ApproveUnpaid(actor, o) ==
    /\ MayTransition(actor, o, "approved")
    /\ Transitioned(o, "approved", storeOrder[o].paymentStatus)
    /\ UNCHANGED <<orderLine, stockVars, payment, card, cartVars>>

Approve(actor, o) ==
    /\ MayTransition(actor, o, "approved")
    /\ storeOrder[o].paymentStatus = "PAID"
    /\ Transitioned(o, "approved", "PAID")
    /\ UNCHANGED <<orderLine, stockVars, payment, card, cartVars>>

Ship(actor, o) ==
    /\ MayTransition(actor, o, "shipped")
    /\ Transitioned(o, "shipped", storeOrder[o].paymentStatus)
    /\ UNCHANGED <<orderLine, stockVars, payment, card, cartVars>>

Deliver(actor, o) ==
    /\ MayTransition(actor, o, "delivered")
    /\ Consume(o)
    /\ Transitioned(o, "delivered", storeOrder[o].paymentStatus)
    /\ UNCHANGED <<payment, card, cartVars>>

Cancel(actor, o) ==
    /\ MayTransition(actor, o, "cancelled")
    /\ Refundable(o)
    /\ Refunded(o)
    /\ Release(o)
    /\ Transitioned(o, "cancelled", StatusAfterRefund(o))
    /\ UNCHANGED <<card, cartVars>>

-----------------------------------------------------------------------------
\* expire_locked, for one order of the sweep.  The sweep skips orders another
\* transaction has locked, so it may handle any set of them: one at a time.
Expired(o) ==
    /\ Overdue(o)
    /\ ~IsLegacy(o)
    /\ Release(o)
    /\ Transitioned(o, "expired", "EXPIRED")

ExpireMixed(o) == Expired(o) /\ UNCHANGED <<payment, card, cartVars>>

\* delete: a draft by its owner, a completed order by an administrator.
Delete(actor, o) ==
    /\ storeOrder[o].status \in {"draft"} \cup CompleteStatus
    /\ MayModify(actor, o)
    /\ storeOrder[o].status # "draft" => actor \in Admins
    /\ RowsDeleted(o)
    /\ UNCHANGED <<stockVars, card, cartVars>>

CommerceNext ==
    \/ "MIXED" \in Kinds /\ \E o \in Orders, u \in Users : CreateOrder(o, u)
    \/ \E actor \in Users, o \in Orders : \/ Place(actor, o)
                                          \/ Approve(actor, o)
                                          \/ Ship(actor, o)
                                          \/ Deliver(actor, o)
                                          \/ Cancel(actor, o)
                                          \/ Delete(actor, o)
    \/ \E o \in Orders : ExpireMixed(o)

=============================================================================
