------------------------------ MODULE OrderData ------------------------------
(***************************************************************************)
(* The earlier order API, still served: LEGACY orders of a single pet.     *)
(* None of its updates touches the version column of store_orders.         *)
(***************************************************************************)
EXTENDS ShopState

Visible(q) == card[q].publication = "PUBLISHED"

\* create_draft: any published pet, whatever its availability.
LegacyCreate(o, u, q) ==
    /\ storeOrder[o].status = "absent"
    /\ Visible(q)
    /\ storeOrder' = [storeOrder EXCEPT ![o] =
          [NoOrderRow EXCEPT !.kind = "LEGACY", !.owner = u, !.status = "draft",
                             !.pet = q]]
    /\ UNCHANGED <<orderLine, stockVars, payment, card, cartVars>>

\* update_draft
LegacyUpdate(actor, o, q) ==
    /\ IsLegacy(o)
    /\ MayModify(actor, o)
    /\ storeOrder[o].status = "draft"
    /\ Visible(q)
    /\ storeOrder' = [storeOrder EXCEPT ![o].pet = q]
    /\ UNCHANGED <<orderLine, stockVars, payment, card, cartVars>>

\* The UPDATEs of LEGACY orders leave the version alone.
LegacyMoved(row, status, paymentStatus) ==
    [row EXCEPT !.status = status, !.paymentStatus = paymentStatus]

LegacyTransitioned(o, status, paymentStatus) ==
    storeOrder' = [storeOrder EXCEPT ![o] = LegacyMoved(@, status, paymentStatus)]

\* Mutant: an expiry that keeps the pet.
LegacyExpiredHolding(o) ==
    /\ IsLegacy(o)
    /\ Overdue(o)
    /\ LegacyTransitioned(o, "expired", "EXPIRED")
    /\ UNCHANGED <<pet, product, orderLine>>

\* expire_locked_order_if_needed
LegacyExpired(o) ==
    /\ IsLegacy(o)
    /\ Overdue(o)
    /\ LegacyTransitioned(o, "expired", "EXPIRED")
    /\ PetsBecome(OrderPets(o), "available")
    /\ UNCHANGED <<product, orderLine>>

ExpireLegacy(o) == LegacyExpired(o) /\ UNCHANGED <<payment, card, cartVars>>

\* place_draft: overdue LEGACY orders of the same pet are expired in the same
\* transaction, then the pet must be free.
LegacyPlace(actor, o) ==
    LET q == storeOrder[o].pet
        old == {x \in Orders : Overdue(x) /\ storeOrder[x].pet = q}
        status == IF old = {} THEN pet[q] ELSE "available"
    IN
    /\ IsLegacy(o)
    /\ MayModify(actor, o)
    /\ storeOrder[o].status = "draft"
    /\ storeOrder[o].owner \in Profiled
    /\ Visible(q)
    /\ status = "available"
    /\ \A x \in Orders \ old :
          storeOrder[x].status \in ActiveStatus => q \notin OrderPets(x)
    /\ storeOrder' = [x \in Orders |->
          IF x = o THEN LegacyMoved(storeOrder[o], "placed", "UNPAID")
          ELSE IF x \in old THEN LegacyMoved(storeOrder[x], "expired", "EXPIRED")
          ELSE storeOrder[x]]
    /\ pet' = [pet EXCEPT ![q] = "reserved"]
    /\ UNCHANGED <<orderLine, product, payment, card, cartVars>>

-----------------------------------------------------------------------------
\* transition

LegacyMayMove(actor, o, target) ==
    /\ IsLegacy(o)
    /\ IF target = "cancelled" THEN MayModify(actor, o) ELSE actor \in Admins
    /\ ~Overdue(o)
    /\ CanTransition(storeOrder[o].status, target)

LegacyApprove(actor, o) ==
    /\ LegacyMayMove(actor, o, "approved")
    /\ storeOrder[o].paymentStatus \in {"PAID", "NOT_REQUIRED"}
    /\ LegacyTransitioned(o, "approved", storeOrder[o].paymentStatus)
    /\ UNCHANGED <<orderLine, stockVars, payment, card, cartVars>>

LegacyShip(actor, o) ==
    /\ LegacyMayMove(actor, o, "shipped")
    /\ LegacyTransitioned(o, "shipped", storeOrder[o].paymentStatus)
    /\ UNCHANGED <<orderLine, stockVars, payment, card, cartVars>>

LegacyDeliver(actor, o) ==
    /\ LegacyMayMove(actor, o, "delivered")
    /\ LegacyTransitioned(o, "delivered", storeOrder[o].paymentStatus)
    /\ PetsBecome(OrderPets(o), "sold")
    /\ UNCHANGED <<orderLine, product, payment, card, cartVars>>

\* The pet is freed only if no other active order is found on it.
LegacyCancel(actor, o) ==
    /\ LegacyMayMove(actor, o, "cancelled")
    /\ Refundable(o)
    /\ Refunded(o)
    /\ LegacyTransitioned(o, "cancelled", StatusAfterRefund(o))
    /\ PetsBecome({q \in OrderPets(o) : \A x \in Orders \ {o} :
                      storeOrder[x].status \in ActiveStatus => q \notin OrderPets(x)},
                  "available")
    /\ UNCHANGED <<orderLine, product, card, cartVars>>

\* Mutant: the overdue order is deleted and its pet stays reserved.
LegacyDeleteHolding(actor, o) ==
    /\ IsLegacy(o)
    /\ MayModify(actor, o)
    /\ storeOrder[o].status \in {"draft"} \cup CompleteStatus \/ Overdue(o)
    /\ storeOrder[o].status # "draft" => actor \in Admins
    /\ RowsDeleted(o)
    /\ UNCHANGED <<stockVars, card, cartVars>>

\* delete_order: an overdue order is expired and, by an administrator, deleted
\* in the same transaction.
LegacyDelete(actor, o) ==
    /\ IsLegacy(o)
    /\ MayModify(actor, o)
    /\ storeOrder[o].status \in {"draft"} \cup CompleteStatus \/ Overdue(o)
    /\ storeOrder[o].status # "draft" => actor \in Admins
    /\ PetsBecome(IF Overdue(o) THEN OrderPets(o) ELSE {}, "available")
    /\ RowsDeleted(o)
    /\ UNCHANGED <<product, card, cartVars>>

LegacyNext ==
    \/ "LEGACY" \in Kinds /\ \E o \in Orders, u \in Users, q \in Pets :
          LegacyCreate(o, u, q) \/ LegacyUpdate(u, o, q)
    \/ \E actor \in Users, o \in Orders : \/ LegacyPlace(actor, o)
                                          \/ LegacyApprove(actor, o)
                                          \/ LegacyShip(actor, o)
                                          \/ LegacyDeliver(actor, o)
                                          \/ LegacyCancel(actor, o)
                                          \/ LegacyDelete(actor, o)
    \/ \E o \in Orders : ExpireLegacy(o)

=============================================================================
