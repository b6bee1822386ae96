-------------------------------- MODULE Shop --------------------------------
(***************************************************************************)
(* The shop: carts, catalogue, orders of both kinds and payments over one  *)
(* database, with concurrent handlers and the expiry worker.               *)
(***************************************************************************)
EXTENDS CartService, CatalogService, PaymentData, Functions

CONSTANT Stocks     \* the stocks products start with

ASSUME StocksAssumption == Stocks \subseteq Nat

\* An order placed before payments existed: V6 gave it NOT_REQUIRED and no
\* deadline, V11 its kind and version.
MigratedRow(u, q) ==
    [NoOrderRow EXCEPT !.kind = "LEGACY", !.owner = u, !.status = "placed",
                       !.paymentStatus = "NOT_REQUIRED", !.pet = q]

Init ==
    /\ \E owner \in [Migrated -> Users], held \in Injection(Migrated, Pets) :
          /\ storeOrder = [o \in Orders |->
                IF o \in Migrated THEN MigratedRow(owner[o], held[o])
                ELSE NoOrderRow]
          /\ pet = [q \in Pets |-> IF \E o \in Migrated : held[o] = q
                                   THEN "reserved" ELSE "available"]
    /\ orderLine = [o \in Orders |-> [i \in Items |-> NoLine]]
    /\ payment = [k \in PaymentKeys |-> NoPayment]
    /\ product \in [Products -> {[stock |-> n, reserved |-> 0] : n \in Stocks}]
    /\ card \in [Items -> [publication : {"PUBLISHED"}, price : Prices]]
    /\ cart = [u \in Users |-> 1]
    /\ cartLine = [u \in Users |-> [i \in Items |-> NoCartLine]]

\* The 15 minutes of an unpaid order run out.
DeadlinePasses(o) ==
    /\ storeOrder[o].status = "placed"
    /\ storeOrder[o].paymentStatus = "UNPAID"
    /\ ~storeOrder[o].late
    /\ storeOrder' = [storeOrder EXCEPT ![o].late = TRUE]
    /\ UNCHANGED <<orderLine, stockVars, payment, card, cartVars>>

\* One turn of the worker that finds the order o unlocked.
Sweep(o) == ExpireMixed(o) \/ ExpireLegacy(o)

Next ==
    \/ CartNext
    \/ CatalogNext
    \/ CommerceNext
    \/ PaymentNext
    \/ LegacyNext
    \/ \E o \in Orders : DeadlinePasses(o)

\* Time passes, and the worker wakes up every expire_interval for as long as
\* the application runs.  Nothing obliges a client to do anything.
Fairness == \A o \in Orders : WF_vars(DeadlinePasses(o)) /\ WF_vars(Sweep(o))

Spec == Init /\ [][Next]_vars

FairSpec == Spec /\ Fairness

-----------------------------------------------------------------------------
(***************************************************************************)
(* Safety.                                                                 *)
(***************************************************************************)

\* Where the units of a line of an order must be, given the order's status.
ExpectedAllocation(row, line, i) ==
    IF line.quantity = 0 \/ row.status = "draft" THEN "NONE"
    ELSE IF row.status \in {"cancelled", "expired"} THEN "RELEASED"
    ELSE IF row.status = "delivered" THEN "CONSUMED"
    ELSE IF row.paymentStatus = "PAID" /\ i \in Products THEN "CONSUMED"
    ELSE "RESERVED"

\* Every line of every order is reserved, consumed or released exactly when
\* the status and the payment of its order say so (place, payment, release,
\* consume_paid_products and expire_locked together).
AllocationFollowsStatus ==
    \A o \in Orders : \A i \in Items :
        orderLine[o][i].allocation =
            ExpectedAllocation(storeOrder[o], orderLine[o][i], i)

\* Which payment statuses an order may have in each status.
PaymentStatusesIn(row) ==
    LET unpriced == IF row.kind = "LEGACY" THEN {"NOT_REQUIRED"} ELSE {} IN
    CASE row.status \in {"absent", "draft"} -> {"NOT_STARTED"}
      [] row.status = "placed" -> {"UNPAID", "PAID"} \cup unpriced
      [] row.status \in {"approved", "shipped", "delivered"} -> {"PAID"} \cup unpriced
      [] row.status = "cancelled" -> {"UNPAID", "REFUNDED"} \cup unpriced
      [] row.status = "expired" -> {"EXPIRED"}

\* What one order row and its lines say together.
RowOK(row, lines) ==
    /\ row.paymentStatus \in PaymentStatusesIn(row)
    /\ row.status = "expired" => row.late
    /\ row.paymentStatus \in {"PAID", "REFUNDED"} => ~row.late
    /\ row.kind = "LEGACY" <=> row.pet \in Pets
    /\ row.kind = "LEGACY" \/ row.status = "absent" =>
           \A i \in Items : lines[i].quantity = 0
    /\ \A q \in Pets : lines[q].quantity <= 1
    /\ \A i \in Items : lines[i].allocation = ExpectedAllocation(row, lines[i], i)

\* Status, payment status, deadline, kind and lines of each order agree, after
\* any sequence of handlers, for MIXED and LEGACY orders: nothing is approved
\* unpaid, refunded while not cancelled, or expired in time.
OrdersAgree == \A o \in Orders : RowOK(storeOrder[o], orderLine[o])

\* The units of a product that the lines of an order keep from others.
ReservedUnits(o, p) == IF orderLine[o][p].allocation = "RESERVED"
                       THEN {o} \X (1 .. orderLine[o][p].quantity) ELSE {}

\* The reserved column of a product counts the units of all reserved lines,
\* whichever handlers place, pay, release and consume them (place, release_product).
ReservedIsSumOfLines ==
    \A p \in Products :
        product[p].reserved = Cardinality(UNION {ReservedUnits(o, p) : o \in Orders})

\* No active order is stuck: its reserves cover its lines and, if it is paid, there
\* is the one payment to refund; what can be paid has no success yet.  So expiry,
\* cancellation, delivery and payment never fail with INVENTORY_STATE_CONFLICT, a
\* refund conflict or uq_payments_one_success (release, consume_paid_products).
EndingsNeverFail ==
    \A o \in Orders :
        /\ storeOrder[o].status \in ActiveStatus => ReservesCover(o) /\ Refundable(o)
        /\ Payable(o) => NoSuccessYet(o)

\* A pet is reserved exactly while an active order of either kind holds it,
\* whatever order, payment and catalogue handlers do (update_pet_status).
PetReservedIffHeld ==
    \A q \in Pets : pet[q] = "reserved" <=> HasActiveOrder(q)

\* Two active orders, LEGACY or MIXED, never hold the same pet: the unique
\* index covers LEGACY rows only, the rest is left to has_active_order and
\* checkout_amount.
PetHeldOnce ==
    \A o1, o2 \in Orders :
        /\ storeOrder[o1].status \in ActiveStatus
        /\ storeOrder[o2].status \in ActiveStatus
        /\ OrderPets(o1) \cap OrderPets(o2) # {}
        => o1 = o2

\* The payment status of an order agrees with its payment rows: paid means
\* one successful payment, refunded one refunded payment, else neither.
\* Goods move (approved and later) only when paid, or for migrated orders.
PaymentsAgree ==
    \A o \in Orders :
        LET settled == {k \in PaymentKeys : /\ payment[k].order = o
                                            /\ payment[k].status # "DECLINED"}
            row == storeOrder[o]
        IN
        /\ IF row.paymentStatus \in {"PAID", "REFUNDED"}
           THEN \E k \in PaymentKeys :
                    /\ settled = {k}
                    /\ payment[k].status = "SUCCEEDED" <=> row.paymentStatus = "PAID"
           ELSE settled = {}
        /\ row.status \in {"approved", "shipped", "delivered"} =>
               \/ row.paymentStatus = "PAID"
               \/ IsLegacy(o) /\ row.paymentStatus = "NOT_REQUIRED"
        /\ row.paymentStatus = "REFUNDED" => row.status = "cancelled"

\* A draft whose cart version is still current describes that very cart.
DraftMirrorsCart ==
    \A o \in Orders :
        LET u == storeOrder[o].owner IN
        /\ storeOrder[o].status = "draft"
        /\ ~IsLegacy(o)
        /\ storeOrder[o].cartVersion = cart[u]
        => \A i \in Items : orderLine[o][i].quantity = cartLine[u][i].quantity

-----------------------------------------------------------------------------
(***************************************************************************)
(* What a step may never do.                                               *)
(***************************************************************************)

\* Placing an order buys the contents of the cart it empties, at catalogue
\* prices, and an order placed from a cart version rules out another.
PlacedIsCart ==
    [][\A o \in Orders :
         LET u == storeOrder[o].owner IN
         /\ storeOrder[o].kind = "MIXED"
         /\ storeOrder[o].status = "draft"
         /\ storeOrder'[o].status = "placed"
         => \A i \in Items :
               /\ orderLine[o][i].quantity = cartLine[u][i].quantity
               /\ InBasket(orderLine[o], i) => orderLine[o][i].price = card[i].price
               /\ cartLine'[u][i].quantity = 0]_vars

\* Payment and the deadline exclude each other.  Nothing pays, cancels or approves an
\* order after its deadline: it expires, or an administrator deletes it.  And none
\* expires in time (create_payment, transition, expire_locked).
DeadlineDecides ==
    [][\A o \in Orders :
         /\ Overdue(o) => \/ storeOrder'[o] = storeOrder[o]
                          \/ storeOrder'[o].status \in {"expired", "absent"}
         /\ storeOrder[o].status # "expired" /\ storeOrder'[o].status = "expired"
               => Overdue(o)]_vars

\* The rows of an order that the version column has to tell apart.
Changes(o) ==
    /\ storeOrder[o].status # "absent"
    /\ storeOrder'[o].status # "absent"
    /\ \/ storeOrder'[o].status # storeOrder[o].status
       \/ storeOrder'[o].paymentStatus # storeOrder[o].paymentStatus
       \/ orderLine'[o] # orderLine[o]

\* Each change of a MIXED order makes the versions clients hold stale.
MixedVersionGrows ==
    [][\A o \in Orders : Changes(o) /\ ~IsLegacy(o)
          => storeOrder'[o].version = storeOrder[o].version + 1]_vars

\* The same for orders of both kinds, which transition compares with the
\* version the client saw.
VersionGrows ==
    [][\A o \in Orders : Changes(o)
          => storeOrder'[o].version = storeOrder[o].version + 1]_vars

\* Money goes back only in the step that cancels its order, and a successful
\* payment leaves the history only with its order.
RefundIsCancellation ==
    [][\A k \in PaymentKeys :
          LET o == payment[k].order IN
          payment[k].status \in {"SUCCEEDED", "REFUNDED"} =>
             \/ payment'[k] = payment[k]
             \/ /\ payment'[k] = [order |-> o, status |-> "REFUNDED"]
                /\ storeOrder[o].status \in {"placed", "approved"}
                /\ storeOrder'[o].status = "cancelled"
             \/ storeOrder'[o].status = "absent"]_vars

-----------------------------------------------------------------------------
(***************************************************************************)
(* Liveness and refinement.                                                *)
(***************************************************************************)

Unpaid(o) == storeOrder[o].status = "placed" /\ storeOrder[o].paymentStatus = "UNPAID"

\* An unpaid reservation does not last: it is paid, cancelled or expired.
ReservationEnds == \A o \in Orders : Unpaid(o) ~> ~Unpaid(o)

\* The units of the catalogue as the warehouse sees them.
free == [i \in Items |->
    IF i \in Products THEN product[i].stock - product[i].reserved
    ELSE IF pet[i] = "available" THEN 1 ELSE 0]

claim == [o \in Orders |-> [i \in Items |->
    IF storeOrder[o].status \notin ActiveStatus THEN 0
    ELSE IF ~IsLegacy(o) THEN orderLine[o][i].quantity
    ELSE IF i = storeOrder[o].pet THEN 1 ELSE 0]]

sold == {o \in Orders : storeOrder[o].status = "delivered"}

W == INSTANCE Warehouse WITH Singles <- Pets

\* The shop implements the warehouse: whatever handlers run, orders claim, give
\* back and sell goods as Warehouse allows.
WarehouseSpec == W!Spec

=============================================================================
