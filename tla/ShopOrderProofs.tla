--------------------------- MODULE ShopOrderProofs ---------------------------
(***************************************************************************)
(* Rows keep their types, and every order agrees with itself: TypeOK,      *)
(* OrdersAgree, and what follows from them.  RowOK speaks of one order at  *)
(* a time, so each action is a lemma about the row and the lines of the    *)
(* order it writes.                                                        *)
(***************************************************************************)
EXTENDS Shop, FiniteSetTheorems, TLAPS

USE DEF orderVars, stockVars, cartVars

-----------------------------------------------------------------------------
(* Types: one lemma per component *)

LEMMA CartType == ASSUME TypeOK, CartNext PROVE TypeOK'
<1> PICK u \in Users, basket \in Baskets : ReplaceCart(u, basket)
  BY DEF CartNext
<1>1. cart' \in [Users -> Nat]
  BY DEF TypeOK, ReplaceCart
<1>2. \A i \in Items : SnapshotPrice(u, i) \in Prices \cup {NoPrice}
  BY DEF TypeOK, SnapshotPrice, CardRow, CartLineRow
<1>3. \A i \in Items : basket[i] \in Nat
  BY ConstantsAssumption DEF Baskets
<1>4. cartLine' \in [Users -> [Items -> CartLineRow]]
  BY <1>2, <1>3 DEF TypeOK, ReplaceCart, CartLineRow, NoCartLine
<1> QED BY <1>1, <1>4 DEF TypeOK, ReplaceCart

LEMMA CatalogType == ASSUME TypeOK, CatalogNext PROVE TypeOK'
<1>1. ASSUME NEW p \in Products, NEW stock \in StockLevels, AdjustStock(p, stock)
      PROVE  TypeOK'
  <2>1. product' \in [Products -> ProductRow]
    BY <1>1, CatalogAssumption DEF TypeOK, AdjustStock, ProductRow
  <2> QED BY <1>1, <2>1 DEF TypeOK, AdjustStock
<1>2. ASSUME NEW i \in Repriced, NEW price \in Prices \cup {NoPrice},
             SavePrice(i, price)
      PROVE  TypeOK'
  <2>1. card' \in [Items -> CardRow]
    BY <1>2, CatalogAssumption DEF TypeOK, SavePrice, CardRow
  <2> QED BY <1>2, <2>1 DEF TypeOK, SavePrice
<1>3. ASSUME NEW i \in Items, NEW target \in Targets, Publish(i, target)
      PROVE  TypeOK'
  <2>1. card' \in [Items -> CardRow]
    BY <1>3, CatalogAssumption DEF TypeOK, Publish, CardRow
  <2> QED BY <1>3, <2>1 DEF TypeOK, Publish
<1>4. ASSUME NEW q \in Pets, NEW status \in PetStatuses \cup {pet[q]},
             NEW price \in IF q \in Repriced THEN Prices ELSE {card[q].price},
             UpdatePet(q, status, price)
      PROVE  TypeOK'
  <2>1. pet' \in [Pets -> PetStatus]
    BY <1>4, CatalogAssumption DEF TypeOK, UpdatePet
  <2>2. q \in Items /\ card[q] \in CardRow
    BY DEF TypeOK, Items
  <2>3. [card[q] EXCEPT !.price = price] \in CardRow
    BY <2>2, ConstantsAssumption DEF CardRow
  <2>4. card' \in [Items -> CardRow]
    BY <1>4, <2>2, <2>3 DEF TypeOK, UpdatePet
  <2> QED BY <1>4, <2>1, <2>4 DEF TypeOK, UpdatePet
<1> QED BY <1>1, <1>2, <1>3, <1>4 DEF CatalogNext

LEMMA InitType == Init => TypeOK
<1> SUFFICES ASSUME Init PROVE TypeOK
  OBVIOUS
<1>1. NoOrderRow \in OrderRow
  BY DEF NoOrderRow, OrderRow, OrderStatus, PaymentStatus
<1>2. storeOrder \in [Orders -> OrderRow] /\ pet \in [Pets -> PetStatus]
  <2> PICK owner \in [Migrated -> Users], held \in Injection(Migrated, Pets) :
        /\ storeOrder = [o \in Orders |->
              IF o \in Migrated THEN MigratedRow(owner[o], held[o]) ELSE NoOrderRow]
        /\ pet = [q \in Pets |-> IF \E o \in Migrated : held[o] = q
                                 THEN "reserved" ELSE "available"]
    BY DEF Init
  <2>1. held \in [Migrated -> Pets]
    BY DEF Injection
  <2>2. \A o \in Migrated : MigratedRow(owner[o], held[o]) \in OrderRow
    BY <2>1 DEF MigratedRow, NoOrderRow, OrderRow, OrderStatus, PaymentStatus
  <2> QED BY <1>1, <2>2 DEF PetStatus
<1>3. orderLine \in [Orders -> [Items -> LineRow]]
  BY DEF Init, NoLine, LineRow, Allocation
<1>4. payment \in [PaymentKeys -> PaymentRow]
  BY DEF Init, NoPayment, PaymentRow
<1>5. product \in [Products -> ProductRow]
  BY StocksAssumption DEF Init, ProductRow
<1>6. card \in [Items -> CardRow]
  BY ConstantsAssumption DEF Init, CardRow, Publication
<1>7. cart \in [Users -> Nat] /\ cartLine \in [Users -> [Items -> CartLineRow]]
  BY DEF Init, NoCartLine, CartLineRow
<1> QED BY <1>2, <1>3, <1>4, <1>5, <1>6, <1>7 DEF TypeOK

-----------------------------------------------------------------------------
\* What the shared row updates keep well-typed.

LEMMA ReallocatedType ==
  ASSUME TypeOK, NEW o \in Orders, NEW items, NEW a \in Allocation,
         Reallocated(o, items, a)
  PROVE  orderLine' \in [Orders -> [Items -> LineRow]]
<1>1. ASSUME NEW r \in LineRow PROVE [r EXCEPT !.allocation = a] \in LineRow
  BY DEF LineRow
<1>2. \A i \in Items : orderLine[o][i] \in LineRow
  BY DEF TypeOK
<1> DEFINE lines == [i \in Items |->
              IF i \in items THEN [orderLine[o][i] EXCEPT !.allocation = a]
              ELSE orderLine[o][i]]
<1>3. lines \in [Items -> LineRow]
  BY <1>1, <1>2
<1>4. orderLine' = [orderLine EXCEPT ![o] = lines]
  BY DEF Reallocated
<1> HIDE DEF lines
<1> QED BY <1>3, <1>4 DEF TypeOK

LEMMA RefundedType ==
  ASSUME TypeOK, NEW o \in Orders, Refunded(o)
  PROVE  payment' \in [PaymentKeys -> PaymentRow]
<1>1. ASSUME NEW r \in PaymentRow
      PROVE  [r EXCEPT !.status = "REFUNDED"] \in PaymentRow
  BY DEF PaymentRow
<1>2. \A k \in PaymentKeys : payment[k] \in PaymentRow
  BY DEF TypeOK
<1> QED BY <1>1, <1>2 DEF TypeOK, Refunded

LEMMA PetsBecomeType ==
  ASSUME TypeOK, NEW held, NEW status \in PetStatus, PetsBecome(held, status)
  PROVE  pet' \in [Pets -> PetStatus]
  BY DEF TypeOK, PetsBecome

LEMMA NoOrderRowType == NoOrderRow \in OrderRow
  BY DEF NoOrderRow, OrderRow, OrderStatus, PaymentStatus

LEMMA DeletedType ==
  ASSUME TypeOK, NEW o \in Orders, RowsDeleted(o)
  PROVE  /\ storeOrder' \in [Orders -> OrderRow]
         /\ orderLine' \in [Orders -> [Items -> LineRow]]
         /\ payment' \in [PaymentKeys -> PaymentRow]
<1>1. NoLine \in LineRow /\ NoPayment \in PaymentRow
  BY DEF NoLine, LineRow, Allocation, NoPayment, PaymentRow
<1> QED BY <1>1, NoOrderRowType DEF TypeOK, RowsDeleted

LEMMA ReleaseType ==
  ASSUME TypeOK, NEW o \in Orders, Release(o)
  PROVE  /\ product' \in [Products -> ProductRow]
         /\ pet' \in [Pets -> PetStatus]
         /\ orderLine' \in [Orders -> [Items -> LineRow]]
<1>1. \A p \in Products : orderLine[o][p] \in LineRow
  BY DEF TypeOK, Items
<1>2. product' \in [Products -> ProductRow]
  BY <1>1 DEF TypeOK, Release, ReservesCover, ReservedProducts, ProductRow, LineRow
<1> QED BY <1>2, ReallocatedType, PetsBecomeType
        DEF Release, Allocation, PetStatus

LEMMA ConsumedStockType ==
  ASSUME TypeOK, NEW o \in Orders, ReservesCover(o)
  PROVE  ConsumedStock(o) \in [Products -> ProductRow]
<1>1. \A p \in Products : orderLine[o][p] \in LineRow
  BY DEF TypeOK, Items
<1> QED BY <1>1 DEF TypeOK, ConsumedStock, ReservesCover, ReservedProducts,
                    ProductRow, LineRow

LEMMA ConsumeType ==
  ASSUME TypeOK, NEW o \in Orders, Consume(o)
  PROVE  /\ product' \in [Products -> ProductRow]
         /\ pet' \in [Pets -> PetStatus]
         /\ orderLine' \in [Orders -> [Items -> LineRow]]
  BY ConsumedStockType, ReallocatedType, PetsBecomeType
     DEF Consume, Allocation, PetStatus

LEMMA MovedRow ==
  ASSUME NEW row \in OrderRow, NEW status \in OrderStatus,
         NEW paymentStatus \in PaymentStatus,
         NEW new \in {Moved(row, status, paymentStatus),
                      LegacyMoved(row, status, paymentStatus)}
  PROVE  /\ new \in OrderRow
         /\ new.status = status /\ new.paymentStatus = paymentStatus
         /\ new.kind = row.kind /\ new.owner = row.owner /\ new.pet = row.pet
         /\ new.cartVersion = row.cartVersion /\ new.late = row.late
<1>1. ASSUME NEW n \in Nat
      PROVE  [row EXCEPT !.status = status, !.paymentStatus = paymentStatus,
                         !.version = n] \in OrderRow
  BY DEF OrderRow
<1>2. row.version + 1 \in Nat
  BY DEF OrderRow
<1>3. [row EXCEPT !.status = status, !.paymentStatus = paymentStatus] \in OrderRow
  BY DEF OrderRow
<1>4. new \in OrderRow
  BY <1>1, <1>2, <1>3 DEF Moved, LegacyMoved
<1> QED BY <1>4 DEF Moved, LegacyMoved, OrderRow

LEMMA TransitionedType ==
  ASSUME TypeOK, NEW o \in Orders, NEW status \in OrderStatus,
         NEW paymentStatus \in PaymentStatus,
         \/ Transitioned(o, status, paymentStatus)
         \/ LegacyTransitioned(o, status, paymentStatus)
  PROVE  storeOrder' \in [Orders -> OrderRow]
<1>1. storeOrder[o] \in OrderRow
  BY DEF TypeOK
<1>2. /\ Moved(storeOrder[o], status, paymentStatus) \in OrderRow
      /\ LegacyMoved(storeOrder[o], status, paymentStatus) \in OrderRow
  BY <1>1, MovedRow
<1> QED BY <1>2 DEF TypeOK, Transitioned, LegacyTransitioned

LEMMA PaymentStatusType ==
  ASSUME TypeOK, NEW o \in Orders
  PROVE  /\ storeOrder[o].paymentStatus \in PaymentStatus
         /\ StatusAfterRefund(o) \in PaymentStatus
  BY DEF TypeOK, StatusAfterRefund, OrderRow, PaymentStatus

-----------------------------------------------------------------------------
\* Each service keeps every row well-typed.

LEMMA CommerceType == ASSUME TypeOK, CommerceNext PROVE TypeOK'
<1>1. ASSUME NEW o \in Orders, NEW u \in Users, CreateOrder(o, u) PROVE TypeOK'
  <2>1. storeOrder' \in [Orders -> OrderRow]
    <3>1. cart[u] \in Nat
      BY DEF TypeOK
    <3>2. [NoOrderRow EXCEPT !.owner = u, !.status = "draft", !.cartVersion = cart[u]]
             \in OrderRow
      BY <3>1 DEF NoOrderRow, OrderRow, OrderStatus, PaymentStatus
    <3> QED BY <1>1, <3>2 DEF TypeOK, CreateOrder
  <2>2. orderLine' \in [Orders -> [Items -> LineRow]]
    BY <1>1 DEF TypeOK, CreateOrder, LineRow, CartLineRow, CardRow, Allocation
  <2> QED BY <1>1, <2>1, <2>2 DEF TypeOK, CreateOrder
<1>2. ASSUME NEW actor \in Users, NEW o \in Orders, Place(actor, o) PROVE TypeOK'
  <2>1. storeOrder' \in [Orders -> OrderRow]
    BY <1>2, TransitionedType DEF Place, OrderStatus, PaymentStatus
  <2>2. orderLine' \in [Orders -> [Items -> LineRow]]
    BY <1>2, ReallocatedType DEF Place, Allocation
  <2>3. product' \in [Products -> ProductRow]
    <3>1. \A p \in Products : orderLine[o][p].quantity \in Nat
      BY DEF TypeOK, Items, LineRow
    <3>2. \A p \in Products : product[p] \in ProductRow
      BY DEF TypeOK
    <3>3. \A p \in Products : orderLine[o][p].quantity <= product[p].stock - product[p].reserved
      BY <1>2, <3>1, <3>2 DEF Place, Sellable, InBasket, Items, ProductRow
    <3> QED BY <1>2, <3>1, <3>2, <3>3 DEF Place, ProductRow
  <2>4. pet' \in [Pets -> PetStatus]
    BY <1>2, PetsBecomeType DEF Place, PetStatus
  <2>5. cart' \in [Users -> Nat]
    <3>1. \A v \in Users : cart[v] + 1 \in Nat
      BY DEF TypeOK
    <3>2. cart' = [cart EXCEPT ![storeOrder[o].owner] = cart[storeOrder[o].owner] + 1]
      BY <1>2 DEF Place
    <3> QED BY <3>1, <3>2 DEF TypeOK
  <2>6. cartLine' \in [Users -> [Items -> CartLineRow]]
    <3>1. NoCartLine \in CartLineRow
      BY DEF NoCartLine, CartLineRow
    <3> QED BY <1>2, <3>1 DEF Place, TypeOK
  <2> QED BY <1>2, <2>1, <2>2, <2>3, <2>4, <2>5, <2>6 DEF TypeOK, Place
<1>3. ASSUME NEW actor \in Users, NEW o \in Orders, Approve(actor, o) PROVE TypeOK'
  BY <1>3, TransitionedType DEF Approve, TypeOK, OrderStatus, PaymentStatus
<1>4. ASSUME NEW actor \in Users, NEW o \in Orders, Ship(actor, o) PROVE TypeOK'
  BY <1>4, TransitionedType, PaymentStatusType DEF Ship, TypeOK, OrderStatus
<1>5. ASSUME NEW actor \in Users, NEW o \in Orders, Deliver(actor, o) PROVE TypeOK'
  BY <1>5, TransitionedType, PaymentStatusType, ConsumeType
     DEF Deliver, TypeOK, OrderStatus
<1>6. ASSUME NEW actor \in Users, NEW o \in Orders, Cancel(actor, o) PROVE TypeOK'
  BY <1>6, TransitionedType, PaymentStatusType, ReleaseType, RefundedType
     DEF Cancel, TypeOK, OrderStatus
<1>7. ASSUME NEW actor \in Users, NEW o \in Orders, Delete(actor, o) PROVE TypeOK'
  BY <1>7, DeletedType DEF Delete, TypeOK
<1>8. ASSUME NEW o \in Orders, ExpireMixed(o) PROVE TypeOK'
  BY <1>8, TransitionedType, ReleaseType
     DEF ExpireMixed, Expired, TypeOK, OrderStatus, PaymentStatus
<1> QED BY <1>1, <1>2, <1>3, <1>4, <1>5, <1>6, <1>7, <1>8 DEF CommerceNext

LEMMA PaymentType == ASSUME TypeOK, PaymentNext PROVE TypeOK'
<1>1. ASSUME NEW k \in PaymentKeys, NEW o \in Orders, NEW status, Attempted(k, o, status),
             status \in {"SUCCEEDED", "DECLINED"}
      PROVE  payment' \in [PaymentKeys -> PaymentRow]
  BY <1>1 DEF TypeOK, Attempted, PaymentRow
<1>2. ASSUME NEW k \in PaymentKeys, NEW actor \in Users, NEW o \in Orders,
             PaySucceeded(k, actor, o)
      PROVE  TypeOK'
  BY <1>1, <1>2, TransitionedType, ConsumedStockType, ReallocatedType
     DEF PaySucceeded, TypeOK, OrderStatus, PaymentStatus, Allocation
<1>3. ASSUME NEW k \in PaymentKeys, NEW actor \in Users, NEW o \in Orders,
             PayDeclined(k, actor, o)
      PROVE  TypeOK'
  BY <1>1, <1>3 DEF PayDeclined, TypeOK
<1>4. ASSUME NEW k \in PaymentKeys, NEW actor \in Users, NEW o \in Orders,
             PayTooLate(k, actor, o)
      PROVE  TypeOK'
  BY <1>4, TransitionedType, ReleaseType, PetsBecomeType
     DEF PayTooLate, Expired, LegacyExpired, TypeOK, OrderStatus, PaymentStatus, PetStatus
<1>5. ASSUME NEW k \in PaymentKeys, DeleteDeclined(k) PROVE TypeOK'
  BY <1>5 DEF DeleteDeclined, TypeOK, NoPayment, PaymentRow
<1> QED BY <1>2, <1>3, <1>4, <1>5 DEF PaymentNext

LEMMA LegacyType == ASSUME TypeOK, LegacyNext PROVE TypeOK'
<1>1. ASSUME NEW o \in Orders, NEW u \in Users, NEW q \in Pets, LegacyCreate(o, u, q)
      PROVE  TypeOK'
  <2>1. [NoOrderRow EXCEPT !.kind = "LEGACY", !.owner = u, !.status = "draft", !.pet = q]
           \in OrderRow
    BY DEF NoOrderRow, OrderRow, OrderStatus, PaymentStatus
  <2> QED BY <1>1, <2>1 DEF LegacyCreate, TypeOK
<1>2. ASSUME NEW o \in Orders, NEW u \in Users, NEW q \in Pets, LegacyUpdate(u, o, q)
      PROVE  TypeOK'
  <2>1. storeOrder[o] \in OrderRow
    BY DEF TypeOK
  <2>2. [storeOrder[o] EXCEPT !.pet = q] \in OrderRow
    BY <2>1 DEF OrderRow
  <2> QED BY <1>2, <2>2 DEF LegacyUpdate, TypeOK
<1>3. ASSUME NEW actor \in Users, NEW o \in Orders, LegacyPlace(actor, o) PROVE TypeOK'
  <2>1. \A x \in Orders : /\ storeOrder[x] \in OrderRow
                          /\ LegacyMoved(storeOrder[x], "placed", "UNPAID") \in OrderRow
                          /\ LegacyMoved(storeOrder[x], "expired", "EXPIRED") \in OrderRow
    BY MovedRow DEF TypeOK, OrderStatus, PaymentStatus
  <2> QED BY <1>3, <2>1 DEF LegacyPlace, TypeOK, PetStatus
<1>4. ASSUME NEW actor \in Users, NEW o \in Orders, LegacyApprove(actor, o) PROVE TypeOK'
  BY <1>4, TransitionedType, PaymentStatusType DEF LegacyApprove, TypeOK, OrderStatus
<1>5. ASSUME NEW actor \in Users, NEW o \in Orders, LegacyShip(actor, o) PROVE TypeOK'
  BY <1>5, TransitionedType, PaymentStatusType DEF LegacyShip, TypeOK, OrderStatus
<1>6. ASSUME NEW actor \in Users, NEW o \in Orders, LegacyDeliver(actor, o) PROVE TypeOK'
  BY <1>6, TransitionedType, PaymentStatusType, PetsBecomeType
     DEF LegacyDeliver, TypeOK, OrderStatus, PetStatus
<1>7. ASSUME NEW actor \in Users, NEW o \in Orders, LegacyCancel(actor, o) PROVE TypeOK'
  BY <1>7, TransitionedType, PaymentStatusType, PetsBecomeType, RefundedType
     DEF LegacyCancel, TypeOK, OrderStatus, PetStatus
<1>8. ASSUME NEW actor \in Users, NEW o \in Orders, LegacyDelete(actor, o) PROVE TypeOK'
  BY <1>8, DeletedType, PetsBecomeType DEF LegacyDelete, TypeOK, PetStatus
<1>9. ASSUME NEW o \in Orders, ExpireLegacy(o) PROVE TypeOK'
  BY <1>9, TransitionedType, PetsBecomeType
     DEF ExpireLegacy, LegacyExpired, TypeOK, OrderStatus, PaymentStatus, PetStatus
<1> QED BY <1>1, <1>2, <1>3, <1>4, <1>5, <1>6, <1>7, <1>8, <1>9 DEF LegacyNext

LEMMA DeadlineType ==
  ASSUME TypeOK, NEW o \in Orders, DeadlinePasses(o) PROVE TypeOK'
  BY DEF DeadlinePasses, TypeOK, OrderRow

LEMMA TypeStep == ASSUME TypeOK, [Next]_vars PROVE TypeOK'
<1>1. CASE UNCHANGED vars
  BY <1>1 DEF vars, TypeOK
<1> QED BY <1>1, CartType, CatalogType, CommerceType, PaymentType, LegacyType,
           DeadlineType DEF Next

\* Every reachable state is well-typed: in particular stock and reserves stay
\* natural numbers with reserved <= stock, so the CHECKs of products never fail.
THEOREM TypeInvariant == Spec => []TypeOK
<1>1. TypeOK /\ [Next]_vars => TypeOK'
  BY TypeStep
<1> QED BY InitType, <1>1, PTL DEF Spec

-----------------------------------------------------------------------------
(* One order *)

\* RowOK also needs carts to ask for one of a pet at most.
CartsOK == \A u \in Users : \A q \in Pets : cartLine[u][q].quantity <= 1

\* An action that leaves every other order alone preserves OrdersAgree if the
\* order it writes agrees afterwards.
OnlyChanges(o) == \A x \in Orders \ {o} : /\ storeOrder'[x] = storeOrder[x]
                                          /\ orderLine'[x] = orderLine[x]

LEMMA OneOrder ==
  ASSUME OrdersAgree, NEW o \in Orders, OnlyChanges(o),
         RowOK(storeOrder'[o], orderLine'[o])
  PROVE  OrdersAgree'
  BY DEF OrdersAgree, OnlyChanges

LEMMA RowFacts ==
  ASSUME TypeOK, OrdersAgree, NEW o \in Orders
  PROVE  /\ storeOrder[o] \in OrderRow
         /\ \A i \in Items : orderLine[o][i] \in LineRow
         /\ RowOK(storeOrder[o], orderLine[o])
  BY DEF TypeOK, OrdersAgree

\* What Transitioned and Reallocated write.
LEMMA TransitionedRow ==
  ASSUME TypeOK, NEW o \in Orders, NEW status \in OrderStatus,
         NEW paymentStatus \in PaymentStatus,
         \/ Transitioned(o, status, paymentStatus)
         \/ LegacyTransitioned(o, status, paymentStatus)
  PROVE  LET new == storeOrder'[o]
             old == storeOrder[o]
         IN  /\ new.status = status /\ new.paymentStatus = paymentStatus
             /\ new.kind = old.kind /\ new.owner = old.owner /\ new.pet = old.pet
             /\ new.cartVersion = old.cartVersion /\ new.late = old.late
             /\ \A x \in Orders \ {o} : storeOrder'[x] = storeOrder[x]
<1>1. storeOrder[o] \in OrderRow /\ o \in DOMAIN storeOrder
  BY DEF TypeOK
<1>2. storeOrder'[o] \in {Moved(storeOrder[o], status, paymentStatus),
                          LegacyMoved(storeOrder[o], status, paymentStatus)}
  BY <1>1 DEF Transitioned, LegacyTransitioned
<1>3. \A x \in Orders \ {o} : storeOrder'[x] = storeOrder[x]
  BY DEF Transitioned, LegacyTransitioned, TypeOK
<1> QED BY <1>1, <1>2, <1>3, MovedRow

LEMMA ReallocatedLines ==
  ASSUME TypeOK, NEW o \in Orders, NEW items, NEW a \in Allocation,
         Reallocated(o, items, a)
  PROVE  /\ \A i \in Items :
              /\ orderLine'[o][i].quantity = orderLine[o][i].quantity
              /\ orderLine'[o][i].price = orderLine[o][i].price
              /\ orderLine'[o][i].allocation =
                   IF i \in items THEN a ELSE orderLine[o][i].allocation
         /\ \A x \in Orders \ {o} : orderLine'[x] = orderLine[x]
<1>1. o \in DOMAIN orderLine /\ \A i \in Items : orderLine[o][i] \in LineRow
  BY DEF TypeOK
<1>2. \A x \in Orders \ {o} : orderLine'[x] = orderLine[x]
  BY DEF TypeOK, Reallocated
<1>3. \A i \in Items : orderLine'[o][i] =
        IF i \in items THEN [orderLine[o][i] EXCEPT !.allocation = a]
        ELSE orderLine[o][i]
  BY <1>1 DEF Reallocated
<1> QED BY <1>1, <1>2, <1>3 DEF LineRow

-----------------------------------------------------------------------------
\* Transitions that leave the lines alone.

LEMMA MoveOnly ==
  ASSUME TypeOK, OrdersAgree, NEW o \in Orders, NEW status \in {"approved", "shipped"},
         NEW paymentStatus \in {"PAID", "NOT_REQUIRED"},
         \/ Transitioned(o, status, paymentStatus)
         \/ LegacyTransitioned(o, status, paymentStatus),
         storeOrder[o].status \in ActiveStatus,
         storeOrder[o].paymentStatus = paymentStatus,
         UNCHANGED orderLine
  PROVE  OrdersAgree'
<1> USE DEF OrderStatus, PaymentStatus
<1>1. RowOK(storeOrder[o], orderLine[o])
  BY RowFacts
<1>2. /\ storeOrder'[o].status = status /\ storeOrder'[o].paymentStatus = paymentStatus
      /\ storeOrder'[o].kind = storeOrder[o].kind /\ storeOrder'[o].pet = storeOrder[o].pet
      /\ storeOrder'[o].late = storeOrder[o].late
  BY TransitionedRow
<1>3. \A i \in Items : ExpectedAllocation(storeOrder'[o], orderLine[o][i], i)
                       = ExpectedAllocation(storeOrder[o], orderLine[o][i], i)
  BY <1>2 DEF ExpectedAllocation, ActiveStatus
<1>4. paymentStatus \in PaymentStatusesIn(storeOrder'[o])
  BY <1>1, <1>2 DEF RowOK, PaymentStatusesIn, ActiveStatus
<1>5. RowOK(storeOrder'[o], orderLine'[o])
  BY <1>1, <1>2, <1>3, <1>4 DEF RowOK, ActiveStatus
<1>6. OnlyChanges(o)
  BY TransitionedRow DEF OnlyChanges
<1> QED BY <1>5, <1>6, OneOrder

LEMMA ReleaseAgrees ==
  ASSUME TypeOK, OrdersAgree, NEW o \in Orders,
         storeOrder[o].status \in {"placed", "approved"},
         NEW status \in {"cancelled", "expired"},
         NEW paymentStatus \in PaymentStatus,
         Transitioned(o, status, paymentStatus),
         IF status = "expired"
         THEN paymentStatus = "EXPIRED" /\ storeOrder[o].paymentStatus = "UNPAID" /\ storeOrder[o].late
         ELSE paymentStatus = StatusAfterRefund(o),
         Release(o)
  PROVE  OrdersAgree'
<1> USE DEF OrderStatus, PaymentStatus
<1>1. RowOK(storeOrder[o], orderLine[o])
  BY RowFacts
<1>2. /\ storeOrder'[o].status = status /\ storeOrder'[o].paymentStatus = paymentStatus
      /\ storeOrder'[o].kind = storeOrder[o].kind /\ storeOrder'[o].pet = storeOrder[o].pet
      /\ storeOrder'[o].late = storeOrder[o].late
  BY TransitionedRow
<1>3. \A i \in Items :
        /\ orderLine'[o][i].quantity = orderLine[o][i].quantity
        /\ orderLine'[o][i].allocation = IF orderLine[o][i].quantity = 0 THEN "NONE" ELSE "RELEASED"
  <2> DEFINE items == ReservedProducts(o) \cup ConsumedProducts(o)
                        \cup {q \in Pets : orderLine[o][q].allocation = "RESERVED"}
  <2>1. Reallocated(o, items, "RELEASED")
    BY DEF Release
  <2>2. \A i \in Items : i \in items <=> orderLine[o][i].quantity # 0
    BY <1>1 DEF RowOK, PaymentStatusesIn, ExpectedAllocation, ReservedProducts,
                ConsumedProducts, Items
  <2> HIDE DEF items
  <2>3. \A i \in Items : orderLine[o][i].quantity = 0 => orderLine[o][i].allocation = "NONE"
    BY <1>1 DEF RowOK, ExpectedAllocation
  <2> QED BY <2>1, <2>2, <2>3, ReallocatedLines DEF Allocation
<1>4. RowOK(storeOrder'[o], orderLine'[o])
  BY <1>1, <1>2, <1>3 DEF RowOK, PaymentStatusesIn, ExpectedAllocation, StatusAfterRefund, Items
<1>5. OnlyChanges(o)
  BY TransitionedRow, ReallocatedLines DEF OnlyChanges, Release, Allocation
<1> QED BY <1>4, <1>5, OneOrder

\* Delivery hands over what is still reserved; the rest was consumed by payment.
LEMMA DeliverAgrees ==
  ASSUME TypeOK, OrdersAgree, NEW actor \in Users, NEW o \in Orders, Deliver(actor, o)
  PROVE  OrdersAgree'
<1> USE DEF OrderStatus, PaymentStatus
<1> DEFINE items == {i \in Items : orderLine[o][i].allocation = "RESERVED"}
<1>1. RowOK(storeOrder[o], orderLine[o]) /\ storeOrder[o].status = "shipped"
  BY RowFacts DEF Deliver, MayTransition, CanTransition
<1>2. /\ storeOrder'[o].status = "delivered"
      /\ storeOrder'[o].paymentStatus = storeOrder[o].paymentStatus
      /\ storeOrder'[o].kind = storeOrder[o].kind /\ storeOrder'[o].pet = storeOrder[o].pet
      /\ storeOrder'[o].late = storeOrder[o].late
      /\ \A x \in Orders \ {o} : storeOrder'[x] = storeOrder[x]
  BY TransitionedRow, PaymentStatusType DEF Deliver
<1>3. Reallocated(o, items, "CONSUMED")
  BY DEF Deliver, Consume
<1>4. \A i \in Items : orderLine[o][i].allocation =
        IF orderLine[o][i].quantity = 0 THEN "NONE"
        ELSE IF storeOrder[o].paymentStatus = "PAID" /\ i \in Products THEN "CONSUMED"
        ELSE "RESERVED"
  BY <1>1 DEF RowOK, ExpectedAllocation
<1>5. \A i \in Items :
        /\ orderLine'[o][i].quantity = orderLine[o][i].quantity
        /\ orderLine'[o][i].allocation =
             IF orderLine[o][i].quantity = 0 THEN "NONE" ELSE "CONSUMED"
  BY <1>3, <1>4, ReallocatedLines DEF Allocation
<1>6. RowOK(storeOrder'[o], orderLine'[o])
  BY <1>1, <1>2, <1>5 DEF RowOK, PaymentStatusesIn, ExpectedAllocation, Items
<1>7. OnlyChanges(o)
  BY <1>2, <1>3, ReallocatedLines DEF OnlyChanges, Allocation
<1> QED BY <1>6, <1>7, OneOrder

LEMMA PayAgrees ==
  ASSUME TypeOK, OrdersAgree, NEW k \in PaymentKeys, NEW actor \in Users,
         NEW o \in Orders, PaySucceeded(k, actor, o)
  PROVE  OrdersAgree'
<1> USE DEF OrderStatus, PaymentStatus
<1>1. /\ RowOK(storeOrder[o], orderLine[o])
      /\ storeOrder[o].status = "placed" /\ storeOrder[o].paymentStatus = "UNPAID"
      /\ ~storeOrder[o].late
  BY RowFacts DEF PaySucceeded, Payable, Overdue
<1>2. /\ storeOrder'[o].status = "placed" /\ storeOrder'[o].paymentStatus = "PAID"
      /\ storeOrder'[o].kind = storeOrder[o].kind /\ storeOrder'[o].pet = storeOrder[o].pet
      /\ storeOrder'[o].late = storeOrder[o].late
      /\ \A x \in Orders \ {o} : storeOrder'[x] = storeOrder[x]
  BY TransitionedRow DEF PaySucceeded
<1>3. \A i \in Items : orderLine[o][i].allocation =
        IF orderLine[o][i].quantity = 0 THEN "NONE" ELSE "RESERVED"
  BY <1>1 DEF RowOK, ExpectedAllocation
<1>4. \A i \in Items :
        /\ orderLine'[o][i].quantity = orderLine[o][i].quantity
        /\ orderLine'[o][i].allocation =
             IF orderLine[o][i].quantity = 0 THEN "NONE"
             ELSE IF i \in Products THEN "CONSUMED" ELSE "RESERVED"
  BY <1>3, ReallocatedLines DEF PaySucceeded, Allocation, ReservedProducts, Items
<1>5. RowOK(storeOrder'[o], orderLine'[o])
  BY <1>1, <1>2, <1>4 DEF RowOK, PaymentStatusesIn, ExpectedAllocation, Items
<1>6. OnlyChanges(o)
  BY <1>2, ReallocatedLines DEF OnlyChanges, PaySucceeded, Allocation
<1> QED BY <1>5, <1>6, OneOrder

LEMMA PlaceAgrees ==
  ASSUME TypeOK, OrdersAgree, NEW actor \in Users, NEW o \in Orders, Place(actor, o)
  PROVE  OrdersAgree'
<1> USE DEF OrderStatus, PaymentStatus
<1> DEFINE basket == {i \in Items : InBasket(orderLine[o], i)}
<1>1. /\ RowOK(storeOrder[o], orderLine[o])
      /\ storeOrder[o].status = "draft" /\ storeOrder[o].kind # "LEGACY"
  BY RowFacts DEF Place, IsLegacy
<1>2. /\ storeOrder'[o].status = "placed" /\ storeOrder'[o].paymentStatus = "UNPAID"
      /\ storeOrder'[o].kind = storeOrder[o].kind /\ storeOrder'[o].pet = storeOrder[o].pet
      /\ \A x \in Orders \ {o} : storeOrder'[x] = storeOrder[x]
  BY TransitionedRow DEF Place
<1>3. Reallocated(o, basket, "RESERVED")
  BY DEF Place
<1>4. \A i \in Items : orderLine[o][i].allocation = "NONE" /\ orderLine[o][i].quantity \in Nat
  BY <1>1, RowFacts DEF RowOK, ExpectedAllocation, LineRow
<1>5. \A i \in Items :
        /\ orderLine'[o][i].quantity = orderLine[o][i].quantity
        /\ orderLine'[o][i].allocation =
             IF orderLine[o][i].quantity = 0 THEN "NONE" ELSE "RESERVED"
  BY <1>3, <1>4, ReallocatedLines DEF Allocation, InBasket
<1>6. RowOK(storeOrder'[o], orderLine'[o])
  BY <1>1, <1>2, <1>5 DEF RowOK, PaymentStatusesIn, ExpectedAllocation, Items
<1>7. OnlyChanges(o)
  BY <1>2, <1>3, ReallocatedLines DEF OnlyChanges, Allocation
<1> QED BY <1>6, <1>7, OneOrder

LEMMA CreateAgrees ==
  ASSUME TypeOK, OrdersAgree, CartsOK, NEW o \in Orders, NEW u \in Users,
         CreateOrder(o, u)
  PROVE  OrdersAgree'
<1>1. storeOrder'[o] = [NoOrderRow EXCEPT !.owner = u, !.status = "draft",
                                          !.cartVersion = cart[u]]
  BY DEF CreateOrder, TypeOK
<1>2. \A i \in Items : /\ orderLine'[o][i].quantity = cartLine[u][i].quantity
                       /\ orderLine'[o][i].allocation = "NONE"
  BY DEF CreateOrder, TypeOK
<1>3. RowOK(storeOrder'[o], orderLine'[o])
  BY <1>1, <1>2, ConstantsAssumption
     DEF RowOK, NoOrderRow, PaymentStatusesIn, ExpectedAllocation, CartsOK, Items
<1>4. OnlyChanges(o)
  BY DEF OnlyChanges, CreateOrder, TypeOK
<1> QED BY <1>3, <1>4, OneOrder

LEMMA DeleteAgrees ==
  ASSUME TypeOK, OrdersAgree, NEW o \in Orders, RowsDeleted(o)
  PROVE  OrdersAgree'
<1>1. storeOrder'[o] = NoOrderRow /\ \A i \in Items : orderLine'[o][i] = NoLine
  BY DEF RowsDeleted, TypeOK
<1>2. RowOK(storeOrder'[o], orderLine'[o])
  BY <1>1, ConstantsAssumption
     DEF RowOK, NoOrderRow, NoLine, PaymentStatusesIn, ExpectedAllocation, Items
<1>3. OnlyChanges(o)
  BY DEF OnlyChanges, RowsDeleted, TypeOK
<1> QED BY <1>2, <1>3, OneOrder

-----------------------------------------------------------------------------
\* LEGACY orders have no lines: only the statuses have to agree.

LEMMA LegacyRow ==
  ASSUME NEW row, NEW old, NEW lines, RowOK(old, lines),
         old.kind = "LEGACY", row.kind = "LEGACY", row.pet = old.pet,
         row.paymentStatus \in PaymentStatusesIn(row),
         row.status = "expired" => row.late,
         row.paymentStatus \in {"PAID", "REFUNDED"} => ~row.late
  PROVE  RowOK(row, lines)
  BY DEF RowOK, ExpectedAllocation

LEMMA LegacyMoveAgrees ==
  ASSUME TypeOK, OrdersAgree, NEW o \in Orders, IsLegacy(o),
         NEW status \in OrderStatus, NEW paymentStatus \in PaymentStatus,
         LegacyTransitioned(o, status, paymentStatus), UNCHANGED orderLine,
         \/ /\ CanTransition(storeOrder[o].status, status)
            /\ storeOrder[o].status # "draft"
            /\ status = "approved" => storeOrder[o].paymentStatus # "UNPAID"
            /\ IF status = "cancelled" THEN paymentStatus = StatusAfterRefund(o)
               ELSE paymentStatus = storeOrder[o].paymentStatus
         \/ /\ status = "expired" /\ paymentStatus = "EXPIRED"
            /\ storeOrder[o].late
  PROVE  OrdersAgree'
<1>1. RowOK(storeOrder[o], orderLine[o]) /\ storeOrder[o] \in OrderRow
  BY RowFacts
<1>2. /\ storeOrder'[o].status = status /\ storeOrder'[o].paymentStatus = paymentStatus
      /\ storeOrder'[o].kind = "LEGACY" /\ storeOrder'[o].pet = storeOrder[o].pet
      /\ storeOrder'[o].late = storeOrder[o].late
      /\ \A x \in Orders \ {o} : storeOrder'[x] = storeOrder[x]
  BY TransitionedRow DEF IsLegacy
<1>3. storeOrder[o].paymentStatus \in PaymentStatusesIn(storeOrder[o])
  BY <1>1 DEF RowOK
<1>4. paymentStatus \in PaymentStatusesIn(storeOrder'[o])
  BY <1>2, <1>3 DEF PaymentStatusesIn, CanTransition, StatusAfterRefund, IsLegacy
<1>5. /\ status = "expired" => storeOrder[o].late
      /\ paymentStatus \in {"PAID", "REFUNDED"} => ~storeOrder[o].late
  BY <1>1 DEF RowOK, CanTransition, StatusAfterRefund
<1>6. RowOK(storeOrder'[o], orderLine'[o])
  BY <1>1, <1>2, <1>4, <1>5, LegacyRow DEF IsLegacy
<1>7. OnlyChanges(o)
  BY <1>2 DEF OnlyChanges
<1> QED BY <1>6, <1>7, OneOrder

LEMMA LegacyPlaceAgrees ==
  ASSUME TypeOK, OrdersAgree, NEW actor \in Users, NEW o \in Orders,
         LegacyPlace(actor, o)
  PROVE  OrdersAgree'
<1> USE DEF OrderStatus, PaymentStatus
<1> DEFINE old == {x \in Orders : Overdue(x) /\ storeOrder[x].pet = storeOrder[o].pet}
<1> SUFFICES ASSUME NEW x \in Orders PROVE RowOK(storeOrder'[x], orderLine[x])
  BY DEF OrdersAgree, LegacyPlace
<1>1. RowOK(storeOrder[x], orderLine[x]) /\ storeOrder[x] \in OrderRow
  BY RowFacts
<1>2. RowOK(storeOrder[o], orderLine[o]) /\ storeOrder[o].kind = "LEGACY"
  BY RowFacts DEF LegacyPlace, IsLegacy
<1>3. CASE x = o
  <2>1. storeOrder'[x] = LegacyMoved(storeOrder[o], "placed", "UNPAID")
    BY <1>3 DEF LegacyPlace
  <2>2. /\ storeOrder'[x].status = "placed" /\ storeOrder'[x].paymentStatus = "UNPAID"
        /\ storeOrder'[x].kind = "LEGACY" /\ storeOrder'[x].pet = storeOrder[o].pet
    BY <1>1, <1>2, <1>3, <2>1, MovedRow
  <2> QED BY <1>2, <1>3, <2>2, LegacyRow DEF PaymentStatusesIn
<1>4. CASE x # o /\ x \in old
  <2>1. storeOrder'[x] = LegacyMoved(storeOrder[x], "expired", "EXPIRED")
    BY <1>4 DEF LegacyPlace
  <2>2. storeOrder[x].kind = "LEGACY" /\ storeOrder[x].late
    BY <1>1, <1>2, <1>4 DEF RowOK, Overdue, OrderRow
  <2>3. /\ storeOrder'[x].status = "expired" /\ storeOrder'[x].paymentStatus = "EXPIRED"
        /\ storeOrder'[x].kind = "LEGACY" /\ storeOrder'[x].pet = storeOrder[x].pet
        /\ storeOrder'[x].late
    BY <1>1, <2>1, <2>2, MovedRow
  <2> QED BY <1>1, <2>2, <2>3, LegacyRow DEF PaymentStatusesIn
<1>5. CASE x # o /\ x \notin old
  BY <1>1, <1>5 DEF LegacyPlace
<1> QED BY <1>3, <1>4, <1>5

LEMMA LegacyDraftAgrees ==
  ASSUME TypeOK, OrdersAgree, NEW o \in Orders, NEW u \in Users, NEW q \in Pets,
         LegacyCreate(o, u, q) \/ LegacyUpdate(u, o, q)
  PROVE  OrdersAgree'
<1>1. RowOK(storeOrder[o], orderLine[o])
  BY RowFacts
<1>2. /\ storeOrder'[o].status = "draft" /\ storeOrder'[o].paymentStatus = "NOT_STARTED"
      /\ storeOrder'[o].kind = "LEGACY" /\ storeOrder'[o].pet = q
  <2>1. CASE LegacyCreate(o, u, q)
    <3>1. storeOrder'[o] = [NoOrderRow EXCEPT !.kind = "LEGACY", !.owner = u,
                                              !.status = "draft", !.pet = q]
      BY <2>1 DEF LegacyCreate, TypeOK
    <3> QED BY <3>1 DEF NoOrderRow
  <2>2. CASE LegacyUpdate(u, o, q)
    <3>1. storeOrder[o] \in OrderRow /\ storeOrder'[o] = [storeOrder[o] EXCEPT !.pet = q]
      BY <2>2 DEF LegacyUpdate, TypeOK
    <3>2. storeOrder[o].status = "draft" /\ storeOrder[o].kind = "LEGACY"
      BY <2>2 DEF LegacyUpdate, IsLegacy
    <3>3. storeOrder[o].paymentStatus = "NOT_STARTED"
      BY <1>1, <3>2 DEF RowOK, PaymentStatusesIn
    <3> QED BY <3>1, <3>2, <3>3 DEF OrderRow
  <2> QED BY <2>1, <2>2
<1>3. \A i \in Items : orderLine'[o][i].quantity = 0 /\ orderLine'[o][i].allocation = "NONE"
  BY <1>1 DEF LegacyCreate, LegacyUpdate, RowOK, IsLegacy, ExpectedAllocation
<1>4. RowOK(storeOrder'[o], orderLine'[o])
  BY <1>2, <1>3 DEF RowOK, PaymentStatusesIn, ExpectedAllocation, Items
<1>5. OnlyChanges(o)
  BY DEF OnlyChanges, LegacyCreate, LegacyUpdate, TypeOK
<1> QED BY <1>4, <1>5, OneOrder

-----------------------------------------------------------------------------
\* Every step.

LEMMA OrdersUnchanged ==
  ASSUME OrdersAgree, UNCHANGED orderVars PROVE OrdersAgree'
  BY DEF OrdersAgree

LEMMA ExpiredAgrees ==
  ASSUME TypeOK, OrdersAgree, NEW o \in Orders, Expired(o) \/ LegacyExpired(o)
  PROVE  OrdersAgree'
<1> USE DEF OrderStatus, PaymentStatus
<1>1. CASE Expired(o)
  BY <1>1, ReleaseAgrees DEF Expired, Overdue
<1>2. CASE LegacyExpired(o)
  BY <1>2, LegacyMoveAgrees DEF LegacyExpired, Overdue
<1> QED BY <1>1, <1>2

LEMMA CommerceAgrees ==
  ASSUME TypeOK, OrdersAgree, CartsOK, CommerceNext PROVE OrdersAgree'
<1> USE DEF OrderStatus, PaymentStatus
<1>1. ASSUME NEW actor \in Users, NEW o \in Orders, Approve(actor, o) PROVE OrdersAgree'
  BY <1>1, MoveOnly DEF Approve, MayTransition, CanTransition, ActiveStatus
<1>2. ASSUME NEW actor \in Users, NEW o \in Orders, Ship(actor, o) PROVE OrdersAgree'
  <2>1. storeOrder[o].status = "approved"
    BY <1>2 DEF Ship, MayTransition, CanTransition
  <2>2. storeOrder[o].paymentStatus \in {"PAID", "NOT_REQUIRED"}
    BY <2>1, RowFacts DEF RowOK, PaymentStatusesIn
  <2> QED BY <1>2, <2>1, <2>2, MoveOnly DEF Ship, ActiveStatus
<1>3. ASSUME NEW actor \in Users, NEW o \in Orders, Cancel(actor, o) PROVE OrdersAgree'
  <2>1. storeOrder[o].status \in {"placed", "approved"}
    BY <1>3 DEF Cancel, MayTransition, CanTransition
  <2> QED BY <1>3, <2>1, ReleaseAgrees, PaymentStatusType DEF Cancel
<1>4. ASSUME NEW actor \in Users, NEW o \in Orders, Delete(actor, o) PROVE OrdersAgree'
  BY <1>4, DeleteAgrees DEF Delete
<1>5. ASSUME NEW o \in Orders, ExpireMixed(o) PROVE OrdersAgree'
  BY <1>5, ExpiredAgrees DEF ExpireMixed
<1> QED BY <1>1, <1>2, <1>3, <1>4, <1>5, CreateAgrees, PlaceAgrees, DeliverAgrees
        DEF CommerceNext

LEMMA PaymentAgrees ==
  ASSUME TypeOK, OrdersAgree, PaymentNext PROVE OrdersAgree'
<1>1. ASSUME NEW k \in PaymentKeys, NEW actor \in Users, NEW o \in Orders,
             PayTooLate(k, actor, o)
      PROVE  OrdersAgree'
  BY <1>1, ExpiredAgrees DEF PayTooLate
<1>2. ASSUME NEW k \in PaymentKeys, NEW actor \in Users, NEW o \in Orders,
             PayDeclined(k, actor, o)
      PROVE  OrdersAgree'
  BY <1>2, OrdersUnchanged DEF PayDeclined
<1>3. ASSUME NEW k \in PaymentKeys, DeleteDeclined(k) PROVE OrdersAgree'
  BY <1>3, OrdersUnchanged DEF DeleteDeclined
<1> QED BY <1>1, <1>2, <1>3, PayAgrees DEF PaymentNext

LEMMA LegacyAgrees ==
  ASSUME TypeOK, OrdersAgree, LegacyNext PROVE OrdersAgree'
<1> USE DEF OrderStatus, PaymentStatus
<1>1. ASSUME NEW actor \in Users, NEW o \in Orders, LegacyApprove(actor, o)
      PROVE  OrdersAgree'
  BY <1>1, LegacyMoveAgrees DEF LegacyApprove, LegacyMayMove, CanTransition
<1>2. ASSUME NEW actor \in Users, NEW o \in Orders, LegacyShip(actor, o)
      PROVE  OrdersAgree'
  BY <1>2, LegacyMoveAgrees, PaymentStatusType DEF LegacyShip, LegacyMayMove, CanTransition
<1>3. ASSUME NEW actor \in Users, NEW o \in Orders, LegacyDeliver(actor, o)
      PROVE  OrdersAgree'
  BY <1>3, LegacyMoveAgrees, PaymentStatusType DEF LegacyDeliver, LegacyMayMove, CanTransition
<1>4. ASSUME NEW actor \in Users, NEW o \in Orders, LegacyCancel(actor, o)
      PROVE  OrdersAgree'
  BY <1>4, LegacyMoveAgrees, PaymentStatusType DEF LegacyCancel, LegacyMayMove, CanTransition
<1>5. ASSUME NEW actor \in Users, NEW o \in Orders, LegacyDelete(actor, o)
      PROVE  OrdersAgree'
  BY <1>5, DeleteAgrees DEF LegacyDelete
<1>6. ASSUME NEW o \in Orders, ExpireLegacy(o) PROVE OrdersAgree'
  BY <1>6, ExpiredAgrees DEF ExpireLegacy
<1> QED BY <1>1, <1>2, <1>3, <1>4, <1>5, <1>6, LegacyPlaceAgrees, LegacyDraftAgrees
        DEF LegacyNext

LEMMA DeadlineAgrees ==
  ASSUME TypeOK, OrdersAgree, NEW o \in Orders, DeadlinePasses(o) PROVE OrdersAgree'
<1>1. RowOK(storeOrder[o], orderLine[o]) /\ storeOrder[o] \in OrderRow
  BY RowFacts
<1>2. storeOrder'[o] = [storeOrder[o] EXCEPT !.late = TRUE] /\ OnlyChanges(o)
  BY DEF DeadlinePasses, TypeOK, OnlyChanges
<1>3. RowOK(storeOrder'[o], orderLine'[o])
  BY <1>1, <1>2 DEF RowOK, PaymentStatusesIn, ExpectedAllocation, DeadlinePasses, OrderRow
<1> QED BY <1>2, <1>3, OneOrder

\* Carts change only by replacement and by placing an order, which empties them.
LEMMA CartsStep ==
  ASSUME TypeOK, CartsOK, [Next]_vars PROVE CartsOK'
<1>1. ASSUME NEW u \in Users, NEW basket \in Baskets, ReplaceCart(u, basket) PROVE CartsOK'
  BY <1>1, ConstantsAssumption DEF ReplaceCart, CartsOK, Baskets, NoCartLine, TypeOK, Items
<1>2. ASSUME NEW actor \in Users, NEW o \in Orders, Place(actor, o) PROVE CartsOK'
  BY <1>2 DEF Place, CartsOK, NoCartLine, TypeOK, Items
<1>3. CASE UNCHANGED cartLine
  BY <1>3 DEF CartsOK
<1>4. ASSUME CommerceNext,
             ~\E actor \in Users, o \in Orders : Place(actor, o)
      PROVE  UNCHANGED cartLine
  BY <1>4 DEF CommerceNext, CreateOrder, Approve, Ship, Deliver, Cancel, Delete, ExpireMixed
<1>5. ASSUME PaymentNext \/ CatalogNext \/ LegacyNext \/ \E o \in Orders : DeadlinePasses(o)
      PROVE  UNCHANGED cartLine
  BY <1>5 DEF PaymentNext, PaySucceeded, PayDeclined, PayTooLate, DeleteDeclined,
              CatalogNext, AdjustStock, SavePrice, Publish, UpdatePet, LegacyNext,
              LegacyCreate, LegacyUpdate, LegacyPlace, LegacyApprove, LegacyShip,
              LegacyDeliver, LegacyCancel, LegacyDelete, ExpireLegacy, DeadlinePasses
<1> QED BY <1>1, <1>2, <1>3, <1>4, <1>5 DEF Next, CartNext, vars

LEMMA InitAgrees == Init => OrdersAgree /\ CartsOK
<1> SUFFICES ASSUME Init PROVE OrdersAgree /\ CartsOK
  OBVIOUS
<1> PICK owner \in [Migrated -> Users], held \in Injection(Migrated, Pets) :
      storeOrder = [o \in Orders |->
         IF o \in Migrated THEN MigratedRow(owner[o], held[o]) ELSE NoOrderRow]
  BY DEF Init
<1>1. held \in [Migrated -> Pets]
  BY DEF Injection
<1>2. \A o \in Orders : \A i \in Items : orderLine[o][i] = NoLine
  BY DEF Init
<1>3. ASSUME NEW o \in Orders PROVE RowOK(storeOrder[o], orderLine[o])
  <2>1. CASE o \in Migrated
    <3>1. /\ storeOrder[o].kind = "LEGACY" /\ storeOrder[o].status = "placed"
          /\ storeOrder[o].paymentStatus = "NOT_REQUIRED" /\ storeOrder[o].pet \in Pets
      BY <1>1, <2>1 DEF MigratedRow, NoOrderRow
    <3> QED BY <1>2, <3>1 DEF RowOK, NoLine, PaymentStatusesIn, ExpectedAllocation, Items
  <2>2. CASE o \notin Migrated
    BY <1>2, <2>2, ConstantsAssumption DEF NoOrderRow, RowOK, NoLine, PaymentStatusesIn,
                            ExpectedAllocation, Items
  <2> QED BY <2>1, <2>2
<1> QED BY <1>3 DEF OrdersAgree, CartsOK, Init, NoCartLine, Items

LEMMA AgreeStep ==
  ASSUME TypeOK, OrdersAgree, CartsOK, [Next]_vars PROVE OrdersAgree'
<1>1. CASE UNCHANGED vars \/ CartNext \/ CatalogNext
  BY <1>1, OrdersUnchanged
     DEF vars, CartNext, ReplaceCart, CatalogNext, AdjustStock, SavePrice, Publish, UpdatePet
<1> QED BY <1>1, CommerceAgrees, PaymentAgrees, LegacyAgrees, DeadlineAgrees DEF Next

\* Status, payment status, deadline and lines of every order agree in every
\* reachable state (CommerceOrderService, OrderData and PaymentData together).
THEOREM OrdersAlwaysAgree == Spec => [](OrdersAgree /\ CartsOK)
<1>1. TypeOK /\ OrdersAgree /\ CartsOK /\ [Next]_vars => (OrdersAgree /\ CartsOK)'
  BY AgreeStep, CartsStep
<1> QED BY InitAgrees, TypeInvariant, <1>1, PTL DEF Spec

\* Goods are reserved, consumed or released exactly as the status and payment of
\* their order say, in every reachable state.
THEOREM AllocationInvariant == Spec => []AllocationFollowsStatus
<1>1. OrdersAgree => AllocationFollowsStatus
  BY DEF OrdersAgree, RowOK, AllocationFollowsStatus
<1> QED BY OrdersAlwaysAgree, <1>1, PTL

-----------------------------------------------------------------------------
(* The reserved column *)

\* What one line contributes to the column, and the units of all lines.
Reserved(o, p) == IF orderLine[o][p].allocation = "RESERVED"
                  THEN orderLine[o][p].quantity ELSE 0

AllUnits(p) == UNION {ReservedUnits(o, p) : o \in Orders}

\* Orders may be any set, but only finitely many units are ever reserved.
ReserveCounted(p) == /\ IsFiniteSet(AllUnits(p))
                     /\ Cardinality(AllUnits(p)) = product[p].reserved

ReservesCounted == \A p \in Products : ReserveCounted(p)

LEMMA UnitsCount ==
  ASSUME NEW o, NEW n \in Nat
  PROVE  IsFiniteSet({o} \X (1 .. n)) /\ Cardinality({o} \X (1 .. n)) = n
<1> DEFINE one == {o}
           all == 1 .. n
<1>1. IsFiniteSet(one) /\ Cardinality(one) = 1
  BY FS_Singleton
<1>2. IsFiniteSet(all) /\ Cardinality(all) = n
  BY FS_Interval
<1> HIDE DEF one, all
<1>3. /\ IsFiniteSet(one \X all)
      /\ Cardinality(one \X all) = Cardinality(one) * Cardinality(all)
  BY <1>1, <1>2, FS_Product
<1> QED BY <1>1, <1>2, <1>3 DEF one, all

LEMMA UnitsOfLine ==
  ASSUME NEW o \in Orders, NEW p \in Products, orderLine[o][p].quantity \in Nat
  PROVE  /\ Reserved(o, p) \in Nat
         /\ IsFiniteSet(ReservedUnits(o, p))
         /\ Cardinality(ReservedUnits(o, p)) = Reserved(o, p)
  BY UnitsCount, FS_EmptySet DEF Reserved, ReservedUnits

LEMMA UnitsApart ==
  ASSUME NEW o \in Orders, NEW p \in Products
  PROVE  LET rest == UNION {ReservedUnits(x, p) : x \in Orders \ {o}}
         IN  /\ AllUnits(p) = rest \cup ReservedUnits(o, p)
             /\ rest \cap ReservedUnits(o, p) = {}
<1>1. ASSUME NEW x \in Orders, NEW u \in ReservedUnits(x, p) PROVE u[1] = x
  BY <1>1 DEF ReservedUnits
<1> QED BY <1>1 DEF AllUnits

LEMMA QuantityType ==
  ASSUME TypeOK, NEW o \in Orders, NEW p \in Products
  PROVE  orderLine[o][p].quantity \in Nat /\ product[p].reserved \in Nat
  BY DEF TypeOK, Items, LineRow, ProductRow

\* A line is part of the column.
LEMMA LineCovered ==
  ASSUME TypeOK, NEW o \in Orders, NEW p \in Products, ReserveCounted(p)
  PROVE  Reserved(o, p) <= product[p].reserved
<1>1. ReservedUnits(o, p) \subseteq AllUnits(p)
  BY DEF AllUnits
<1>2. Cardinality(ReservedUnits(o, p)) <= Cardinality(AllUnits(p))
  BY <1>1, FS_Subset DEF ReserveCounted
<1> QED BY <1>2, QuantityType, UnitsOfLine DEF ReserveCounted

\* If the lines of one order change, and the column by as much, the count stays right.
LEMMA LineMoves ==
  ASSUME TypeOK, TypeOK', NEW o \in Orders, NEW p \in Products, ReserveCounted(p),
         \A x \in Orders \ {o} : orderLine'[x] = orderLine[x],
         product'[p].reserved = product[p].reserved - Reserved(o, p) + Reserved(o, p)'
  PROVE  ReserveCounted(p)'
<1> DEFINE rest == UNION {ReservedUnits(x, p) : x \in Orders \ {o}}
           old == ReservedUnits(o, p)
           new == ReservedUnits(o, p)'
<1>1. AllUnits(p) = rest \cup old /\ rest \cap old = {}
  BY UnitsApart
<1>2. rest' = rest
  BY DEF ReservedUnits
<1>3. AllUnits(p)' = rest \cup new /\ rest \cap new = {}
  <2>1. AllUnits(p)' = rest' \cup new
    BY DEF AllUnits
  <2>2. ASSUME NEW x \in Orders, NEW u \in ReservedUnits(x, p) PROVE u[1] = x
    BY <2>2 DEF ReservedUnits
  <2>3. ASSUME NEW u \in new PROVE u[1] = o
    BY <2>3 DEF ReservedUnits
  <2> QED BY <1>2, <2>1, <2>2, <2>3
<1>4. /\ Reserved(o, p) \in Nat /\ IsFiniteSet(old)
      /\ Cardinality(old) = Reserved(o, p)
  BY QuantityType, UnitsOfLine
<1>5. /\ Reserved(o, p)' \in Nat /\ IsFiniteSet(new)
      /\ Cardinality(new) = Reserved(o, p)'
  <2>1. orderLine'[o][p].quantity \in Nat
    BY DEF TypeOK, Items, LineRow
  <2> QED BY <2>1, UnitsCount, FS_EmptySet DEF Reserved, ReservedUnits
<1> DEFINE all == AllUnits(p)
           next == AllUnits(p)'
<1>6. IsFiniteSet(all) /\ rest = all \ old /\ all \cap old = old /\ next = rest \cup new
  BY <1>1, <1>3 DEF ReserveCounted
<1> HIDE DEF rest, old, new, all, next
<1>7. /\ IsFiniteSet(all \ old)
      /\ Cardinality(all \ old) = Cardinality(all) - Cardinality(all \cap old)
  BY <1>6, FS_Difference, Zenon
<1>8. IsFiniteSet(rest) /\ Cardinality(rest) = Cardinality(all) - Cardinality(old)
  BY <1>6, <1>7, Zenon
<1>9. /\ IsFiniteSet(next)
      /\ Cardinality(next) = Cardinality(rest) + Cardinality(new) - Cardinality(rest \cap new)
  BY <1>5, <1>6, <1>8, FS_Union, Zenon
<1>10. Cardinality(rest \cap new) = 0
  BY <1>3, FS_EmptySet
<1>11. Cardinality(all) = product[p].reserved /\ product[p].reserved \in Nat
  BY QuantityType DEF ReserveCounted, all
<1>12. Cardinality(next) = product'[p].reserved
  BY <1>4, <1>5, <1>8, <1>9, <1>10, <1>11
<1> QED BY <1>9, <1>12 DEF ReserveCounted, next

LEMMA ReservesMove ==
  ASSUME TypeOK, TypeOK', ReservesCounted, NEW o \in Orders,
         \A x \in Orders \ {o} : orderLine'[x] = orderLine[x],
         \A p \in Products :
            product'[p].reserved = product[p].reserved - Reserved(o, p) + Reserved(o, p)'
  PROVE  ReservesCounted'
  BY LineMoves DEF ReservesCounted

LEMMA ReservesStay ==
  ASSUME ReservesCounted, UNCHANGED orderLine,
         \A p \in Products : product'[p].reserved = product[p].reserved
  PROVE  ReservesCounted'
  BY DEF ReservesCounted, ReserveCounted, AllUnits, ReservedUnits

-----------------------------------------------------------------------------
\* The handlers that move reserves.

LEMMA ReleaseMoves ==
  ASSUME TypeOK, TypeOK', ReservesCounted, NEW o \in Orders, Release(o)
  PROVE  ReservesCounted'
<1> DEFINE items == ReservedProducts(o) \cup ConsumedProducts(o)
                      \cup {q \in Pets : orderLine[o][q].allocation = "RESERVED"}
<1>1. Reallocated(o, items, "RELEASED")
  BY DEF Release
<1>2. \A p \in Products : orderLine[o][p].allocation = "RESERVED" => p \in items
  BY DEF ReservedProducts
<1> HIDE DEF items
<1>3. \A p \in Products : orderLine'[o][p].allocation # "RESERVED"
  BY <1>1, <1>2, ReallocatedLines DEF Allocation, Items
<1>4. ASSUME NEW p \in Products
      PROVE  product'[p].reserved = product[p].reserved - Reserved(o, p) + Reserved(o, p)'
  <2>1. Reserved(o, p)' = 0
    BY <1>3 DEF Reserved
  <2>2. product[p] \in ProductRow /\ orderLine[o][p].quantity \in Nat
    BY DEF TypeOK, Items, LineRow
  <2>3. product'[p].reserved = product[p].reserved - Reserved(o, p)
    BY <2>2 DEF Release, ReservedProducts, ConsumedProducts, Reserved, ProductRow
  <2> QED BY <2>1, <2>2, <2>3 DEF Reserved, ProductRow
<1> QED BY <1>1, <1>4, ReallocatedLines, ReservesMove DEF Allocation

LEMMA ConsumptionMoves ==
  ASSUME TypeOK, TypeOK', ReservesCounted, NEW o \in Orders, NEW items,
         product' = ConsumedStock(o), Reallocated(o, items, "CONSUMED"),
         ReservedProducts(o) \subseteq items
  PROVE  ReservesCounted'
<1>1. \A p \in Products : orderLine'[o][p].allocation # "RESERVED"
  BY ReallocatedLines DEF Allocation, Items, ReservedProducts
<1>2. ASSUME NEW p \in Products
      PROVE  product'[p].reserved = product[p].reserved - Reserved(o, p) + Reserved(o, p)'
  <2>1. Reserved(o, p)' = 0
    BY <1>1 DEF Reserved
  <2>2. product[p] \in ProductRow /\ orderLine[o][p].quantity \in Nat
    BY DEF TypeOK, Items, LineRow
  <2>3. product'[p].reserved = product[p].reserved - Reserved(o, p)
    BY <2>2 DEF ConsumedStock, ReservedProducts, Reserved, ProductRow
  <2> QED BY <2>1, <2>2, <2>3 DEF Reserved, ProductRow
<1> QED BY <1>2, ReallocatedLines, ReservesMove DEF Allocation

LEMMA PlaceMoves ==
  ASSUME TypeOK, TypeOK', OrdersAgree, ReservesCounted, NEW actor \in Users,
         NEW o \in Orders, Place(actor, o)
  PROVE  ReservesCounted'
<1> DEFINE basket == {i \in Items : InBasket(orderLine[o], i)}
<1>1. Reallocated(o, basket, "RESERVED")
  BY DEF Place
<1>2. \A i \in Items : orderLine[o][i].allocation = "NONE"
  BY RowFacts DEF Place, RowOK, ExpectedAllocation
<1>3. ASSUME NEW p \in Products
      PROVE  product'[p].reserved = product[p].reserved - Reserved(o, p) + Reserved(o, p)'
  <2>1. product[p] \in ProductRow /\ orderLine[o][p].quantity \in Nat /\ p \in Items
    BY DEF TypeOK, Items, LineRow
  <2>2. Reserved(o, p) = 0
    BY <1>2, <2>1 DEF Reserved
  <2>3. /\ orderLine'[o][p].quantity = orderLine[o][p].quantity
        /\ orderLine'[o][p].allocation = IF p \in basket THEN "RESERVED" ELSE "NONE"
    BY <1>1, <1>2, <2>1, ReallocatedLines DEF Allocation
  <2>4. Reserved(o, p)' = orderLine[o][p].quantity
    BY <2>1, <2>3 DEF Reserved, InBasket
  <2>5. product'[p].reserved = product[p].reserved + orderLine[o][p].quantity
    BY <2>1 DEF Place, ProductRow
  <2> QED BY <2>1, <2>2, <2>4, <2>5 DEF ProductRow
<1> QED BY <1>1, <1>3, ReallocatedLines, ReservesMove DEF Allocation

\* An order without reserved lines that is written anew without any, or deleted.
LEMMA NoReserveMoves ==
  ASSUME TypeOK, TypeOK', ReservesCounted, NEW o \in Orders, UNCHANGED product,
         \A x \in Orders \ {o} : orderLine'[x] = orderLine[x],
         \A i \in Items : /\ orderLine[o][i].allocation # "RESERVED"
                          /\ orderLine'[o][i].allocation # "RESERVED"
  PROVE  ReservesCounted'
<1>1. ASSUME NEW p \in Products
      PROVE  product'[p].reserved = product[p].reserved - Reserved(o, p) + Reserved(o, p)'
  <2>1. Reserved(o, p) = 0 /\ Reserved(o, p)' = 0
    BY DEF Reserved, Items
  <2> QED BY <2>1, QuantityType
<1> QED BY <1>1, ReservesMove

LEMMA CreateMoves ==
  ASSUME TypeOK, TypeOK', OrdersAgree, ReservesCounted, NEW o \in Orders, NEW u \in Users,
         CreateOrder(o, u)
  PROVE  ReservesCounted'
<1>1. \A i \in Items : orderLine[o][i].allocation = "NONE"
  BY RowFacts DEF CreateOrder, RowOK, ExpectedAllocation
<1>2. /\ \A i \in Items : orderLine'[o][i].allocation = "NONE"
      /\ \A x \in Orders \ {o} : orderLine'[x] = orderLine[x]
  BY DEF CreateOrder, TypeOK
<1>3. UNCHANGED product
  BY DEF CreateOrder
<1> QED BY <1>1, <1>2, <1>3, NoReserveMoves

LEMMA DeleteMoves ==
  ASSUME TypeOK, TypeOK', OrdersAgree, ReservesCounted, NEW o \in Orders,
         RowsDeleted(o), UNCHANGED product,
         IsLegacy(o) \/ storeOrder[o].status \in {"draft"} \cup CompleteStatus
  PROVE  ReservesCounted'
<1>1. \A i \in Items : orderLine[o][i].allocation # "RESERVED"
  BY RowFacts DEF RowOK, IsLegacy, ExpectedAllocation, CompleteStatus
<1>2. /\ \A i \in Items : orderLine'[o][i].allocation = "NONE"
      /\ \A x \in Orders \ {o} : orderLine'[x] = orderLine[x]
  BY DEF RowsDeleted, NoLine, TypeOK
<1> QED BY <1>1, <1>2, NoReserveMoves

-----------------------------------------------------------------------------
\* Every step.

LEMMA CommerceReserves ==
  ASSUME TypeOK, TypeOK', OrdersAgree, ReservesCounted, CommerceNext
  PROVE  ReservesCounted'
<1>1. ASSUME NEW actor \in Users, NEW o \in Orders, Approve(actor, o) \/ Ship(actor, o)
      PROVE  ReservesCounted'
  BY <1>1, ReservesStay DEF Approve, Ship
<1>2. ASSUME NEW actor \in Users, NEW o \in Orders, Deliver(actor, o)
      PROVE  ReservesCounted'
  BY <1>2, ConsumptionMoves DEF Deliver, Consume, ReservedProducts, Items
<1>3. ASSUME NEW actor \in Users, NEW o \in Orders, Cancel(actor, o)
      PROVE  ReservesCounted'
  BY <1>3, ReleaseMoves DEF Cancel
<1>4. ASSUME NEW actor \in Users, NEW o \in Orders, Delete(actor, o)
      PROVE  ReservesCounted'
  BY <1>4, DeleteMoves DEF Delete
<1>5. ASSUME NEW o \in Orders, ExpireMixed(o) PROVE ReservesCounted'
  BY <1>5, ReleaseMoves DEF ExpireMixed, Expired
<1> QED BY <1>1, <1>2, <1>3, <1>4, <1>5, CreateMoves, PlaceMoves DEF CommerceNext

LEMMA PaymentReserves ==
  ASSUME TypeOK, TypeOK', ReservesCounted, PaymentNext
  PROVE  ReservesCounted'
<1>1. ASSUME NEW k \in PaymentKeys, NEW actor \in Users, NEW o \in Orders,
             PaySucceeded(k, actor, o)
      PROVE  ReservesCounted'
  BY <1>1, ConsumptionMoves DEF PaySucceeded
<1>2. ASSUME NEW k \in PaymentKeys, NEW actor \in Users, NEW o \in Orders,
             PayDeclined(k, actor, o) \/ DeleteDeclined(k)
      PROVE  ReservesCounted'
  BY <1>2, ReservesStay DEF PayDeclined, DeleteDeclined
<1>3. ASSUME NEW k \in PaymentKeys, NEW actor \in Users, NEW o \in Orders,
             PayTooLate(k, actor, o)
      PROVE  ReservesCounted'
  BY <1>3, ReservesStay, ReleaseMoves DEF PayTooLate, LegacyExpired, Expired
<1>4. ASSUME NEW k \in PaymentKeys, DeleteDeclined(k) PROVE ReservesCounted'
  BY <1>4, ReservesStay DEF DeleteDeclined
<1> QED BY <1>1, <1>2, <1>3, <1>4 DEF PaymentNext

\* LEGACY orders have no lines.
LEMMA LegacyReserves ==
  ASSUME TypeOK, TypeOK', OrdersAgree, ReservesCounted, LegacyNext
  PROVE  ReservesCounted'
<1>1. ASSUME NEW actor \in Users, NEW o \in Orders, LegacyDelete(actor, o)
      PROVE  ReservesCounted'
  BY <1>1, DeleteMoves DEF LegacyDelete
<1>2. ASSUME ~\E actor \in Users, o \in Orders : LegacyDelete(actor, o)
      PROVE  UNCHANGED <<orderLine, product>>
  BY <1>2 DEF LegacyNext, LegacyCreate, LegacyUpdate, LegacyPlace, LegacyApprove,
              LegacyShip, LegacyDeliver, LegacyCancel, ExpireLegacy, LegacyExpired
<1> QED BY <1>1, <1>2, ReservesStay

LEMMA CatalogReserves ==
  ASSUME TypeOK, ReservesCounted, CatalogNext PROVE ReservesCounted'
<1>1. ASSUME NEW p \in Products, NEW stock \in StockLevels, AdjustStock(p, stock)
      PROVE  ReservesCounted'
  BY <1>1, ReservesStay DEF AdjustStock, TypeOK, ProductRow
<1>2. ASSUME ~\E p \in Products, stock \in StockLevels : AdjustStock(p, stock)
      PROVE  UNCHANGED <<orderLine, product>>
  BY <1>2 DEF CatalogNext, SavePrice, Publish, UpdatePet
<1> QED BY <1>1, <1>2, ReservesStay

LEMMA ReservesStep ==
  ASSUME TypeOK, TypeOK', OrdersAgree, ReservesCounted, [Next]_vars
  PROVE  ReservesCounted'
<1>1. CASE UNCHANGED vars
  BY <1>1, ReservesStay DEF vars
<1>2. CASE CartNext
  BY <1>2, ReservesStay DEF CartNext, ReplaceCart
<1>3. ASSUME NEW o \in Orders, DeadlinePasses(o) PROVE ReservesCounted'
  BY <1>3, ReservesStay DEF DeadlinePasses
<1> QED BY <1>1, <1>2, <1>3, CommerceReserves, PaymentReserves, LegacyReserves,
           CatalogReserves DEF Next

LEMMA InitReserves == Init => ReservesCounted
<1> SUFFICES ASSUME Init, NEW p \in Products PROVE ReserveCounted(p)
  BY DEF ReservesCounted
<1>1. AllUnits(p) = {}
  BY DEF Init, NoLine, AllUnits, ReservedUnits, Items
<1>2. product[p].reserved = 0
  BY DEF Init
<1> QED BY <1>1, <1>2, FS_EmptySet DEF ReserveCounted

LEMMA ReservesInvariant == Spec => []ReservesCounted
<1>1. TypeOK /\ TypeOK' /\ OrdersAgree /\ ReservesCounted /\ [Next]_vars => ReservesCounted'
  BY ReservesStep
<1> QED BY InitReserves, TypeInvariant, OrdersAlwaysAgree, <1>1, PTL DEF Spec

\* The reserved column of a product is the number of units the reserved lines of
\* all orders hold, in every reachable state and whatever the set of orders is.
THEOREM ReservedColumn == Spec => []ReservedIsSumOfLines
<1>1. ReservesCounted => ReservedIsSumOfLines
  BY DEF ReservesCounted, ReserveCounted, AllUnits, ReservedIsSumOfLines
<1> QED BY ReservesInvariant, <1>1, PTL

=============================================================================
