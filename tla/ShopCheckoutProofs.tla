-------------------------- MODULE ShopCheckoutProofs --------------------------
(***************************************************************************)
(* What orders share: the pets they compete for, the payments that name    *)
(* them and the carts they come from; and, from that, that the shop        *)
(* implements the warehouse: what an order claims is read off its rows,    *)
(* and each action is shown to be one kind of step of Warehouse, or none.  *)
(* Every proof uses that each order agrees with itself (OrdersAgree,       *)
(* ShopOrderProofs).                                                       *)
(***************************************************************************)
EXTENDS ShopOrderProofs

USE DEF orderVars, stockVars, cartVars

-----------------------------------------------------------------------------
(* Pets *)

\* The pets an order keeps from others.
Held(o) == IF storeOrder[o].status \in ActiveStatus THEN OrderPets(o) ELSE {}

\* PetReservedIffHeld and PetHeldOnce need each other: a pet that is freed must
\* not be held by another order, and a pet that is taken must be free.
PetsInv == PetReservedIffHeld /\ PetHeldOnce

LEMMA PetsInvMeans ==
  PetsInv <=> /\ \A q \in Pets : pet[q] = "reserved" <=> \E o \in Orders : q \in Held(o)
              /\ \A o1, o2 \in Orders : Held(o1) \cap Held(o2) # {} => o1 = o2
  BY DEF PetsInv, PetReservedIffHeld, PetHeldOnce, HasActiveOrder, Held

LEMMA PetsInvMeansAfter ==
  PetsInv' <=> /\ \A q \in Pets : pet'[q] = "reserved" <=> \E o \in Orders : q \in Held(o)'
               /\ \A o1, o2 \in Orders : Held(o1)' \cap Held(o2)' # {} => o1 = o2
  BY DEF PetsInv, PetReservedIffHeld, PetHeldOnce, HasActiveOrder, Held

\* What an order holds depends on its own row and lines only.
LEMMA HeldLocal ==
  ASSUME NEW o \in Orders, storeOrder'[o] = storeOrder[o], orderLine'[o] = orderLine[o]
  PROVE  Held(o)' = Held(o)
  BY DEF Held, OrderPets, IsLegacy, InBasket

LEMMA HeldArePets == ASSUME NEW o \in Orders PROVE Held(o) \subseteq Pets
  BY DEF Held, OrderPets

\* Nothing is taken or given back: the set of reserved pets stays as it is.
LEMMA HeldStays ==
  ASSUME PetsInv, \A o \in Orders : Held(o)' = Held(o),
         \A q \in Pets : pet'[q] = "reserved" <=> pet[q] = "reserved"
  PROVE  PetsInv'
  BY PetsInvMeans, PetsInvMeansAfter

\* One order gives back all it holds.
LEMMA HeldDropped ==
  ASSUME TypeOK, PetsInv, NEW o \in Orders, \A x \in Orders \ {o} : Held(x)' = Held(x),
         Held(o)' = {}, NEW status, status # "reserved", PetsBecome(Held(o), status)
  PROVE  PetsInv'
<1>1. \A q \in Pets : pet'[q] = IF q \in Held(o) THEN status ELSE pet[q]
  BY DEF PetsBecome
<1>2. \A q \in Pets : pet'[q] = "reserved" <=> \E x \in Orders : q \in Held(x)'
  BY <1>1, PetsInvMeans
<1> QED BY <1>2, PetsInvMeans, PetsInvMeansAfter

\* One order takes pets that are free.
LEMMA HeldTaken ==
  ASSUME TypeOK, PetsInv, NEW o \in Orders, \A x \in Orders \ {o} : Held(x)' = Held(x),
         Held(o) = {}, Held(o)' \subseteq Pets, \A q \in Held(o)' : pet[q] = "available",
         PetsBecome(Held(o)', "reserved")
  PROVE  PetsInv'
<1>1. \A q \in Pets : pet'[q] = IF q \in Held(o)' THEN "reserved" ELSE pet[q]
  BY DEF PetsBecome
<1>2. \A x \in Orders : Held(x) \cap Held(o)' = {}
  BY PetsInvMeans, HeldArePets
<1> QED BY <1>1, <1>2, PetsInvMeans, PetsInvMeansAfter

\* Of an active order the pet lines are reserved, so that releasing or consuming
\* its lines concerns the pets it holds.
LEMMA ReservedLinesAreHeld ==
  ASSUME TypeOK, OrdersAgree, NEW o \in Orders, storeOrder[o].status \in ActiveStatus
  PROVE  HeldPets(o) = Held(o)
<1>1. RowOK(storeOrder[o], orderLine[o]) /\ \A i \in Items : orderLine[o][i] \in LineRow
  BY RowFacts
<1>2. ASSUME NEW q \in Pets, ~IsLegacy(o)
      PROVE  orderLine[o][q].allocation = "RESERVED" <=> InBasket(orderLine[o], q)
  <2>1. q \in Items /\ q \notin Products
    BY ConstantsAssumption DEF Items
  <2> QED BY <1>1, <2>1 DEF RowOK, ExpectedAllocation, InBasket, ActiveStatus, LineRow
<1> QED BY <1>2 DEF HeldPets, Held, OrderPets, IsLegacy

LEMMA OthersHold ==
  ASSUME NEW o \in Orders, OnlyChanges(o) PROVE \A x \in Orders \ {o} : Held(x)' = Held(x)
  BY HeldLocal DEF OnlyChanges

\* An order that ends with an update of its row and its lines.
LEMMA EndDrops ==
  ASSUME TypeOK, OrdersAgree, PetsInv, NEW o \in Orders,
         storeOrder[o].status \in ActiveStatus,
         NEW status \in CompleteStatus, NEW paymentStatus \in PaymentStatus,
         \/ Transitioned(o, status, paymentStatus)
         \/ LegacyTransitioned(o, status, paymentStatus),
         \A x \in Orders \ {o} : orderLine'[x] = orderLine[x],
         NEW becomes \in {"available", "sold"}, PetsBecome(Held(o), becomes)
  PROVE  PetsInv'
<1>1. /\ storeOrder'[o].status = status
      /\ \A x \in Orders \ {o} : storeOrder'[x] = storeOrder[x]
  BY TransitionedRow DEF CompleteStatus, OrderStatus
<1>2. Held(o)' = {}
  BY <1>1 DEF Held, ActiveStatus, CompleteStatus
<1> QED BY <1>1, <1>2, HeldLocal, HeldDropped

LEMMA ReleaseDrops ==
  ASSUME TypeOK, OrdersAgree, PetsInv, NEW o \in Orders,
         storeOrder[o].status \in ActiveStatus,
         NEW status \in {"cancelled", "expired"}, NEW paymentStatus \in PaymentStatus,
         Transitioned(o, status, paymentStatus), Release(o)
  PROVE  PetsInv'
<1>1. \A x \in Orders \ {o} : orderLine'[x] = orderLine[x]
  BY ReallocatedLines DEF Release, Allocation
<1>2. PetsBecome(Held(o), "available")
  BY ReservedLinesAreHeld DEF Release
<1> QED BY <1>1, <1>2, EndDrops DEF CompleteStatus

LEMMA ExpiredDrops ==
  ASSUME TypeOK, OrdersAgree, PetsInv, NEW o \in Orders, Expired(o) \/ LegacyExpired(o)
  PROVE  PetsInv'
<1> USE DEF PaymentStatus, CompleteStatus
<1>1. storeOrder[o].status \in ActiveStatus
  BY DEF Expired, LegacyExpired, Overdue, ActiveStatus
<1>2. CASE Expired(o)
  BY <1>1, <1>2, ReleaseDrops DEF Expired
<1>3. CASE LegacyExpired(o)
  BY <1>1, <1>3, EndDrops DEF LegacyExpired, Held
<1> QED BY <1>2, <1>3

\* A transition between active statuses, or of an order that never was active.
LEMMA MoveHolds ==
  ASSUME TypeOK, PetsInv, NEW o \in Orders, storeOrder[o].status \in ActiveStatus,
         NEW status \in ActiveStatus, NEW paymentStatus \in PaymentStatus,
         \/ Transitioned(o, status, paymentStatus)
         \/ LegacyTransitioned(o, status, paymentStatus),
         \A x \in Orders : \A q \in Pets :
             orderLine'[x][q].quantity = orderLine[x][q].quantity,
         UNCHANGED pet
  PROVE  PetsInv'
<1>1. /\ storeOrder'[o].status = status /\ storeOrder'[o].kind = storeOrder[o].kind
      /\ storeOrder'[o].pet = storeOrder[o].pet
      /\ \A x \in Orders \ {o} : storeOrder'[x] = storeOrder[x]
  BY TransitionedRow DEF ActiveStatus, OrderStatus
<1>2. \A x \in Orders : OrderPets(x)' = OrderPets(x)
  BY <1>1 DEF OrderPets, IsLegacy, InBasket
<1>3. \A x \in Orders : Held(x)' = Held(x)
  BY <1>1, <1>2 DEF Held
<1> QED BY <1>3, HeldStays

LEMMA PlaceTakes ==
  ASSUME TypeOK, OrdersAgree, PetsInv, NEW actor \in Users, NEW o \in Orders, Place(actor, o)
  PROVE  PetsInv'
<1> DEFINE basket == {i \in Items : InBasket(orderLine[o], i)}
<1>1. /\ storeOrder'[o].status = "placed" /\ storeOrder'[o].kind = storeOrder[o].kind
      /\ \A x \in Orders \ {o} : storeOrder'[x] = storeOrder[x]
  BY TransitionedRow DEF Place, OrderStatus, PaymentStatus
<1>2. Reallocated(o, basket, "RESERVED")
  BY DEF Place
<1>3. /\ \A i \in Items : orderLine'[o][i].quantity = orderLine[o][i].quantity
      /\ \A x \in Orders \ {o} : orderLine'[x] = orderLine[x]
  BY <1>2, ReallocatedLines DEF Allocation
<1>4. Held(o) = {}
  BY DEF Held, Place, ActiveStatus
<1>5. storeOrder[o].kind # "LEGACY"
  BY DEF Place, IsLegacy
<1>6. Held(o)' = basket \cap Pets
  BY <1>1, <1>3, <1>5 DEF Held, OrderPets, IsLegacy, InBasket, ActiveStatus, Items
<1>7. \A q \in basket \cap Pets : pet[q] = "available"
  BY DEF Place, Sellable
<1>8. PetsBecome(basket \cap Pets, "reserved")
  BY DEF Place
<1>9. \A x \in Orders \ {o} : Held(x)' = Held(x)
  BY <1>1, <1>3, HeldLocal
<1> HIDE DEF basket
<1> QED BY <1>4, <1>6, <1>7, <1>8, <1>9, HeldTaken

\* The overdue orders of the pet give it back before the new one takes it; no other
\* order held it, or it would be found active.
LEMMA LegacyPlaceTakes ==
  ASSUME TypeOK, OrdersAgree, PetsInv, NEW actor \in Users, NEW o \in Orders,
         LegacyPlace(actor, o)
  PROVE  PetsInv'
<1> DEFINE q == storeOrder[o].pet
           old == {x \in Orders : Overdue(x) /\ storeOrder[x].pet = q}
<1>1. /\ q \in Pets /\ storeOrder[o].kind = "LEGACY" /\ storeOrder[o].status = "draft"
      /\ storeOrder[o] \in OrderRow
  BY RowFacts DEF LegacyPlace, IsLegacy, RowOK
<1>2. /\ storeOrder'[o].status = "placed" /\ storeOrder'[o].kind = "LEGACY"
      /\ storeOrder'[o].pet = q
  <2>1. storeOrder'[o] = LegacyMoved(storeOrder[o], "placed", "UNPAID")
    BY DEF LegacyPlace
  <2> QED BY <1>1, <2>1, MovedRow DEF OrderStatus, PaymentStatus
<1>3. Held(o) = {} /\ Held(o)' = {q}
  BY <1>1, <1>2 DEF Held, OrderPets, IsLegacy, ActiveStatus
<1>4. ASSUME NEW x \in Orders \ {o}, x \in old PROVE Held(x) = {q} /\ Held(x)' = {}
  <2>1. storeOrder[x] \in OrderRow /\ RowOK(storeOrder[x], orderLine[x])
    BY RowFacts
  <2>2. storeOrder[x].kind = "LEGACY" /\ storeOrder[x].status = "placed"
    BY <1>1, <1>4, <2>1 DEF RowOK, Overdue
  <2>3. storeOrder'[x] = LegacyMoved(storeOrder[x], "expired", "EXPIRED")
    BY <1>4 DEF LegacyPlace
  <2>4. storeOrder'[x].status = "expired"
    BY <2>1, <2>3, MovedRow DEF OrderStatus, PaymentStatus
  <2> QED BY <1>1, <1>4, <2>2, <2>4 DEF Held, OrderPets, IsLegacy, ActiveStatus
<1>5. ASSUME NEW x \in Orders \ {o}, x \notin old PROVE Held(x)' = Held(x) /\ q \notin Held(x)
  <2>1. storeOrder'[x] = storeOrder[x] /\ orderLine'[x] = orderLine[x]
    BY <1>5 DEF LegacyPlace
  <2>2. storeOrder[x].status \in ActiveStatus => q \notin OrderPets(x)
    BY <1>5 DEF LegacyPlace
  <2> QED BY <2>1, <2>2, HeldLocal DEF Held
<1>6. \A r \in Pets : pet'[r] = IF r = q THEN "reserved" ELSE pet[r]
  BY DEF LegacyPlace, TypeOK
<1> HIDE DEF q, old
<1>7. \A x \in Orders : x # o => Held(x)' = Held(x) \ {q}
  BY <1>4, <1>5
<1>8. \A r \in Pets : pet'[r] = "reserved" <=> \E x \in Orders : r \in Held(x)'
  <2> SUFFICES ASSUME NEW r \in Pets
               PROVE  pet'[r] = "reserved" <=> \E x \in Orders : r \in Held(x)'
    OBVIOUS
  <2>1. CASE r = q
    BY <2>1, <1>3, <1>6
  <2>2. CASE r # q
    <3>1. \A x \in Orders : r \in Held(x)' <=> r \in Held(x)
      BY <2>2, <1>3, <1>7
    <3> QED BY <2>2, <3>1, <1>6, PetsInvMeans
  <2> QED BY <2>1, <2>2
<1>9. \A x, y \in Orders : Held(x)' \cap Held(y)' # {} => x = y
  BY <1>3, <1>7, PetsInvMeans
<1> QED BY <1>8, <1>9, PetsInvMeansAfter

\* An order that is not active before or after the step.
LEMMA IdleHolds ==
  ASSUME TypeOK, PetsInv, NEW o \in Orders, OnlyChanges(o),
         storeOrder[o].status \notin ActiveStatus,
         storeOrder'[o].status \notin ActiveStatus, UNCHANGED pet
  PROVE  PetsInv'
<1>1. Held(o)' = Held(o)
  BY DEF Held
<1> QED BY <1>1, OthersHold, HeldStays

LEMMA CommercePets ==
  ASSUME TypeOK, OrdersAgree, PetsInv, CommerceNext PROVE PetsInv'
<1> USE DEF PaymentStatus
<1>1. ASSUME NEW o \in Orders, NEW u \in Users, CreateOrder(o, u) PROVE PetsInv'
  <2>1. storeOrder'[o].status = "draft" /\ OnlyChanges(o)
    BY <1>1 DEF CreateOrder, TypeOK, NoOrderRow, OnlyChanges
  <2> QED BY <1>1, <2>1, IdleHolds DEF CreateOrder, ActiveStatus
<1>2. ASSUME NEW actor \in Users, NEW o \in Orders, Approve(actor, o) PROVE PetsInv'
  BY <1>2, MoveHolds DEF Approve, MayTransition, CanTransition, ActiveStatus
<1>3. ASSUME NEW actor \in Users, NEW o \in Orders, Ship(actor, o) PROVE PetsInv'
  BY <1>3, MoveHolds, PaymentStatusType DEF Ship, MayTransition, CanTransition, ActiveStatus
<1>4. ASSUME NEW actor \in Users, NEW o \in Orders, Deliver(actor, o) PROVE PetsInv'
  <2>1. storeOrder[o].status \in ActiveStatus
    BY <1>4 DEF Deliver, MayTransition, CanTransition, ActiveStatus
  <2>2. PetsBecome(Held(o), "sold")
    BY <1>4, <2>1, ReservedLinesAreHeld DEF Deliver, Consume
  <2>3. \A x \in Orders \ {o} : orderLine'[x] = orderLine[x]
    BY <1>4, ReallocatedLines DEF Deliver, Consume, Allocation
  <2> QED BY <1>4, <2>1, <2>2, <2>3, EndDrops, PaymentStatusType DEF Deliver, CompleteStatus
<1>5. ASSUME NEW actor \in Users, NEW o \in Orders, Cancel(actor, o) PROVE PetsInv'
  <2>1. storeOrder[o].status \in ActiveStatus
    BY <1>5 DEF Cancel, MayTransition, CanTransition, ActiveStatus
  <2> QED BY <1>5, <2>1, ReleaseDrops, PaymentStatusType DEF Cancel
<1>6. ASSUME NEW actor \in Users, NEW o \in Orders, Delete(actor, o) PROVE PetsInv'
  <2>1. storeOrder'[o].status = "absent" /\ OnlyChanges(o)
    BY <1>6 DEF Delete, RowsDeleted, TypeOK, NoOrderRow, OnlyChanges
  <2> QED BY <1>6, <2>1, IdleHolds DEF Delete, ActiveStatus, CompleteStatus
<1>7. ASSUME NEW o \in Orders, ExpireMixed(o) PROVE PetsInv'
  BY <1>7, ExpiredDrops DEF ExpireMixed
<1> QED BY <1>1, <1>2, <1>3, <1>4, <1>5, <1>6, <1>7, PlaceTakes DEF CommerceNext

LEMMA PaymentPets ==
  ASSUME TypeOK, OrdersAgree, PetsInv, PaymentNext PROVE PetsInv'
<1>1. ASSUME NEW k \in PaymentKeys, NEW actor \in Users, NEW o \in Orders,
             PaySucceeded(k, actor, o)
      PROVE  PetsInv'
  <2>1. \A x \in Orders : \A q \in Pets :
          orderLine'[x][q].quantity = orderLine[x][q].quantity
    BY <1>1, ReallocatedLines DEF PaySucceeded, Allocation, Items
  <2> QED BY <1>1, <2>1, MoveHolds DEF PaySucceeded, Payable, ActiveStatus, PaymentStatus
<1>2. ASSUME NEW k \in PaymentKeys, NEW actor \in Users, NEW o \in Orders,
             PayTooLate(k, actor, o)
      PROVE  PetsInv'
  BY <1>2, ExpiredDrops DEF PayTooLate
<1>3. CASE UNCHANGED <<orderVars, pet>>
  BY <1>3, HeldLocal, HeldStays
<1> QED BY <1>1, <1>2, <1>3 DEF PaymentNext, PayDeclined, DeleteDeclined

LEMMA LegacyPets ==
  ASSUME TypeOK, OrdersAgree, PetsInv, LegacyNext PROVE PetsInv'
<1> USE DEF PaymentStatus
<1>1. ASSUME NEW o \in Orders, NEW u \in Users, NEW q \in Pets,
             LegacyCreate(o, u, q) \/ LegacyUpdate(u, o, q)
      PROVE  PetsInv'
  <2>1. OnlyChanges(o) /\ UNCHANGED pet
    BY <1>1 DEF OnlyChanges, LegacyCreate, LegacyUpdate, TypeOK
  <2>2. storeOrder'[o].status = "draft"
    BY <1>1 DEF LegacyCreate, LegacyUpdate, TypeOK, OrderRow, NoOrderRow
  <2>3. storeOrder[o].status \in {"absent", "draft"}
    BY <1>1 DEF LegacyCreate, LegacyUpdate
  <2> QED BY <2>1, <2>2, <2>3, IdleHolds DEF ActiveStatus
<1>2. ASSUME NEW actor \in Users, NEW o \in Orders, LegacyApprove(actor, o) PROVE PetsInv'
  BY <1>2, MoveHolds, PaymentStatusType
     DEF LegacyApprove, LegacyMayMove, CanTransition, ActiveStatus
<1>3. ASSUME NEW actor \in Users, NEW o \in Orders, LegacyShip(actor, o) PROVE PetsInv'
  BY <1>3, MoveHolds, PaymentStatusType
     DEF LegacyShip, LegacyMayMove, CanTransition, ActiveStatus
<1>4. ASSUME NEW actor \in Users, NEW o \in Orders, LegacyDeliver(actor, o) PROVE PetsInv'
  <2>1. storeOrder[o].status \in ActiveStatus
    BY <1>4 DEF LegacyDeliver, LegacyMayMove, CanTransition, ActiveStatus
  <2>2. PetsBecome(Held(o), "sold")
    BY <1>4, <2>1 DEF LegacyDeliver, Held
  <2> QED BY <1>4, <2>1, <2>2, EndDrops, PaymentStatusType DEF LegacyDeliver, CompleteStatus
<1>5. ASSUME NEW actor \in Users, NEW o \in Orders, LegacyCancel(actor, o) PROVE PetsInv'
  <2>1. storeOrder[o].status \in ActiveStatus
    BY <1>5 DEF LegacyCancel, LegacyMayMove, CanTransition, ActiveStatus
  <2>2. {q \in OrderPets(o) : \A x \in Orders \ {o} :
            storeOrder[x].status \in ActiveStatus => q \notin OrderPets(x)} = Held(o)
    BY <2>1 DEF PetsInv, PetHeldOnce, Held
  <2>3. PetsBecome(Held(o), "available")
    BY <1>5, <2>2 DEF LegacyCancel
  <2> QED BY <1>5, <2>1, <2>3, EndDrops, PaymentStatusType DEF LegacyCancel, CompleteStatus
<1>6. ASSUME NEW actor \in Users, NEW o \in Orders, LegacyDelete(actor, o) PROVE PetsInv'
  <2>1. storeOrder'[o].status = "absent" /\ OnlyChanges(o)
    BY <1>6 DEF LegacyDelete, RowsDeleted, TypeOK, NoOrderRow, OnlyChanges
  <2>2. Held(o)' = {}
    BY <2>1 DEF Held, ActiveStatus
  <2>3. PetsBecome(Held(o), "available")
    BY <1>6 DEF LegacyDelete, Held, Overdue, ActiveStatus, CompleteStatus
  <2> QED BY <2>1, <2>2, <2>3, OthersHold, HeldDropped
<1>7. ASSUME NEW o \in Orders, ExpireLegacy(o) PROVE PetsInv'
  BY <1>7, ExpiredDrops DEF ExpireLegacy
<1> QED BY <1>1, <1>2, <1>3, <1>4, <1>5, <1>6, <1>7, LegacyPlaceTakes DEF LegacyNext

\* An administrator sets the status of a pet only while no active order holds it,
\* and never to reserved.
LEMMA CatalogPets ==
  ASSUME TypeOK, PetsInv, CatalogNext PROVE PetsInv'
<1>1. ASSUME NEW q \in Pets, NEW status \in PetStatuses \cup {pet[q]}, NEW price,
             UpdatePet(q, status, price)
      PROVE  PetsInv'
  <2>1. \A o \in Orders : Held(o)' = Held(o)
    BY <1>1, HeldLocal DEF UpdatePet
  <2>2. \/ status = pet[q]
        \/ status # "reserved" /\ pet[q] # "reserved"
    BY <1>1, CatalogAssumption DEF UpdatePet, PetsInv, PetReservedIffHeld
  <2>3. \A r \in Pets : pet'[r] = IF r = q THEN status ELSE pet[r]
    BY <1>1 DEF UpdatePet, TypeOK
  <2> QED BY <2>1, <2>2, <2>3, HeldStays
<1>2. CASE UNCHANGED <<orderVars, pet>>
  BY <1>2, HeldLocal, HeldStays
<1> QED BY <1>1, <1>2 DEF CatalogNext, AdjustStock, SavePrice, Publish

LEMMA InitPets == Init => PetsInv
<1> SUFFICES ASSUME Init PROVE PetsInv
  OBVIOUS
<1> PICK owner \in [Migrated -> Users], held \in Injection(Migrated, Pets) :
      /\ storeOrder = [o \in Orders |->
            IF o \in Migrated THEN MigratedRow(owner[o], held[o]) ELSE NoOrderRow]
      /\ pet = [q \in Pets |-> IF \E o \in Migrated : held[o] = q
                               THEN "reserved" ELSE "available"]
  BY DEF Init
<1>1. /\ held \in [Migrated -> Pets]
      /\ \A x, y \in Migrated : held[x] = held[y] => x = y
  BY DEF Injection, IsInjective
<1>2. \A o \in Orders : Held(o) = IF o \in Migrated THEN {held[o]} ELSE {}
  <2>1. \A o \in Migrated : o \in Orders /\ held[o] \in Pets
    BY <1>1, ConstantsAssumption
  <2> QED BY <2>1 DEF Held, OrderPets, IsLegacy, MigratedRow, NoOrderRow, ActiveStatus
<1>3. \A q \in Pets : pet[q] = "reserved" <=> \E o \in Orders : q \in Held(o)
  BY <1>2, ConstantsAssumption
<1>4. \A x, y \in Orders : Held(x) \cap Held(y) # {} => x = y
  BY <1>1, <1>2
<1> QED BY <1>3, <1>4, PetsInvMeans

LEMMA PetsStep == ASSUME TypeOK, OrdersAgree, PetsInv, [Next]_vars PROVE PetsInv'
<1>1. ASSUME NEW o \in Orders, DeadlinePasses(o) PROVE PetsInv'
  <2>1. \A x \in Orders : Held(x)' = Held(x)
    BY <1>1 DEF DeadlinePasses, TypeOK, OrderRow, Held, OrderPets, IsLegacy, InBasket
  <2> QED BY <1>1, <2>1, HeldStays DEF DeadlinePasses
<1>2. CASE UNCHANGED <<orderVars, pet>>
  BY <1>2, HeldLocal, HeldStays
<1> QED BY <1>1, <1>2, CommercePets, PaymentPets, LegacyPets, CatalogPets
        DEF Next, vars, CartNext, ReplaceCart

\* In every reachable state a pet is reserved exactly while an active order of either
\* kind holds it (place, place_draft, release and the expiry of both services).
THEOREM PetReservedInvariant == Spec => []PetReservedIffHeld
<1>1. TypeOK /\ OrdersAgree /\ PetsInv /\ [Next]_vars => PetsInv'
  BY PetsStep
<1>2. PetsInv => PetReservedIffHeld
  BY DEF PetsInv
<1> QED BY InitPets, TypeInvariant, OrdersAlwaysAgree, <1>1, <1>2, PTL DEF Spec

\* Two active orders never hold the same pet, although the unique index covers LEGACY
\* orders only.
THEOREM PetHeldOnceInvariant == Spec => []PetHeldOnce
<1>1. TypeOK /\ OrdersAgree /\ PetsInv /\ [Next]_vars => PetsInv'
  BY PetsStep
<1>2. PetsInv => PetHeldOnce
  BY DEF PetsInv
<1> QED BY InitPets, TypeInvariant, OrdersAlwaysAgree, <1>1, <1>2, PTL DEF Spec

-----------------------------------------------------------------------------
(* Payments *)

Settled(o) == {k \in PaymentKeys : payment[k].order = o /\ payment[k].status # "DECLINED"}

\* The first part of PaymentsAgree; the others follow from OrdersAgree.
SettledOnce(o) ==
    IF storeOrder[o].paymentStatus \in {"PAID", "REFUNDED"}
    THEN \E k \in PaymentKeys :
             /\ Settled(o) = {k}
             /\ payment[k].status = "SUCCEEDED" <=> storeOrder[o].paymentStatus = "PAID"
    ELSE Settled(o) = {}

PaymentsInv == \A o \in Orders : SettledOnce(o)

LEMMA PaymentsFollow == ASSUME TypeOK, OrdersAgree, PaymentsInv PROVE PaymentsAgree
<1> SUFFICES ASSUME NEW o \in Orders
             PROVE  /\ SettledOnce(o)
                    /\ storeOrder[o].status \in {"approved", "shipped", "delivered"} =>
                         \/ storeOrder[o].paymentStatus = "PAID"
                         \/ IsLegacy(o) /\ storeOrder[o].paymentStatus = "NOT_REQUIRED"
                    /\ storeOrder[o].paymentStatus = "REFUNDED" =>
                         storeOrder[o].status = "cancelled"
  BY DEF PaymentsAgree, SettledOnce, Settled
<1>1. RowOK(storeOrder[o], orderLine[o]) /\ storeOrder[o] \in OrderRow
  BY RowFacts
<1> QED BY <1>1 DEF PaymentsInv, RowOK, PaymentStatusesIn, IsLegacy, OrderRow, OrderStatus

\* An order keeps its payments and whether it is paid or refunded.
SameMoney(o) ==
    /\ Settled(o)' = Settled(o)
    /\ \A k \in Settled(o) : payment'[k] = payment[k]
    /\ \/ storeOrder'[o].paymentStatus = storeOrder[o].paymentStatus
       \/ {storeOrder[o].paymentStatus, storeOrder'[o].paymentStatus}
             \cap {"PAID", "REFUNDED"} = {}

LEMMA SameMoneyKeeps ==
  ASSUME NEW o \in Orders, SettledOnce(o), SameMoney(o) PROVE SettledOnce(o)'
<1>1. CASE storeOrder[o].paymentStatus \in {"PAID", "REFUNDED"}
  <2>1. PICK k \in PaymentKeys :
           /\ Settled(o) = {k}
           /\ payment[k].status = "SUCCEEDED" <=> storeOrder[o].paymentStatus = "PAID"
    BY <1>1 DEF SettledOnce
  <2>2. storeOrder'[o].paymentStatus = storeOrder[o].paymentStatus
    BY <1>1 DEF SameMoney
  <2>3. Settled(o)' = {k} /\ payment'[k] = payment[k]
    BY <2>1 DEF SameMoney
  <2> QED BY <1>1, <2>1, <2>2, <2>3 DEF SettledOnce
<1>2. CASE storeOrder[o].paymentStatus \notin {"PAID", "REFUNDED"}
  <2>1. storeOrder'[o].paymentStatus \notin {"PAID", "REFUNDED"}
    BY <1>2 DEF SameMoney
  <2> QED BY <1>2, <2>1 DEF SettledOnce, SameMoney
<1> QED BY <1>1, <1>2

\* Payments stay, and the order that moves is neither paid nor refunded by it.
LEMMA PaymentStays ==
  ASSUME PaymentsInv, UNCHANGED payment,
         \A x \in Orders :
            \/ storeOrder'[x].paymentStatus = storeOrder[x].paymentStatus
            \/ {storeOrder[x].paymentStatus, storeOrder'[x].paymentStatus}
                  \cap {"PAID", "REFUNDED"} = {}
  PROVE  PaymentsInv'
<1>1. \A x \in Orders : SameMoney(x)
  BY DEF SameMoney, Settled
<1> QED BY <1>1, SameMoneyKeeps DEF PaymentsInv

\* A cancellation refunds the one successful payment of a paid order.
LEMMA RefundSettles ==
  ASSUME TypeOK, OrdersAgree, PaymentsInv, NEW o \in Orders,
         storeOrder[o].status \in {"placed", "approved"},
         storeOrder'[o].paymentStatus = StatusAfterRefund(o),
         \A x \in Orders \ {o} : storeOrder'[x] = storeOrder[x],
         Refunded(o)
  PROVE  PaymentsInv'
<1>1. storeOrder[o].paymentStatus # "REFUNDED"
  BY RowFacts DEF RowOK, PaymentStatusesIn
<1>2. CASE storeOrder[o].paymentStatus = "PAID"
  <2>1. PICK k \in PaymentKeys : Settled(o) = {k} /\ payment[k].status = "SUCCEEDED"
    BY <1>2 DEF PaymentsInv, SettledOnce
  <2>2. \A j \in PaymentKeys : payment[j] \in PaymentRow
    BY DEF TypeOK
  <2>3. payment[k].order = o /\ payment[k] = [order |-> o, status |-> "SUCCEEDED"]
    BY <2>1, <2>2 DEF Settled, PaymentRow
  <2>4. SucceededPayments(o) = {k}
    BY <2>1, <2>3 DEF SucceededPayments, Settled
  <2>5. /\ payment'[k] = [payment[k] EXCEPT !.status = "REFUNDED"]
        /\ \A j \in PaymentKeys \ {k} : payment'[j] = payment[j]
    BY <1>2, <2>4 DEF Refunded
  <2>6. payment'[k] = [order |-> o, status |-> "REFUNDED"]
    BY <2>3, <2>5
  <2>7. \A x \in Orders : Settled(x)' = Settled(x)
    BY <2>3, <2>5, <2>6 DEF Settled
  <2>8. SettledOnce(o)'
    BY <1>2, <2>1, <2>6, <2>7 DEF SettledOnce, StatusAfterRefund
  <2>9. \A x \in Orders \ {o} : SameMoney(x)
    BY <2>3, <2>5, <2>7 DEF SameMoney, Settled
  <2> QED BY <2>8, <2>9, SameMoneyKeeps DEF PaymentsInv
<1>3. CASE storeOrder[o].paymentStatus # "PAID"
  BY <1>1, <1>3, PaymentStays DEF Refunded, StatusAfterRefund
<1> QED BY <1>2, <1>3

LEMMA SuccessSettles ==
  ASSUME TypeOK, OrdersAgree, PaymentsInv, NEW k \in PaymentKeys, NEW actor \in Users,
         NEW o \in Orders, PaySucceeded(k, actor, o)
  PROVE  PaymentsInv'
<1>1. /\ storeOrder'[o].paymentStatus = "PAID"
      /\ \A x \in Orders \ {o} : storeOrder'[x] = storeOrder[x]
  BY TransitionedRow DEF PaySucceeded, OrderStatus, PaymentStatus
<1>2. /\ payment[k] = NoPayment /\ payment'[k] = [order |-> o, status |-> "SUCCEEDED"]
      /\ \A j \in PaymentKeys \ {k} : payment'[j] = payment[j]
  BY DEF PaySucceeded, Attempted, TypeOK
<1>3. Settled(o) = {}
  BY DEF PaySucceeded, NoSuccessYet, Settled
<1>4. Settled(o)' = {k}
  BY <1>2, <1>3 DEF Settled
<1>5. SettledOnce(o)'
  BY <1>1, <1>2, <1>4 DEF SettledOnce
<1>6. \A x \in Orders \ {o} : SameMoney(x)
  BY <1>1, <1>2, ConstantsAssumption DEF SameMoney, Settled, NoPayment
<1> QED BY <1>5, <1>6, SameMoneyKeeps DEF PaymentsInv

\* Attempts that are declined never count.
LEMMA DeclinedSettles ==
  ASSUME TypeOK, PaymentsInv, UNCHANGED storeOrder,
         \/ \E k \in PaymentKeys, o \in Orders : Attempted(k, o, "DECLINED")
         \/ \E k \in PaymentKeys : DeleteDeclined(k)
  PROVE  PaymentsInv'
<1>1. PICK k \in PaymentKeys :
        /\ \/ payment[k] = NoPayment
           \/ payment[k].status = "DECLINED"
        /\ \/ payment'[k] = NoPayment
           \/ payment'[k].status = "DECLINED"
        /\ \A j \in PaymentKeys \ {k} : payment'[j] = payment[j]
  BY DEF Attempted, DeleteDeclined, TypeOK
<1>2. \A x \in Orders : SameMoney(x)
  BY <1>1, ConstantsAssumption DEF SameMoney, Settled, NoPayment
<1> QED BY <1>2, SameMoneyKeeps DEF PaymentsInv

LEMMA DeletionSettles ==
  ASSUME TypeOK, PaymentsInv, NEW o \in Orders, RowsDeleted(o) PROVE PaymentsInv'
<1>1. /\ storeOrder'[o] = NoOrderRow
      /\ \A x \in Orders \ {o} : storeOrder'[x] = storeOrder[x]
      /\ \A k \in PaymentKeys :
            payment'[k] = IF payment[k].order = o THEN NoPayment ELSE payment[k]
  BY DEF RowsDeleted, TypeOK
<1>2. Settled(o)' = {}
  BY <1>1, ConstantsAssumption DEF Settled, NoPayment
<1>3. SettledOnce(o)'
  BY <1>1, <1>2 DEF SettledOnce, NoOrderRow
<1>4. \A x \in Orders \ {o} : SameMoney(x)
  BY <1>1, ConstantsAssumption DEF SameMoney, Settled, NoPayment
<1> QED BY <1>3, <1>4, SameMoneyKeeps DEF PaymentsInv

\* A transition that leaves the payments of its order alone.
LEMMA TransitionSettles ==
  ASSUME TypeOK, PaymentsInv, NEW o \in Orders, NEW status \in OrderStatus,
         NEW paymentStatus \in PaymentStatus,
         \/ Transitioned(o, status, paymentStatus)
         \/ LegacyTransitioned(o, status, paymentStatus),
         \/ paymentStatus = storeOrder[o].paymentStatus
         \/ {storeOrder[o].paymentStatus, paymentStatus} \cap {"PAID", "REFUNDED"} = {},
         UNCHANGED payment
  PROVE  PaymentsInv'
  BY TransitionedRow, PaymentStays

LEMMA ExpiredSettles ==
  ASSUME TypeOK, PaymentsInv, NEW o \in Orders, Expired(o) \/ LegacyExpired(o),
         UNCHANGED payment
  PROVE  PaymentsInv'
  BY TransitionSettles DEF Expired, LegacyExpired, Overdue, OrderStatus, PaymentStatus

LEMMA CommercePayments ==
  ASSUME TypeOK, OrdersAgree, PaymentsInv, CommerceNext PROVE PaymentsInv'
<1> USE DEF OrderStatus
<1>1. ASSUME NEW o \in Orders, NEW u \in Users, CreateOrder(o, u) PROVE PaymentsInv'
  <2>1. storeOrder[o].paymentStatus = "NOT_STARTED"
    BY <1>1, RowFacts DEF CreateOrder, RowOK, PaymentStatusesIn
  <2>2. /\ storeOrder'[o].paymentStatus = "NOT_STARTED"
        /\ \A x \in Orders \ {o} : storeOrder'[x] = storeOrder[x]
    BY <1>1 DEF CreateOrder, TypeOK, NoOrderRow
  <2> QED BY <1>1, <2>1, <2>2, PaymentStays DEF CreateOrder
<1>2. ASSUME NEW actor \in Users, NEW o \in Orders, Place(actor, o) PROVE PaymentsInv'
  <2>1. storeOrder[o].paymentStatus = "NOT_STARTED"
    BY <1>2, RowFacts DEF Place, RowOK, PaymentStatusesIn
  <2> QED BY <1>2, <2>1, TransitionSettles DEF Place, PaymentStatus
<1>3. ASSUME NEW actor \in Users, NEW o \in Orders, Approve(actor, o) PROVE PaymentsInv'
  BY <1>3, TransitionSettles DEF Approve, PaymentStatus
<1>4. ASSUME NEW actor \in Users, NEW o \in Orders, Ship(actor, o) PROVE PaymentsInv'
  BY <1>4, TransitionSettles, PaymentStatusType DEF Ship
<1>5. ASSUME NEW actor \in Users, NEW o \in Orders, Deliver(actor, o) PROVE PaymentsInv'
  BY <1>5, TransitionSettles, PaymentStatusType DEF Deliver
<1>6. ASSUME NEW actor \in Users, NEW o \in Orders, Cancel(actor, o) PROVE PaymentsInv'
  <2>1. storeOrder[o].status \in {"placed", "approved"}
    BY <1>6 DEF Cancel, MayTransition, CanTransition
  <2>2. /\ storeOrder'[o].paymentStatus = StatusAfterRefund(o)
        /\ \A x \in Orders \ {o} : storeOrder'[x] = storeOrder[x]
    BY <1>6, TransitionedRow, PaymentStatusType DEF Cancel
  <2> QED BY <1>6, <2>1, <2>2, RefundSettles DEF Cancel
<1>7. ASSUME NEW actor \in Users, NEW o \in Orders, Delete(actor, o) PROVE PaymentsInv'
  BY <1>7, DeletionSettles DEF Delete
<1>8. ASSUME NEW o \in Orders, ExpireMixed(o) PROVE PaymentsInv'
  BY <1>8, ExpiredSettles DEF ExpireMixed
<1> QED BY <1>1, <1>2, <1>3, <1>4, <1>5, <1>6, <1>7, <1>8 DEF CommerceNext

LEMMA PaymentPayments ==
  ASSUME TypeOK, OrdersAgree, PaymentsInv, PaymentNext PROVE PaymentsInv'
<1>1. ASSUME NEW k \in PaymentKeys, NEW actor \in Users, NEW o \in Orders,
             PayDeclined(k, actor, o)
      PROVE  PaymentsInv'
  BY <1>1, DeclinedSettles DEF PayDeclined
<1>2. ASSUME NEW k \in PaymentKeys, NEW actor \in Users, NEW o \in Orders,
             PayTooLate(k, actor, o)
      PROVE  PaymentsInv'
  BY <1>2, ExpiredSettles DEF PayTooLate
<1>3. ASSUME NEW k \in PaymentKeys, DeleteDeclined(k) PROVE PaymentsInv'
  BY <1>3, DeclinedSettles DEF DeleteDeclined
<1> QED BY <1>1, <1>2, <1>3, SuccessSettles DEF PaymentNext

LEMMA LegacyPayments ==
  ASSUME TypeOK, OrdersAgree, PaymentsInv, LegacyNext PROVE PaymentsInv'
<1> USE DEF OrderStatus, PaymentStatus
<1>1. ASSUME NEW o \in Orders, NEW u \in Users, NEW q \in Pets,
             LegacyCreate(o, u, q) \/ LegacyUpdate(u, o, q)
      PROVE  PaymentsInv'
  <2>1. storeOrder[o].paymentStatus = "NOT_STARTED"
    BY <1>1, RowFacts DEF LegacyCreate, LegacyUpdate, RowOK, PaymentStatusesIn
  <2>2. storeOrder'[o].paymentStatus = "NOT_STARTED"
    <3>1. CASE LegacyCreate(o, u, q)
      <4>1. storeOrder'[o] = [NoOrderRow EXCEPT !.kind = "LEGACY", !.owner = u,
                                                !.status = "draft", !.pet = q]
        BY <3>1 DEF LegacyCreate, TypeOK
      <4> QED BY <4>1 DEF NoOrderRow
    <3>2. CASE LegacyUpdate(u, o, q)
      <4>1. storeOrder[o] \in OrderRow /\ storeOrder'[o] = [storeOrder[o] EXCEPT !.pet = q]
        BY <3>2 DEF LegacyUpdate, TypeOK
      <4> QED BY <2>1, <4>1 DEF OrderRow
    <3> QED BY <1>1, <3>1, <3>2
  <2>3. \A x \in Orders \ {o} : storeOrder'[x] = storeOrder[x]
    BY <1>1 DEF LegacyCreate, LegacyUpdate, TypeOK
  <2> QED BY <1>1, <2>1, <2>2, <2>3, PaymentStays DEF LegacyCreate, LegacyUpdate
<1>2. ASSUME NEW actor \in Users, NEW o \in Orders, LegacyPlace(actor, o) PROVE PaymentsInv'
  <2>1. ASSUME NEW x \in Orders
        PROVE  \/ storeOrder'[x].paymentStatus = storeOrder[x].paymentStatus
               \/ {storeOrder[x].paymentStatus, storeOrder'[x].paymentStatus}
                     \cap {"PAID", "REFUNDED"} = {}
    <3>1. storeOrder[x] \in OrderRow /\ RowOK(storeOrder[x], orderLine[x])
      BY RowFacts
    <3>2. CASE x = o
      <4>1. storeOrder'[x] = LegacyMoved(storeOrder[x], "placed", "UNPAID")
        BY <1>2, <3>2 DEF LegacyPlace
      <4>2. storeOrder[x].paymentStatus = "NOT_STARTED"
        BY <1>2, <3>1, <3>2 DEF LegacyPlace, RowOK, PaymentStatusesIn
      <4> QED BY <3>1, <4>1, <4>2, MovedRow
    <3>3. CASE x # o /\ storeOrder'[x] = storeOrder[x]
      BY <3>3
    <3>4. CASE /\ storeOrder'[x] = LegacyMoved(storeOrder[x], "expired", "EXPIRED")
               /\ Overdue(x)
      BY <3>1, <3>4, MovedRow DEF Overdue
    <3> QED BY <1>2, <3>2, <3>3, <3>4 DEF LegacyPlace
  <2> QED BY <1>2, <2>1, PaymentStays DEF LegacyPlace
<1>3. ASSUME NEW actor \in Users, NEW o \in Orders, LegacyApprove(actor, o)
      PROVE  PaymentsInv'
  BY <1>3, TransitionSettles, PaymentStatusType DEF LegacyApprove
<1>4. ASSUME NEW actor \in Users, NEW o \in Orders, LegacyShip(actor, o) PROVE PaymentsInv'
  BY <1>4, TransitionSettles, PaymentStatusType DEF LegacyShip
<1>5. ASSUME NEW actor \in Users, NEW o \in Orders, LegacyDeliver(actor, o)
      PROVE  PaymentsInv'
  BY <1>5, TransitionSettles, PaymentStatusType DEF LegacyDeliver
<1>6. ASSUME NEW actor \in Users, NEW o \in Orders, LegacyCancel(actor, o)
      PROVE  PaymentsInv'
  <2>1. storeOrder[o].status \in {"placed", "approved"}
    BY <1>6 DEF LegacyCancel, LegacyMayMove, CanTransition
  <2>2. /\ storeOrder'[o].paymentStatus = StatusAfterRefund(o)
        /\ \A x \in Orders \ {o} : storeOrder'[x] = storeOrder[x]
    BY <1>6, TransitionedRow, PaymentStatusType DEF LegacyCancel
  <2> QED BY <1>6, <2>1, <2>2, RefundSettles DEF LegacyCancel
<1>7. ASSUME NEW actor \in Users, NEW o \in Orders, LegacyDelete(actor, o)
      PROVE  PaymentsInv'
  BY <1>7, DeletionSettles DEF LegacyDelete
<1>8. ASSUME NEW o \in Orders, ExpireLegacy(o) PROVE PaymentsInv'
  BY <1>8, ExpiredSettles DEF ExpireLegacy
<1> QED BY <1>1, <1>2, <1>3, <1>4, <1>5, <1>6, <1>7, <1>8 DEF LegacyNext

LEMMA InitPayments == Init => PaymentsInv
<1> SUFFICES ASSUME Init, NEW o \in Orders PROVE SettledOnce(o)
  BY DEF PaymentsInv
<1>1. Settled(o) = {}
  BY ConstantsAssumption DEF Init, Settled, NoPayment
<1>2. storeOrder[o].paymentStatus \in {"NOT_REQUIRED", "NOT_STARTED"}
  <2> PICK owner \in [Migrated -> Users], held \in Injection(Migrated, Pets) :
        storeOrder = [x \in Orders |->
           IF x \in Migrated THEN MigratedRow(owner[x], held[x]) ELSE NoOrderRow]
    BY DEF Init
  <2> QED BY DEF MigratedRow, NoOrderRow
<1> QED BY <1>1, <1>2 DEF SettledOnce

LEMMA PaymentsStep ==
  ASSUME TypeOK, OrdersAgree, PaymentsInv, [Next]_vars PROVE PaymentsInv'
<1>1. ASSUME NEW o \in Orders, DeadlinePasses(o) PROVE PaymentsInv'
  BY <1>1, PaymentStays DEF DeadlinePasses, TypeOK, OrderRow
<1>2. CASE UNCHANGED <<storeOrder, payment>>
  BY <1>2, PaymentStays
<1> QED BY <1>1, <1>2, CommercePayments, PaymentPayments, LegacyPayments
        DEF Next, vars, CartNext, ReplaceCart, CatalogNext, AdjustStock, SavePrice,
            Publish, UpdatePet

\* In every reachable state an order is paid exactly if it has one successful payment,
\* refunded exactly if that payment is, and no goods move unpaid (create_payment,
\* transition and the cancellation of both services).
THEOREM PaymentsInvariant == Spec => []PaymentsAgree
<1>1. TypeOK /\ OrdersAgree /\ PaymentsInv /\ [Next]_vars => PaymentsInv'
  BY PaymentsStep
<1>2. TypeOK /\ OrdersAgree /\ PaymentsInv => PaymentsAgree
  BY PaymentsFollow
<1> QED BY InitPayments, TypeInvariant, OrdersAlwaysAgree, <1>1, <1>2, PTL DEF Spec

-----------------------------------------------------------------------------
(* Every order can be ended *)

LEMMA OneSuccess ==
  ASSUME TypeOK, NEW o \in Orders, SettledOnce(o) PROVE Refundable(o)
<1> SUFFICES ASSUME storeOrder[o].paymentStatus = "PAID"
             PROVE  \E k \in PaymentKeys : SucceededPayments(o) = {k}
  BY DEF Refundable
<1> PICK k \in PaymentKeys : Settled(o) = {k} /\ payment[k].status = "SUCCEEDED"
  BY DEF SettledOnce
<1>1. \A j \in PaymentKeys : payment[j] \in PaymentRow
  BY DEF TypeOK
<1>2. payment[k].order = o
  BY DEF Settled
<1>3. payment[k] = [order |-> o, status |-> "SUCCEEDED"]
  BY <1>1, <1>2 DEF PaymentRow
<1>4. \A j \in SucceededPayments(o) : j \in Settled(o)
  BY DEF SucceededPayments, Settled
<1> QED BY <1>3, <1>4 DEF SucceededPayments

LEMMA EndingsOpen ==
  ASSUME TypeOK, OrdersAgree, PaymentsInv, ReservesCounted PROVE EndingsNeverFail
<1> SUFFICES ASSUME NEW o \in Orders
             PROVE  /\ ReservesCover(o) /\ Refundable(o)
                    /\ Payable(o) => NoSuccessYet(o)
  BY DEF EndingsNeverFail
<1>1. SettledOnce(o)
  BY DEF PaymentsInv
<1>2. \A p \in Products : Reserved(o, p) <= product[p].reserved
  BY LineCovered DEF ReservesCounted
<1>3. ReservesCover(o)
  BY <1>2 DEF ReservesCover, ReservedProducts, Reserved
<1>4. Payable(o) => NoSuccessYet(o)
  BY <1>1 DEF Payable, SettledOnce, Settled, NoSuccessYet
<1> QED BY <1>1, <1>3, <1>4, OneSuccess

LEMMA SettledInvariant == Spec => []PaymentsInv
<1>1. TypeOK /\ OrdersAgree /\ PaymentsInv /\ [Next]_vars => PaymentsInv'
  BY PaymentsStep
<1> QED BY InitPayments, TypeInvariant, OrdersAlwaysAgree, <1>1, PTL DEF Spec

\* In every reachable state the reserves cover the lines of every active order, a paid
\* order has the one payment a refund needs, and a payable one no success yet: no
\* ending of an order, and no turn of the worker, fails on another order's account.
THEOREM EndingsInvariant == Spec => []EndingsNeverFail
<1>1. TypeOK /\ OrdersAgree /\ PaymentsInv /\ ReservesCounted => EndingsNeverFail
  BY EndingsOpen
<1> QED BY TypeInvariant, OrdersAlwaysAgree, SettledInvariant, ReservesInvariant, <1>1, PTL

-----------------------------------------------------------------------------
(* The deadline *)

\* What DeadlineDecides says of one order.
Deadline(o) ==
    /\ Overdue(o) => \/ storeOrder'[o] = storeOrder[o]
                     \/ storeOrder'[o].status \in {"expired", "absent"}
    /\ storeOrder[o].status # "expired" /\ storeOrder'[o].status = "expired" => Overdue(o)

\* A step that writes one order, which it moves in time, expires overdue or deletes.
LEMMA OneDeadline ==
  ASSUME NEW o \in Orders, OnlyChanges(o),
         \/ ~Overdue(o) /\ storeOrder'[o].status # "expired"
         \/ Overdue(o) /\ storeOrder'[o].status = "expired"
         \/ storeOrder'[o].status = "absent"
  PROVE  \A x \in Orders : Deadline(x)
  BY DEF OnlyChanges, Deadline

LEMMA MoveInTime ==
  ASSUME TypeOK, NEW o \in Orders, ~Overdue(o),
         NEW status \in OrderStatus \ {"expired"}, NEW paymentStatus \in PaymentStatus,
         \/ Transitioned(o, status, paymentStatus)
         \/ LegacyTransitioned(o, status, paymentStatus),
         \A x \in Orders \ {o} : orderLine'[x] = orderLine[x]
  PROVE  \A x \in Orders : Deadline(x)
<1>1. storeOrder'[o].status = status /\ OnlyChanges(o)
  BY TransitionedRow DEF OnlyChanges
<1> QED BY <1>1, OneDeadline

LEMMA ExpiredDeadline ==
  ASSUME TypeOK, NEW o \in Orders, Expired(o) \/ LegacyExpired(o)
  PROVE  \A x \in Orders : Deadline(x)
<1>1. "expired" \in OrderStatus /\ "EXPIRED" \in PaymentStatus /\ "RELEASED" \in Allocation
  BY DEF OrderStatus, PaymentStatus, Allocation
<1>2. /\ storeOrder'[o].status = "expired"
      /\ \A x \in Orders \ {o} : storeOrder'[x] = storeOrder[x]
  <2>1. \/ Transitioned(o, "expired", "EXPIRED")
        \/ LegacyTransitioned(o, "expired", "EXPIRED")
    BY DEF Expired, LegacyExpired
  <2> QED BY <1>1, <2>1, TransitionedRow
<1>3. \A x \in Orders \ {o} : orderLine'[x] = orderLine[x]
  <2>1. CASE LegacyExpired(o)
    BY <2>1 DEF LegacyExpired
  <2>2. CASE Expired(o)
    <3>1. PICK items : Reallocated(o, items, "RELEASED")
      BY <2>2 DEF Expired, Release
    <3> QED BY <1>1, <3>1, ReallocatedLines
  <2> QED BY <2>1, <2>2
<1>4. OnlyChanges(o)
  BY <1>2, <1>3 DEF OnlyChanges
<1>5. Overdue(o)
  BY DEF Expired, LegacyExpired
<1> QED BY <1>2, <1>4, <1>5, OneDeadline

LEMMA DeletionDeadline ==
  ASSUME TypeOK, NEW o \in Orders, RowsDeleted(o) PROVE \A x \in Orders : Deadline(x)
<1>1. storeOrder'[o].status = "absent" /\ OnlyChanges(o)
  BY DEF RowsDeleted, TypeOK, NoOrderRow, OnlyChanges
<1> QED BY <1>1, OneDeadline

LEMMA CommerceDeadline ==
  ASSUME TypeOK, CommerceNext PROVE \A x \in Orders : Deadline(x)
<1> USE DEF OrderStatus, PaymentStatus
<1>1. ASSUME NEW o \in Orders, NEW u \in Users, CreateOrder(o, u)
      PROVE  \A x \in Orders : Deadline(x)
  <2>1. OnlyChanges(o) /\ storeOrder'[o].status = "draft" /\ ~Overdue(o)
    BY <1>1 DEF CreateOrder, OnlyChanges, TypeOK, NoOrderRow, Overdue
  <2> QED BY <2>1, OneDeadline
<1>2. ASSUME NEW actor \in Users, NEW o \in Orders, Place(actor, o)
      PROVE  \A x \in Orders : Deadline(x)
  BY <1>2, MoveInTime, ReallocatedLines DEF Place, Overdue, Allocation
<1>3. ASSUME NEW actor \in Users, NEW o \in Orders, Approve(actor, o) \/ Ship(actor, o)
      PROVE  \A x \in Orders : Deadline(x)
  BY <1>3, MoveInTime, PaymentStatusType DEF Approve, Ship, MayTransition
<1>4. ASSUME NEW actor \in Users, NEW o \in Orders, Deliver(actor, o) \/ Cancel(actor, o)
      PROVE  \A x \in Orders : Deadline(x)
  BY <1>4, MoveInTime, ReallocatedLines, PaymentStatusType
     DEF Deliver, Cancel, MayTransition, Consume, Release, Allocation
<1> QED BY <1>1, <1>2, <1>3, <1>4, DeletionDeadline, ExpiredDeadline
        DEF CommerceNext, Delete, ExpireMixed

LEMMA PaymentDeadline ==
  ASSUME TypeOK, PaymentNext PROVE \A x \in Orders : Deadline(x)
<1>1. ASSUME NEW k \in PaymentKeys, NEW actor \in Users, NEW o \in Orders,
             PaySucceeded(k, actor, o)
      PROVE  \A x \in Orders : Deadline(x)
  BY <1>1, MoveInTime, ReallocatedLines
     DEF PaySucceeded, Payable, OrderStatus, PaymentStatus, Allocation
<1>2. CASE UNCHANGED storeOrder
  BY <1>2 DEF Deadline
<1> QED BY <1>1, <1>2, ExpiredDeadline
        DEF PaymentNext, PayDeclined, PayTooLate, DeleteDeclined, orderVars

LEMMA LegacyDeadline ==
  ASSUME TypeOK, LegacyNext PROVE \A x \in Orders : Deadline(x)
<1> USE DEF OrderStatus, PaymentStatus
<1>1. ASSUME NEW o \in Orders, NEW u \in Users, NEW q \in Pets,
             LegacyCreate(o, u, q) \/ LegacyUpdate(u, o, q)
      PROVE  \A x \in Orders : Deadline(x)
  <2>1. OnlyChanges(o) /\ ~Overdue(o)
    BY <1>1 DEF LegacyCreate, LegacyUpdate, OnlyChanges, TypeOK, Overdue
  <2>2. storeOrder[o] \in OrderRow
    BY DEF TypeOK
  <2>3. storeOrder'[o].status = "draft"
    BY <1>1, <2>2 DEF LegacyCreate, LegacyUpdate, TypeOK, NoOrderRow, OrderRow
  <2> QED BY <2>1, <2>3, OneDeadline
<1>2. ASSUME NEW actor \in Users, NEW o \in Orders, LegacyPlace(actor, o),
             NEW x \in Orders
      PROVE  Deadline(x)
  <2>1. storeOrder[x] \in OrderRow
    BY DEF TypeOK
  <2>2. LegacyMoved(storeOrder[x], "placed", "UNPAID").status = "placed"
    BY <2>1, MovedRow
  <2>3. LegacyMoved(storeOrder[x], "expired", "EXPIRED").status = "expired"
    BY <2>1, MovedRow
  <2> QED BY <1>2, <2>2, <2>3 DEF LegacyPlace, Deadline, Overdue
<1>3. ASSUME NEW actor \in Users, NEW o \in Orders,
             \/ LegacyApprove(actor, o) \/ LegacyShip(actor, o)
             \/ LegacyDeliver(actor, o) \/ LegacyCancel(actor, o)
      PROVE  \A x \in Orders : Deadline(x)
  BY <1>3, MoveInTime, PaymentStatusType
     DEF LegacyApprove, LegacyShip, LegacyDeliver, LegacyCancel, LegacyMayMove
<1> QED BY <1>1, <1>2, <1>3, DeletionDeadline, ExpiredDeadline
        DEF LegacyNext, LegacyDelete, ExpireLegacy

LEMMA DeadlineStep ==
  ASSUME TypeOK, [Next]_vars PROVE \A x \in Orders : Deadline(x)
<1>1. ASSUME NEW o \in Orders, DeadlinePasses(o) PROVE \A x \in Orders : Deadline(x)
  <2>1. storeOrder[o] \in OrderRow /\ storeOrder'[o] = [storeOrder[o] EXCEPT !.late = TRUE]
    BY <1>1 DEF DeadlinePasses, TypeOK
  <2>2. storeOrder'[o].status = "placed"
    BY <1>1, <2>1 DEF DeadlinePasses, OrderRow
  <2>3. OnlyChanges(o) /\ ~Overdue(o)
    BY <1>1 DEF DeadlinePasses, OnlyChanges, TypeOK, Overdue
  <2> QED BY <2>2, <2>3, OneDeadline
<1>2. CASE UNCHANGED storeOrder
  BY <1>2 DEF Deadline
<1> QED BY <1>1, <1>2, CommerceDeadline, PaymentDeadline, LegacyDeadline
        DEF Next, vars, orderVars, CartNext, ReplaceCart, CatalogNext, AdjustStock, SavePrice,
            Publish, UpdatePet

\* No step pays, cancels, approves or ships an order after its deadline, and none
\* expires an order before it.
THEOREM DeadlineProperty == Spec => DeadlineDecides
<1>1. TypeOK /\ [Next]_vars =>
        [\A o \in Orders :
         /\ Overdue(o) => \/ storeOrder'[o] = storeOrder[o]
                          \/ storeOrder'[o].status \in {"expired", "absent"}
         /\ storeOrder[o].status # "expired" /\ storeOrder'[o].status = "expired"
               => Overdue(o)]_vars
  BY DeadlineStep DEF Deadline
<1> QED BY TypeInvariant, <1>1, PTL DEF Spec, DeadlineDecides

-----------------------------------------------------------------------------
(* Reservations end *)

\* Fairness with the guards of the two actions in place of ENABLED: time does not
\* stop before a deadline, and an overdue order is swept in the end.
TimePasses(o) == []<>~(Unpaid(o) /\ ~storeOrder[o].late) \/ []<><<DeadlinePasses(o)>>_vars
WorkerTurns(o) == []<>~Overdue(o) \/ []<><<Sweep(o)>>_vars

LEMMA SweepEnds ==
  ASSUME TypeOK, NEW o \in Orders, Sweep(o) PROVE ~Unpaid(o)'
<1> USE DEF OrderStatus, PaymentStatus
<1>1. storeOrder'[o].status = "expired"
  BY TransitionedRow DEF Sweep, ExpireMixed, Expired, ExpireLegacy, LegacyExpired
<1> QED BY <1>1 DEF Unpaid

LEMMA OneReservationEnds ==
  ASSUME NEW o \in Orders
  PROVE  Spec /\ TimePasses(o) /\ WorkerTurns(o) => (Unpaid(o) ~> ~Unpaid(o))
<1>1. TypeOK /\ <<DeadlinePasses(o)>>_vars => Overdue(o)'
  BY DEF DeadlinePasses, Overdue, TypeOK, OrderRow
<1>2. TypeOK /\ <<Sweep(o)>>_vars => ~Unpaid(o)'
  BY SweepEnds
<1>3. Overdue(o) <=> Unpaid(o) /\ storeOrder[o].late
  BY DEF Overdue, Unpaid
<1>4. TypeOK /\ Overdue(o) /\ [Next]_vars /\ Unpaid(o)' => Overdue(o)'
  BY DeadlineStep DEF Deadline, Overdue, Unpaid
<1> QED BY TypeInvariant, <1>1, <1>2, <1>3, <1>4, PTL
        DEF Spec, TimePasses, WorkerTurns

\* An unpaid reservation does not last for ever, whatever clients do: it is paid,
\* cancelled, deleted or expired by the worker (create_payment, expire_locked).
THEOREM ReservationsEnd ==
    Spec /\ (\A o \in Orders : TimePasses(o) /\ WorkerTurns(o)) => ReservationEnds
<1>1. ASSUME NEW o \in Orders
      PROVE  Spec /\ TimePasses(o) /\ WorkerTurns(o) => (Unpaid(o) ~> ~Unpaid(o))
  BY OneReservationEnds
<1> QED BY <1>1 DEF ReservationEnds

-----------------------------------------------------------------------------
(* Refunds *)

\* What RefundIsCancellation allows a step to do to one payment.
MoneyStays(k) ==
    LET o == payment[k].order IN
    payment[k].status \in {"SUCCEEDED", "REFUNDED"} =>
       \/ payment'[k] = payment[k]
       \/ /\ payment'[k] = [order |-> o, status |-> "REFUNDED"]
          /\ storeOrder[o].status \in {"placed", "approved"}
          /\ storeOrder'[o].status = "cancelled"
       \/ storeOrder'[o].status = "absent"

LEMMA RefundMoves ==
  ASSUME TypeOK, NEW o \in Orders, Refunded(o),
         storeOrder[o].status \in {"placed", "approved"},
         storeOrder'[o].status = "cancelled", NEW k \in PaymentKeys
  PROVE  MoneyStays(k)
<1>1. payment[k] \in PaymentRow
  BY DEF TypeOK
<1>2. CASE storeOrder[o].paymentStatus = "PAID" /\ k \in SucceededPayments(o)
  <2>1. payment[k] = [order |-> o, status |-> "SUCCEEDED"]
    BY <1>2 DEF SucceededPayments
  <2>2. payment'[k] = [payment[k] EXCEPT !.status = "REFUNDED"]
    BY <1>2 DEF Refunded
  <2>3. payment'[k] = [order |-> o, status |-> "REFUNDED"]
    BY <2>1, <2>2
  <2> QED BY <2>1, <2>3 DEF MoneyStays
<1>3. CASE ~(storeOrder[o].paymentStatus = "PAID" /\ k \in SucceededPayments(o))
  BY <1>3 DEF Refunded, MoneyStays
<1> QED BY <1>2, <1>3

LEMMA DeletionMoves ==
  ASSUME TypeOK, NEW o \in Orders, RowsDeleted(o), NEW k \in PaymentKeys PROVE MoneyStays(k)
<1>1. storeOrder'[o].status = "absent"
  BY DEF RowsDeleted, TypeOK, NoOrderRow
<1> QED BY <1>1 DEF RowsDeleted, MoneyStays

LEMMA MoneyStep ==
  ASSUME TypeOK, [Next]_vars, NEW k \in PaymentKeys PROVE MoneyStays(k)
<1> USE DEF OrderStatus
<1>1. CASE UNCHANGED payment
  BY <1>1 DEF MoneyStays
<1>2. ASSUME NEW actor \in Users, NEW o \in Orders, Cancel(actor, o) PROVE MoneyStays(k)
  <2>1. storeOrder'[o].status = "cancelled"
    BY <1>2, TransitionedRow, PaymentStatusType DEF Cancel
  <2> QED BY <1>2, <2>1, RefundMoves DEF Cancel, MayTransition, CanTransition
<1>3. ASSUME NEW actor \in Users, NEW o \in Orders, LegacyCancel(actor, o)
      PROVE  MoneyStays(k)
  <2>1. storeOrder'[o].status = "cancelled"
    BY <1>3, TransitionedRow, PaymentStatusType DEF LegacyCancel
  <2> QED BY <1>3, <2>1, RefundMoves DEF LegacyCancel, LegacyMayMove, CanTransition
<1>4. ASSUME NEW j \in PaymentKeys, NEW o \in Orders, NEW status, Attempted(j, o, status)
      PROVE  MoneyStays(k)
  BY <1>4 DEF Attempted, NoPayment, MoneyStays, TypeOK
<1>5. ASSUME NEW j \in PaymentKeys, DeleteDeclined(j) PROVE MoneyStays(k)
  BY <1>5 DEF DeleteDeclined, MoneyStays, TypeOK
<1>6. CASE CommerceNext
  BY <1>1, <1>2, <1>6, DeletionMoves
     DEF CommerceNext, CreateOrder, Place, Approve, Ship, Deliver, Delete, ExpireMixed
<1>7. CASE PaymentNext
  BY <1>1, <1>4, <1>5, <1>7 DEF PaymentNext, PaySucceeded, PayDeclined, PayTooLate
<1>8. CASE LegacyNext
  BY <1>1, <1>3, <1>8, DeletionMoves
     DEF LegacyNext, LegacyCreate, LegacyUpdate, LegacyPlace, LegacyApprove, LegacyShip,
         LegacyDeliver, LegacyDelete, ExpireLegacy
<1> QED BY <1>1, <1>6, <1>7, <1>8
        DEF Next, vars, CartNext, ReplaceCart, CatalogNext, AdjustStock, SavePrice,
            Publish, UpdatePet, DeadlinePasses

\* Money goes back only in the step that cancels its order, and a success leaves the
\* history only with its order.
THEOREM RefundProperty == Spec => RefundIsCancellation
<1>1. TypeOK /\ [Next]_vars =>
        [\A k \in PaymentKeys :
          LET o == payment[k].order IN
          payment[k].status \in {"SUCCEEDED", "REFUNDED"} =>
             \/ payment'[k] = payment[k]
             \/ /\ payment'[k] = [order |-> o, status |-> "REFUNDED"]
                /\ storeOrder[o].status \in {"placed", "approved"}
                /\ storeOrder'[o].status = "cancelled"
             \/ storeOrder'[o].status = "absent"]_vars
  BY MoneyStep DEF MoneyStays
<1> QED BY TypeInvariant, <1>1, PTL DEF Spec, RefundIsCancellation

-----------------------------------------------------------------------------
(* Drafts and carts *)

\* A draft was written at a version its cart had: as long as the version is the same,
\* so are the lines, and a later version cannot be met again.
DraftOK(row, lines) ==
    LET u == row.owner IN
    row.kind = "MIXED" /\ row.status = "draft" =>
        /\ u \in Users
        /\ row.cartVersion <= cart[u]
        /\ row.cartVersion = cart[u] =>
               \A i \in Items : lines[i].quantity = cartLine[u][i].quantity

DraftsInv == \A o \in Orders : DraftOK(storeOrder[o], orderLine[o])

\* What any action but CreateOrder does to drafts and carts: it makes no draft, and a
\* cart that it writes gets a new version.
DraftsKeep ==
    /\ \A o \in Orders : \/ storeOrder'[o] = storeOrder[o] /\ orderLine'[o] = orderLine[o]
                         \/ storeOrder'[o].status # "draft"
                         \/ storeOrder'[o].kind = "LEGACY"
    /\ \A u \in Users : \/ cart'[u] = cart[u] /\ cartLine'[u] = cartLine[u]
                        \/ cart'[u] = cart[u] + 1

LEMMA DraftsKept ==
  ASSUME TypeOK, DraftsInv, DraftsKeep PROVE DraftsInv'
<1> SUFFICES ASSUME NEW o \in Orders, storeOrder'[o].kind = "MIXED",
                    storeOrder'[o].status = "draft"
             PROVE  DraftOK(storeOrder[o], orderLine[o])'
  BY DEF DraftsInv, DraftOK
<1>1. storeOrder'[o] = storeOrder[o] /\ orderLine'[o] = orderLine[o]
  BY DEF DraftsKeep
<1>2. DraftOK(storeOrder[o], orderLine[o]) /\ storeOrder[o] \in OrderRow
  BY DEF DraftsInv, TypeOK
<1> DEFINE u == storeOrder[o].owner
<1>3. u \in Users /\ cart[u] \in Nat /\ storeOrder[o].cartVersion \in Nat
  BY <1>1, <1>2 DEF DraftOK, TypeOK, OrderRow
<1>4. CASE cart'[u] = cart[u] /\ cartLine'[u] = cartLine[u]
  BY <1>1, <1>2, <1>4 DEF DraftOK
<1>5. CASE cart'[u] = cart[u] + 1
  BY <1>1, <1>2, <1>3, <1>5 DEF DraftOK
<1> QED BY <1>3, <1>4, <1>5 DEF DraftsKeep

\* A transition never leads to a draft.
LEMMA TransitionKeeps ==
  ASSUME TypeOK, NEW o \in Orders, NEW status \in OrderStatus \ {"draft"},
         NEW paymentStatus \in PaymentStatus,
         \/ Transitioned(o, status, paymentStatus)
         \/ LegacyTransitioned(o, status, paymentStatus),
         \A x \in Orders \ {o} : orderLine'[x] = orderLine[x],
         UNCHANGED cartVars
  PROVE  DraftsKeep
<1>1. /\ storeOrder'[o].status = status
      /\ \A x \in Orders \ {o} : storeOrder'[x] = storeOrder[x]
  BY TransitionedRow
<1> QED BY <1>1 DEF DraftsKeep

LEMMA PlaceKeeps ==
  ASSUME TypeOK, NEW actor \in Users, NEW o \in Orders, Place(actor, o) PROVE DraftsKeep
<1>1. /\ storeOrder'[o].status = "placed"
      /\ \A x \in Orders \ {o} : storeOrder'[x] = storeOrder[x]
  BY TransitionedRow DEF Place, OrderStatus, PaymentStatus
<1>2. \A x \in Orders \ {o} : orderLine'[x] = orderLine[x]
  BY ReallocatedLines DEF Place, Allocation
<1>3. \A u \in Users : \/ cart'[u] = cart[u] /\ cartLine'[u] = cartLine[u]
                       \/ cart'[u] = cart[u] + 1
  BY DEF Place, TypeOK
<1> QED BY <1>1, <1>2, <1>3 DEF DraftsKeep

LEMMA ReleaseLines ==
  ASSUME TypeOK, NEW o \in Orders, Release(o) \/ Consume(o)
  PROVE  \A x \in Orders \ {o} : orderLine'[x] = orderLine[x]
  BY ReallocatedLines DEF Release, Consume, Allocation

LEMMA DeletionKeeps ==
  ASSUME TypeOK, NEW o \in Orders, RowsDeleted(o), UNCHANGED cartVars PROVE DraftsKeep
  BY DEF RowsDeleted, TypeOK, NoOrderRow, DraftsKeep

LEMMA ExpiredKeeps ==
  ASSUME TypeOK, NEW o \in Orders, Expired(o) \/ LegacyExpired(o), UNCHANGED cartVars
  PROVE  DraftsKeep
  BY TransitionKeeps, ReleaseLines
     DEF Expired, LegacyExpired, OrderStatus, PaymentStatus

LEMMA CreateMirrors ==
  ASSUME TypeOK, DraftsInv, NEW o \in Orders, NEW u \in Users, CreateOrder(o, u)
  PROVE  DraftsInv'
<1>1. storeOrder'[o] = [NoOrderRow EXCEPT !.owner = u, !.status = "draft",
                                          !.cartVersion = cart[u]]
  BY DEF CreateOrder, TypeOK
<1>2. \A i \in Items : orderLine'[o][i].quantity = cartLine[u][i].quantity
  BY DEF CreateOrder, TypeOK
<1>3. cart[u] \in Nat /\ UNCHANGED cartVars
  BY DEF CreateOrder, TypeOK
<1>4. storeOrder'[o].owner = u /\ storeOrder'[o].cartVersion = cart[u]
  BY <1>1 DEF NoOrderRow
<1>5. DraftOK(storeOrder[o], orderLine[o])'
  BY <1>2, <1>3, <1>4 DEF DraftOK
<1>6. ASSUME NEW x \in Orders \ {o} PROVE DraftOK(storeOrder[x], orderLine[x])'
  <2>1. storeOrder'[x] = storeOrder[x] /\ orderLine'[x] = orderLine[x]
    BY DEF CreateOrder, TypeOK
  <2> QED BY <1>3, <2>1 DEF DraftsInv, DraftOK
<1> QED BY <1>5, <1>6 DEF DraftsInv

LEMMA CommerceDrafts ==
  ASSUME TypeOK, DraftsInv, CommerceNext PROVE DraftsInv'
<1> USE DEF OrderStatus, PaymentStatus
<1>1. ASSUME NEW actor \in Users, NEW o \in Orders, Approve(actor, o) PROVE DraftsKeep
  BY <1>1, TransitionKeeps DEF Approve
<1>2. ASSUME NEW actor \in Users, NEW o \in Orders, Ship(actor, o) PROVE DraftsKeep
  BY <1>2, TransitionKeeps, PaymentStatusType DEF Ship
<1>3. ASSUME NEW actor \in Users, NEW o \in Orders, Deliver(actor, o) PROVE DraftsKeep
  BY <1>3, TransitionKeeps, ReleaseLines, PaymentStatusType DEF Deliver
<1>4. ASSUME NEW actor \in Users, NEW o \in Orders, Cancel(actor, o) PROVE DraftsKeep
  BY <1>4, TransitionKeeps, ReleaseLines, PaymentStatusType DEF Cancel
<1>5. ASSUME NEW actor \in Users, NEW o \in Orders, Delete(actor, o) PROVE DraftsKeep
  BY <1>5, DeletionKeeps DEF Delete
<1>6. ASSUME NEW o \in Orders, ExpireMixed(o) PROVE DraftsKeep
  BY <1>6, ExpiredKeeps DEF ExpireMixed
<1> QED BY <1>1, <1>2, <1>3, <1>4, <1>5, <1>6, CreateMirrors, PlaceKeeps, DraftsKept
        DEF CommerceNext

LEMMA PaymentDrafts ==
  ASSUME TypeOK, DraftsInv, PaymentNext PROVE DraftsInv'
<1>1. ASSUME NEW k \in PaymentKeys, NEW actor \in Users, NEW o \in Orders,
             PaySucceeded(k, actor, o)
      PROVE  DraftsKeep
  BY <1>1, TransitionKeeps, ReallocatedLines
     DEF PaySucceeded, OrderStatus, PaymentStatus, Allocation
<1>2. ASSUME NEW k \in PaymentKeys, NEW actor \in Users, NEW o \in Orders,
             PayTooLate(k, actor, o)
      PROVE  DraftsKeep
  BY <1>2, ExpiredKeeps DEF PayTooLate
<1>3. CASE UNCHANGED <<orderVars, cartVars>>
  BY <1>3, DraftsKept DEF DraftsKeep
<1> QED BY <1>1, <1>2, <1>3, DraftsKept DEF PaymentNext, PayDeclined, DeleteDeclined

LEMMA LegacyDrafts ==
  ASSUME TypeOK, OrdersAgree, DraftsInv, LegacyNext PROVE DraftsInv'
<1> USE DEF OrderStatus, PaymentStatus
<1>1. ASSUME NEW o \in Orders, NEW u \in Users, NEW q \in Pets,
             LegacyCreate(o, u, q) \/ LegacyUpdate(u, o, q)
      PROVE  DraftsKeep
  <2>1. storeOrder'[o].kind = "LEGACY"
    <3>1. CASE LegacyCreate(o, u, q)
      <4>1. storeOrder'[o] = [NoOrderRow EXCEPT !.kind = "LEGACY", !.owner = u,
                                                !.status = "draft", !.pet = q]
        BY <3>1 DEF LegacyCreate, TypeOK
      <4> QED BY <4>1 DEF NoOrderRow
    <3>2. CASE LegacyUpdate(u, o, q)
      <4>1. storeOrder[o] \in OrderRow /\ storeOrder'[o] = [storeOrder[o] EXCEPT !.pet = q]
        BY <3>2 DEF LegacyUpdate, TypeOK
      <4> QED BY <3>2, <4>1 DEF LegacyUpdate, IsLegacy, OrderRow
    <3> QED BY <1>1, <3>1, <3>2
  <2>2. \A x \in Orders \ {o} : storeOrder'[x] = storeOrder[x] /\ orderLine'[x] = orderLine[x]
    BY <1>1 DEF LegacyCreate, LegacyUpdate, TypeOK
  <2> QED BY <1>1, <2>1, <2>2 DEF DraftsKeep, LegacyCreate, LegacyUpdate
<1>2. ASSUME NEW actor \in Users, NEW o \in Orders, LegacyPlace(actor, o) PROVE DraftsKeep
  <2>1. ASSUME NEW x \in Orders
        PROVE  \/ storeOrder'[x] = storeOrder[x]
               \/ storeOrder'[x].status # "draft"
    <3>1. \/ storeOrder'[x] = storeOrder[x]
          \/ storeOrder'[x] = LegacyMoved(storeOrder[x], "placed", "UNPAID")
          \/ storeOrder'[x] = LegacyMoved(storeOrder[x], "expired", "EXPIRED")
      BY <1>2 DEF LegacyPlace
    <3>2. storeOrder[x] \in OrderRow
      BY DEF TypeOK
    <3> QED BY <3>1, <3>2, MovedRow
  <2> QED BY <1>2, <2>1 DEF DraftsKeep, LegacyPlace
<1>3. ASSUME NEW actor \in Users, NEW o \in Orders, LegacyApprove(actor, o) PROVE DraftsKeep
  BY <1>3, TransitionKeeps, PaymentStatusType DEF LegacyApprove
<1>4. ASSUME NEW actor \in Users, NEW o \in Orders, LegacyShip(actor, o) PROVE DraftsKeep
  BY <1>4, TransitionKeeps, PaymentStatusType DEF LegacyShip
<1>5. ASSUME NEW actor \in Users, NEW o \in Orders, LegacyDeliver(actor, o) PROVE DraftsKeep
  BY <1>5, TransitionKeeps, PaymentStatusType DEF LegacyDeliver
<1>6. ASSUME NEW actor \in Users, NEW o \in Orders, LegacyCancel(actor, o) PROVE DraftsKeep
  BY <1>6, TransitionKeeps, PaymentStatusType DEF LegacyCancel
<1>7. ASSUME NEW actor \in Users, NEW o \in Orders, LegacyDelete(actor, o) PROVE DraftsKeep
  BY <1>7, DeletionKeeps DEF LegacyDelete
<1>8. ASSUME NEW o \in Orders, ExpireLegacy(o) PROVE DraftsKeep
  BY <1>8, ExpiredKeeps DEF ExpireLegacy
<1> QED BY <1>1, <1>2, <1>3, <1>4, <1>5, <1>6, <1>7, <1>8, DraftsKept DEF LegacyNext

LEMMA DraftsStep ==
  ASSUME TypeOK, OrdersAgree, DraftsInv, [Next]_vars PROVE DraftsInv'
<1>1. ASSUME NEW o \in Orders, DeadlinePasses(o) PROVE DraftsKeep
  <2>1. storeOrder[o] \in OrderRow /\ storeOrder'[o] = [storeOrder[o] EXCEPT !.late = TRUE]
    BY <1>1 DEF DeadlinePasses, TypeOK
  <2>2. storeOrder'[o].status # "draft"
    BY <1>1, <2>1 DEF DeadlinePasses, OrderRow
  <2> QED BY <1>1, <2>2 DEF DeadlinePasses, DraftsKeep, TypeOK
<1>2. ASSUME NEW u \in Users, NEW basket \in Baskets, ReplaceCart(u, basket) PROVE DraftsKeep
  BY <1>2 DEF ReplaceCart, DraftsKeep, TypeOK
<1>3. CASE UNCHANGED <<orderVars, cartVars>>
  BY <1>3, DraftsKept DEF DraftsKeep
<1> QED BY <1>1, <1>2, <1>3, DraftsKept, CommerceDrafts, PaymentDrafts, LegacyDrafts
        DEF Next, vars, CartNext, CatalogNext, AdjustStock, SavePrice, Publish, UpdatePet

LEMMA InitDrafts == Init => DraftsInv
<1> SUFFICES ASSUME Init, NEW o \in Orders PROVE storeOrder[o].status # "draft"
  BY DEF DraftsInv, DraftOK
<1> PICK owner \in [Migrated -> Users], held \in Injection(Migrated, Pets) :
      storeOrder = [x \in Orders |->
         IF x \in Migrated THEN MigratedRow(owner[x], held[x]) ELSE NoOrderRow]
  BY DEF Init
<1> QED BY DEF MigratedRow, NoOrderRow

\* In every reachable state a draft whose cart version is current describes the cart.
THEOREM DraftInvariant == Spec => []DraftMirrorsCart
<1>1. TypeOK /\ OrdersAgree /\ DraftsInv /\ [Next]_vars => DraftsInv'
  BY DraftsStep
<1>2. TypeOK /\ DraftsInv => DraftMirrorsCart
  BY DEF TypeOK, OrderRow, DraftsInv, DraftOK, DraftMirrorsCart, IsLegacy
<1> QED BY InitDrafts, TypeInvariant, OrdersAlwaysAgree, <1>1, <1>2, PTL DEF Spec

-----------------------------------------------------------------------------
(* Placing *)

\* What PlacedIsCart says of one order.
BoughtCart(o) ==
    LET u == storeOrder[o].owner IN
    /\ storeOrder[o].kind = "MIXED"
    /\ storeOrder[o].status = "draft"
    /\ storeOrder'[o].status = "placed"
    => \A i \in Items :
          /\ orderLine[o][i].quantity = cartLine[u][i].quantity
          /\ InBasket(orderLine[o], i) => orderLine[o][i].price = card[i].price
          /\ cartLine'[u][i].quantity = 0

\* Only place and place_draft make a draft placed.
LEMMA PlacedByPlace ==
  ASSUME TypeOK, OrdersAgree, [Next]_vars, NEW o \in Orders, storeOrder[o].kind = "MIXED",
         storeOrder[o].status = "draft", storeOrder'[o].status = "placed"
  PROVE  \E actor \in Users : Place(actor, o)
<1> USE DEF OrderStatus, PaymentStatus
<1>1. storeOrder'[o] # storeOrder[o] /\ storeOrder[o] \in OrderRow
  BY DEF TypeOK
<1>2. ASSUME NEW x \in Orders, NEW status \in OrderStatus \ {"placed"},
             NEW paymentStatus \in PaymentStatus,
             \/ Transitioned(x, status, paymentStatus)
             \/ LegacyTransitioned(x, status, paymentStatus)
      PROVE  FALSE
  BY <1>1, <1>2, TransitionedRow
<1>3. ASSUME NEW x \in Orders, RowsDeleted(x) PROVE FALSE
  BY <1>1, <1>3 DEF RowsDeleted, TypeOK, NoOrderRow
<1>4. ASSUME NEW x \in Orders, Expired(x) \/ LegacyExpired(x) PROVE FALSE
  BY <1>2, <1>4 DEF Expired, LegacyExpired
<1>5. CASE CommerceNext
  <2>1. ASSUME NEW x \in Orders, NEW u \in Users, CreateOrder(x, u) PROVE FALSE
    <3>1. storeOrder'[o] = storeOrder[o]
      BY <2>1 DEF CreateOrder, TypeOK
    <3> QED BY <1>1, <3>1
  <2>2. ASSUME NEW actor \in Users, NEW x \in Orders, Place(actor, x) PROVE x = o
    BY <1>1, <2>2, TransitionedRow DEF Place
  <2>3. ASSUME NEW actor \in Users, NEW x \in Orders,
               \/ Approve(actor, x) \/ Ship(actor, x) \/ Deliver(actor, x)
               \/ Cancel(actor, x) \/ Delete(actor, x)
        PROVE  FALSE
    BY <1>2, <1>3, <2>3, PaymentStatusType DEF Approve, Ship, Deliver, Cancel, Delete
  <2> QED BY <1>4, <1>5, <2>1, <2>2, <2>3 DEF CommerceNext, ExpireMixed
<1>6. CASE PaymentNext
  <2>1. ASSUME NEW k \in PaymentKeys, NEW actor \in Users, NEW x \in Orders,
               PaySucceeded(k, actor, x)
        PROVE  FALSE
    <3>1. storeOrder'[o] = storeOrder[o]
      BY <2>1, TransitionedRow DEF PaySucceeded, Payable
    <3> QED BY <1>1, <3>1
  <2> QED BY <1>1, <1>4, <1>6, <2>1 DEF PaymentNext, PayDeclined, PayTooLate, DeleteDeclined
<1>7. CASE LegacyNext
  <2>1. ASSUME NEW x \in Orders, NEW u \in Users, NEW q \in Pets,
               LegacyCreate(x, u, q) \/ LegacyUpdate(u, x, q)
        PROVE  FALSE
    <3>1. x # o
      BY <2>1, <1>1 DEF LegacyCreate, LegacyUpdate, IsLegacy
    <3> QED BY <1>1, <2>1, <3>1 DEF LegacyCreate, LegacyUpdate, TypeOK
  <2>2. ASSUME NEW actor \in Users, NEW x \in Orders, LegacyPlace(actor, x) PROVE FALSE
    <3>1. o # x /\ ~Overdue(o)
      BY <2>2 DEF LegacyPlace, IsLegacy, Overdue
    <3> QED BY <1>1, <2>2, <3>1 DEF LegacyPlace
  <2>3. ASSUME NEW actor \in Users, NEW x \in Orders,
               \/ LegacyApprove(actor, x) \/ LegacyShip(actor, x)
               \/ LegacyDeliver(actor, x) \/ LegacyCancel(actor, x)
               \/ LegacyDelete(actor, x)
        PROVE  FALSE
    BY <1>2, <1>3, <2>3, PaymentStatusType
       DEF LegacyApprove, LegacyShip, LegacyDeliver, LegacyCancel, LegacyDelete
  <2> QED BY <1>4, <1>7, <2>1, <2>2, <2>3 DEF LegacyNext, ExpireLegacy
<1>8. ASSUME NEW x \in Orders, DeadlinePasses(x) PROVE FALSE
  BY <1>1, <1>8 DEF DeadlinePasses, TypeOK
<1> QED BY <1>1, <1>5, <1>6, <1>7, <1>8
        DEF Next, vars, CartNext, ReplaceCart, CatalogNext, AdjustStock, SavePrice,
            Publish, UpdatePet

LEMMA BoughtStep ==
  ASSUME TypeOK, OrdersAgree, DraftsInv, [Next]_vars, NEW o \in Orders PROVE BoughtCart(o)
<1> DEFINE u == storeOrder[o].owner
<1> SUFFICES ASSUME storeOrder[o].kind = "MIXED", storeOrder[o].status = "draft",
                    storeOrder'[o].status = "placed", NEW i \in Items
             PROVE  /\ orderLine[o][i].quantity = cartLine[u][i].quantity
                    /\ InBasket(orderLine[o], i) => orderLine[o][i].price = card[i].price
                    /\ cartLine'[u][i].quantity = 0
  BY DEF BoughtCart
<1>1. PICK actor \in Users : Place(actor, o)
  BY PlacedByPlace
<1>2. DraftOK(storeOrder[o], orderLine[o])
  BY DEF DraftsInv
<1>3. u \in Users /\ orderLine[o][i].quantity = cartLine[u][i].quantity
  BY <1>1, <1>2 DEF Place, DraftOK
<1>4. InBasket(orderLine[o], i) => orderLine[o][i].price = card[i].price
  BY <1>1 DEF Place, Sellable
<1>5. cartLine'[u] = [j \in Items |-> NoCartLine]
  BY <1>1, <1>3 DEF Place, TypeOK
<1> QED BY <1>3, <1>4, <1>5 DEF NoCartLine

\* Placing buys exactly the contents of the cart it empties, at the catalogue prices
\* (checkout_amount, place).
THEOREM PlacedProperty == Spec => PlacedIsCart
<1>1. TypeOK /\ OrdersAgree /\ DraftsInv /\ [Next]_vars => DraftsInv'
  BY DraftsStep
<1>2. Spec => []DraftsInv
  BY InitDrafts, TypeInvariant, OrdersAlwaysAgree, <1>1, PTL DEF Spec
<1>3. TypeOK /\ OrdersAgree /\ DraftsInv /\ [Next]_vars =>
       [\A o \in Orders :
         LET u == storeOrder[o].owner IN
         /\ storeOrder[o].kind = "MIXED"
         /\ storeOrder[o].status = "draft"
         /\ storeOrder'[o].status = "placed"
         => \A i \in Items :
               /\ orderLine[o][i].quantity = cartLine[u][i].quantity
               /\ InBasket(orderLine[o], i) => orderLine[o][i].price = card[i].price
               /\ cartLine'[u][i].quantity = 0]_vars
  BY BoughtStep DEF BoughtCart
<1> QED BY TypeInvariant, OrdersAlwaysAgree, <1>2, <1>3, PTL DEF Spec, PlacedIsCart

-----------------------------------------------------------------------------
(* Versions *)

\* What MixedVersionGrows says of one order.
Grows(o) == Changes(o) /\ ~IsLegacy(o) => storeOrder'[o].version = storeOrder[o].version + 1

\* A step that writes one order, which it creates, removes or gives a new version, or
\* which is a LEGACY order.
LEMMA OneGrows ==
  ASSUME NEW o \in Orders, OnlyChanges(o),
         \/ storeOrder'[o].version = storeOrder[o].version + 1
         \/ storeOrder[o].status = "absent"
         \/ storeOrder'[o].status = "absent"
         \/ IsLegacy(o)
  PROVE  \A x \in Orders : Grows(x)
  BY DEF OnlyChanges, Grows, Changes

LEMMA TransitionGrows ==
  ASSUME TypeOK, NEW o \in Orders, NEW status \in OrderStatus,
         NEW paymentStatus \in PaymentStatus, Transitioned(o, status, paymentStatus),
         \A x \in Orders \ {o} : orderLine'[x] = orderLine[x]
  PROVE  \A x \in Orders : Grows(x)
<1>1. storeOrder[o] \in OrderRow
  BY DEF TypeOK
<1>2. /\ storeOrder'[o] = Moved(storeOrder[o], status, paymentStatus)
      /\ \A x \in Orders \ {o} : storeOrder'[x] = storeOrder[x]
  BY DEF Transitioned, TypeOK
<1>3. storeOrder'[o].version = storeOrder[o].version + 1
  BY <1>1, <1>2 DEF Moved, OrderRow
<1> QED BY <1>2, <1>3, OneGrows DEF OnlyChanges

\* The UPDATEs of the older service write LEGACY orders only.
LEMMA LegacyTransitionGrows ==
  ASSUME TypeOK, NEW o \in Orders, NEW status, NEW paymentStatus,
         LegacyTransitioned(o, status, paymentStatus), IsLegacy(o), UNCHANGED orderLine
  PROVE  \A x \in Orders : Grows(x)
<1>1. OnlyChanges(o)
  BY DEF LegacyTransitioned, OnlyChanges, TypeOK
<1> QED BY <1>1, OneGrows

LEMMA DeletionGrows ==
  ASSUME TypeOK, NEW o \in Orders, RowsDeleted(o) PROVE \A x \in Orders : Grows(x)
<1>1. storeOrder'[o].status = "absent" /\ OnlyChanges(o)
  BY DEF RowsDeleted, TypeOK, NoOrderRow, OnlyChanges
<1> QED BY <1>1, OneGrows

LEMMA ExpiredGrows ==
  ASSUME TypeOK, NEW o \in Orders, Expired(o) \/ LegacyExpired(o)
  PROVE  \A x \in Orders : Grows(x)
  BY TransitionGrows, LegacyTransitionGrows, ReleaseLines
     DEF Expired, LegacyExpired, OrderStatus, PaymentStatus

LEMMA CommerceGrows ==
  ASSUME TypeOK, CommerceNext PROVE \A x \in Orders : Grows(x)
<1> USE DEF OrderStatus, PaymentStatus
<1>1. ASSUME NEW o \in Orders, NEW u \in Users, CreateOrder(o, u)
      PROVE  \A x \in Orders : Grows(x)
  <2>1. OnlyChanges(o)
    BY <1>1 DEF CreateOrder, OnlyChanges, TypeOK
  <2> QED BY <1>1, <2>1, OneGrows DEF CreateOrder
<1>2. ASSUME NEW actor \in Users, NEW o \in Orders, Place(actor, o)
      PROVE  \A x \in Orders : Grows(x)
  BY <1>2, TransitionGrows, ReallocatedLines DEF Place, Allocation
<1>3. ASSUME NEW actor \in Users, NEW o \in Orders, Approve(actor, o) \/ Ship(actor, o)
      PROVE  \A x \in Orders : Grows(x)
  BY <1>3, TransitionGrows, PaymentStatusType DEF Approve, Ship
<1>4. ASSUME NEW actor \in Users, NEW o \in Orders, Deliver(actor, o) \/ Cancel(actor, o)
      PROVE  \A x \in Orders : Grows(x)
  BY <1>4, TransitionGrows, ReleaseLines, PaymentStatusType DEF Deliver, Cancel
<1> QED BY <1>1, <1>2, <1>3, <1>4, DeletionGrows, ExpiredGrows
        DEF CommerceNext, Delete, ExpireMixed

LEMMA PaymentGrows ==
  ASSUME TypeOK, PaymentNext PROVE \A x \in Orders : Grows(x)
<1>1. ASSUME NEW k \in PaymentKeys, NEW actor \in Users, NEW o \in Orders,
             PaySucceeded(k, actor, o)
      PROVE  \A x \in Orders : Grows(x)
  BY <1>1, TransitionGrows, ReallocatedLines
     DEF PaySucceeded, OrderStatus, PaymentStatus, Allocation
<1>2. CASE UNCHANGED orderVars
  BY <1>2 DEF Grows, Changes
<1> QED BY <1>1, <1>2, ExpiredGrows DEF PaymentNext, PayDeclined, PayTooLate, DeleteDeclined

LEMMA LegacyGrows ==
  ASSUME TypeOK, OrdersAgree, LegacyNext PROVE \A x \in Orders : Grows(x)
<1>1. ASSUME NEW o \in Orders, NEW u \in Users, NEW q \in Pets,
             LegacyCreate(o, u, q) \/ LegacyUpdate(u, o, q)
      PROVE  \A x \in Orders : Grows(x)
  <2>1. OnlyChanges(o)
    BY <1>1 DEF LegacyCreate, LegacyUpdate, OnlyChanges, TypeOK
  <2> QED BY <1>1, <2>1, OneGrows DEF LegacyCreate, LegacyUpdate
<1>2. ASSUME NEW actor \in Users, NEW o \in Orders, LegacyPlace(actor, o),
             NEW x \in Orders, Changes(x)
      PROVE  IsLegacy(x)
  <2>1. storeOrder[x] \in OrderRow /\ RowOK(storeOrder[x], orderLine[x])
    BY RowFacts
  <2>2. storeOrder[o].pet \in Pets
    BY <1>2, RowFacts DEF LegacyPlace, IsLegacy, RowOK
  <2>3. x = o \/ storeOrder[x].pet = storeOrder[o].pet
    BY <1>2 DEF LegacyPlace, Changes
  <2> QED BY <1>2, <2>1, <2>2, <2>3 DEF RowOK, IsLegacy, LegacyPlace
<1>3. ASSUME NEW actor \in Users, NEW o \in Orders,
             \/ LegacyApprove(actor, o) \/ LegacyShip(actor, o)
             \/ LegacyDeliver(actor, o) \/ LegacyCancel(actor, o)
      PROVE  \A x \in Orders : Grows(x)
  BY <1>3, LegacyTransitionGrows
     DEF LegacyApprove, LegacyShip, LegacyDeliver, LegacyCancel, LegacyMayMove
<1> QED BY <1>1, <1>2, <1>3, DeletionGrows, ExpiredGrows
        DEF LegacyNext, LegacyDelete, ExpireLegacy, Grows

LEMMA GrowsStep ==
  ASSUME TypeOK, OrdersAgree, [Next]_vars PROVE \A x \in Orders : Grows(x)
<1>1. ASSUME NEW o \in Orders, DeadlinePasses(o), NEW x \in Orders PROVE ~Changes(x)
  <2>1. storeOrder[x] \in OrderRow
    BY DEF TypeOK
  <2>2. storeOrder'[x] \in {storeOrder[x], [storeOrder[x] EXCEPT !.late = TRUE]}
    BY <1>1 DEF DeadlinePasses, TypeOK
  <2> QED BY <1>1, <2>1, <2>2 DEF DeadlinePasses, Changes, OrderRow
<1>2. CASE UNCHANGED orderVars
  BY <1>2 DEF Grows, Changes
<1> QED BY <1>1, <1>2, CommerceGrows, PaymentGrows, LegacyGrows
        DEF Next, vars, CartNext, ReplaceCart, CatalogNext, AdjustStock, SavePrice,
            Publish, UpdatePet, Grows

\* Every change of a MIXED order, by either service, makes the versions that clients
\* hold stale.
THEOREM MixedVersionProperty == Spec => MixedVersionGrows
<1>1. TypeOK /\ OrdersAgree /\ [Next]_vars =>
        [\A o \in Orders : Changes(o) /\ ~IsLegacy(o)
           => storeOrder'[o].version = storeOrder[o].version + 1]_vars
  BY GrowsStep DEF Grows
<1> QED BY TypeInvariant, OrdersAlwaysAgree, <1>1, PTL DEF Spec, MixedVersionGrows

-----------------------------------------------------------------------------
(* The warehouse: the mapping *)

\* The invariants the mapping needs, in a state and in the next.
StateOK == TypeOK /\ OrdersAgree /\ PetsInv

\* What is free of a product and of a pet.
LEMMA FreeMeans ==
  ASSUME TypeOK
  PROVE  /\ free \in [Items -> Nat]
         /\ \A p \in Products : free[p] = product[p].stock - product[p].reserved
         /\ \A q \in Pets : free[q] = IF pet[q] = "available" THEN 1 ELSE 0
<1>1. \A p \in Products : p \in Items
  BY DEF Items
<1>2. \A q \in Pets : q \in Items /\ q \notin Products
  BY ConstantsAssumption DEF Items
<1>3. \A p \in Products : product[p].stock - product[p].reserved \in Nat
  BY DEF TypeOK, ProductRow
<1> QED BY <1>1, <1>2, <1>3 DEF free, Items

LEMMA FreeMeansAfter ==
  ASSUME TypeOK'
  PROVE  /\ free' \in [Items -> Nat]
         /\ \A p \in Products : free'[p] = product'[p].stock - product'[p].reserved
         /\ \A q \in Pets : free'[q] = IF pet'[q] = "available" THEN 1 ELSE 0
<1>1. \A p \in Products : p \in Items
  BY DEF Items
<1>2. \A q \in Pets : q \in Items /\ q \notin Products
  BY ConstantsAssumption DEF Items
<1>3. \A p \in Products : product'[p].stock - product'[p].reserved \in Nat
  BY DEF TypeOK, ProductRow
<1> QED BY <1>1, <1>2, <1>3 DEF free, Items

\* An active order claims the products of its lines, and one of each pet it holds.
LEMMA ClaimMeans ==
  ASSUME TypeOK, OrdersAgree
  PROVE  /\ claim \in [Orders -> [Items -> Nat]]
         /\ \A o \in Orders : \A p \in Products :
               claim[o][p] = IF storeOrder[o].status \in ActiveStatus
                             THEN orderLine[o][p].quantity ELSE 0
         /\ \A o \in Orders : \A q \in Pets : claim[o][q] = IF q \in Held(o) THEN 1 ELSE 0
<1>1. \A o \in Orders : /\ RowOK(storeOrder[o], orderLine[o])
                        /\ \A i \in Items : orderLine[o][i] \in LineRow
  BY RowFacts
<1>2. claim \in [Orders -> [Items -> Nat]]
  BY <1>1 DEF claim, LineRow
<1>3. ASSUME NEW o \in Orders, NEW p \in Products
      PROVE  claim[o][p] = IF storeOrder[o].status \in ActiveStatus
                           THEN orderLine[o][p].quantity ELSE 0
  <2>1. p \in Items /\ p \notin Pets
    BY ConstantsAssumption DEF Items
  <2>2. IsLegacy(o) => storeOrder[o].pet # p /\ orderLine[o][p].quantity = 0
    BY <1>1, <2>1 DEF RowOK, IsLegacy
  <2> QED BY <2>1, <2>2 DEF claim
<1>4. ASSUME NEW o \in Orders, NEW q \in Pets
      PROVE  claim[o][q] = IF q \in Held(o) THEN 1 ELSE 0
  <2>1. q \in Items /\ orderLine[o][q].quantity \in {0, 1}
    BY <1>1 DEF Items, RowOK, LineRow
  <2> QED BY <2>1 DEF claim, Held, OrderPets, InBasket, IsLegacy
<1> QED BY <1>2, <1>3, <1>4

LEMMA ClaimMeansAfter ==
  ASSUME TypeOK', OrdersAgree'
  PROVE  /\ claim' \in [Orders -> [Items -> Nat]]
         /\ \A o \in Orders : \A p \in Products :
               claim'[o][p] = IF storeOrder'[o].status \in ActiveStatus
                              THEN orderLine'[o][p].quantity ELSE 0
         /\ \A o \in Orders : \A q \in Pets : claim'[o][q] = IF q \in Held(o)' THEN 1 ELSE 0
<1>1. \A o \in Orders : /\ RowOK(storeOrder'[o], orderLine'[o])
                        /\ \A i \in Items : orderLine'[o][i] \in LineRow
  BY DEF TypeOK, OrdersAgree
<1>2. claim' \in [Orders -> [Items -> Nat]]
  BY <1>1 DEF claim, LineRow
<1>3. ASSUME NEW o \in Orders, NEW p \in Products
      PROVE  claim'[o][p] = IF storeOrder'[o].status \in ActiveStatus
                            THEN orderLine'[o][p].quantity ELSE 0
  <2>1. p \in Items /\ p \notin Pets
    BY ConstantsAssumption DEF Items
  <2>2. IsLegacy(o)' => storeOrder'[o].pet # p /\ orderLine'[o][p].quantity = 0
    BY <1>1, <2>1 DEF RowOK, IsLegacy
  <2> QED BY <2>1, <2>2 DEF claim
<1>4. ASSUME NEW o \in Orders, NEW q \in Pets
      PROVE  claim'[o][q] = IF q \in Held(o)' THEN 1 ELSE 0
  <2>1. q \in Items /\ orderLine'[o][q].quantity \in {0, 1}
    BY <1>1 DEF Items, RowOK, LineRow
  <2> QED BY <2>1 DEF claim, Held, OrderPets, InBasket, IsLegacy
<1> QED BY <1>2, <1>3, <1>4

\* What an order claims depends on its own row and lines only.
LEMMA ClaimLocal ==
  ASSUME NEW o \in Orders, storeOrder'[o] = storeOrder[o], orderLine'[o] = orderLine[o]
  PROVE  claim'[o] = claim[o] /\ (o \in sold' <=> o \in sold)
  BY DEF claim, sold, IsLegacy

-----------------------------------------------------------------------------
(* The warehouse: the kinds of steps *)

OthersClaim(o) == \A x \in Orders \ {o} : claim'[x] = claim[x] /\ (x \in sold' <=> x \in sold)

LEMMA OthersClaimSame ==
  ASSUME NEW o \in Orders, OnlyChanges(o) PROVE OthersClaim(o)
  BY ClaimLocal DEF OnlyChanges, OthersClaim

LEMMA SoldMeans ==
  /\ sold \subseteq Orders /\ \A o \in Orders : o \in sold <=> storeOrder[o].status = "delivered"
  /\ sold' \subseteq Orders /\ \A o \in Orders : o \in sold' <=> storeOrder'[o].status = "delivered"
  BY DEF sold

\* Nothing changes that the warehouse sees.
Stutter == UNCHANGED <<free, claim, sold>>

LEMMA StutterStep ==
  ASSUME StateOK, StateOK', \A i \in Items : free'[i] = free[i],
         \A o \in Orders : claim'[o] = claim[o] /\ (o \in sold' <=> o \in sold)
  PROVE  Stutter
<1>1. free' = free
  BY FreeMeans, FreeMeansAfter DEF StateOK
<1>2. claim' = claim
  BY ClaimMeans, ClaimMeansAfter DEF StateOK
<1>3. sold' = sold
  BY SoldMeans
<1> QED BY <1>1, <1>2, <1>3 DEF Stutter

\* An order that is idle before and after: its row may change as it likes.
LEMMA IdleStep ==
  ASSUME StateOK, StateOK', NEW o \in Orders, OnlyChanges(o),
         storeOrder[o].status \in {"absent", "draft"} \cup {"cancelled", "expired"},
         storeOrder'[o].status \in {"absent", "draft"}, UNCHANGED stockVars
  PROVE  Stutter
<1>1. /\ \A i \in Items : claim[o][i] = 0 /\ claim'[o][i] = 0
      /\ o \notin sold /\ o \notin sold'
  BY SoldMeans DEF claim, ActiveStatus
<1>2. claim'[o] = claim[o]
  BY <1>1, ClaimMeans, ClaimMeansAfter DEF StateOK
<1>3. \A i \in Items : free'[i] = free[i]
  BY DEF free
<1> QED BY <1>1, <1>2, <1>3, OthersClaimSame, StutterStep DEF OthersClaim

\* An order gives back what it claims.
LEMMA GiveBackStep ==
  ASSUME StateOK, StateOK', NEW o \in Orders, OnlyChanges(o),
         storeOrder[o].status \in ActiveStatus,
         storeOrder'[o].status \in {"cancelled", "expired", "absent"},
         PetsBecome(Held(o), "available"),
         \A p \in Products : free'[p] = free[p] + claim[o][p]
  PROVE  W!GiveBack(o)
<1>1. \A q \in Pets : free'[q] = free[q] + claim[o][q]
  <2>1. \A q \in Held(o) : q \in Pets /\ pet[q] = "reserved"
    BY PetsInvMeans, HeldArePets DEF StateOK
  <2>2. \A q \in Pets : pet'[q] = IF q \in Held(o) THEN "available" ELSE pet[q]
    BY DEF PetsBecome
  <2> QED BY <2>1, <2>2, FreeMeans, FreeMeansAfter, ClaimMeans DEF StateOK
<1>2. free' = [i \in Items |-> free[i] + claim[o][i]]
  BY <1>1, FreeMeansAfter DEF StateOK, Items
<1>3. \A i \in Items : claim'[o][i] = 0
  BY DEF claim, ActiveStatus
<1>4. claim' = [claim EXCEPT ![o] = [i \in Items |-> 0]]
  BY <1>3, ClaimMeans, ClaimMeansAfter, OthersClaimSame DEF StateOK, OthersClaim
<1>5. sold' = sold
  BY SoldMeans, OthersClaimSame DEF OthersClaim, ActiveStatus
<1> QED BY <1>2, <1>4, <1>5 DEF W!GiveBack, W!Returned, W!Nothing

\* An order is delivered.
LEMMA SellStep ==
  ASSUME StateOK, StateOK', NEW o \in Orders, OnlyChanges(o),
         storeOrder[o].status \in ActiveStatus, storeOrder'[o].status = "delivered",
         PetsBecome(Held(o), "sold"), \A p \in Products : free'[p] = free[p]
  PROVE  W!Sell(o)
<1>1. \A q \in Pets : free'[q] = free[q]
  <2>1. \A q \in Held(o) : q \in Pets /\ pet[q] = "reserved"
    BY PetsInvMeans, HeldArePets DEF StateOK
  <2>2. \A q \in Pets : pet'[q] = IF q \in Held(o) THEN "sold" ELSE pet[q]
    BY DEF PetsBecome
  <2> QED BY <2>1, <2>2, FreeMeans, FreeMeansAfter DEF StateOK
<1>2. free' = free
  BY <1>1, FreeMeans, FreeMeansAfter DEF StateOK, Items
<1>3. \A i \in Items : claim'[o][i] = 0
  BY DEF claim, ActiveStatus
<1>4. claim' = [claim EXCEPT ![o] = [i \in Items |-> 0]]
  BY <1>3, ClaimMeans, ClaimMeansAfter, OthersClaimSame DEF StateOK, OthersClaim
<1>5. o \notin sold /\ sold' = sold \cup {o}
  BY SoldMeans, OthersClaimSame DEF OthersClaim, ActiveStatus
<1> QED BY <1>2, <1>4, <1>5 DEF W!Sell, W!Nothing

\* A delivered order is deleted.
LEMMA ForgetStep ==
  ASSUME StateOK, StateOK', NEW o \in Orders, OnlyChanges(o), UNCHANGED stockVars,
         storeOrder[o].status = "delivered", storeOrder'[o].status = "absent"
  PROVE  W!Forget(o)
<1>1. \A i \in Items : claim[o][i] = 0 /\ claim'[o][i] = 0
  BY DEF claim, ActiveStatus
<1>2. claim'[o] = claim[o]
  BY <1>1, ClaimMeans, ClaimMeansAfter DEF StateOK
<1>3. claim' = claim
  BY <1>2, ClaimMeans, ClaimMeansAfter, OthersClaimSame DEF StateOK, OthersClaim
<1>4. free' = free
  BY DEF free
<1>5. sold' = sold \ {o}
  BY SoldMeans, OthersClaimSame DEF OthersClaim
<1> QED BY <1>3, <1>4, <1>5 DEF W!Forget

\* An order claims what is free.
LEMMA AcquireStep ==
  ASSUME StateOK, StateOK', NEW o \in Orders, OnlyChanges(o),
         storeOrder[o].status = "draft", storeOrder'[o].status = "placed",
         \A q \in Held(o)' : pet[q] = "available", PetsBecome(Held(o)', "reserved"),
         \A p \in Products : /\ claim'[o][p] <= free[p]
                             /\ free'[p] = free[p] - claim'[o][p]
  PROVE  W!Acquire(o)
<1>1. \A q \in Pets : claim'[o][q] <= free[q] /\ free'[q] = free[q] - claim'[o][q]
  <2>1. \A q \in Pets : pet'[q] = IF q \in Held(o)' THEN "reserved" ELSE pet[q]
    BY DEF PetsBecome
  <2> QED BY <2>1, FreeMeans, FreeMeansAfter, ClaimMeansAfter DEF StateOK
<1>2. free' = [i \in Items |-> free[i] - claim'[o][i]]
  BY <1>1, FreeMeansAfter DEF StateOK, Items
<1>3. claim[o] = [i \in Items |-> 0]
  BY ClaimMeans DEF StateOK, claim, ActiveStatus
<1>4. claim'[o] \in [Items -> Nat] /\ claim' = [claim EXCEPT ![o] = claim'[o]]
  BY ClaimMeans, ClaimMeansAfter, OthersClaimSame DEF StateOK, OthersClaim
<1>5. o \notin sold /\ sold' = sold
  BY SoldMeans, OthersClaimSame DEF OthersClaim
<1>6. \A i \in Items : claim'[o][i] <= free[i]
  BY <1>1 DEF Items
<1> QED BY <1>2, <1>3, <1>4, <1>5, <1>6 DEF W!Acquire, W!Claims, W!Nothing

\* An administrator sets the stock of a product, or the status of a pet nobody holds.
LEMMA RestockStep ==
  ASSUME StateOK, StateOK', NEW i \in Items, UNCHANGED orderVars,
         \A j \in Items \ {i} : free'[j] = free[j],
         i \in Pets => ~HasActiveOrder(i)
  PROVE  W!Restock(i)
<1>1. UNCHANGED <<claim, sold>>
  BY DEF claim, sold, IsLegacy
<1>2. free'[i] \in Nat /\ free' = [free EXCEPT ![i] = free'[i]]
  BY FreeMeans, FreeMeansAfter DEF StateOK
<1>3. i \in Pets => free'[i] <= 1 /\ \A o \in Orders : claim[o][i] = 0
  BY FreeMeansAfter, ClaimMeans DEF StateOK, Held, HasActiveOrder
<1> QED BY <1>1, <1>2, <1>3 DEF W!Restock, W!Unclaimed

-----------------------------------------------------------------------------
(* What the handlers do to products *)

\* Reserved units become free again, and paid units come back to the stock.
LEMMA ReleaseFrees ==
  ASSUME StateOK, StateOK', NEW o \in Orders, Release(o),
         storeOrder[o].status \in {"placed", "approved"}, NEW p \in Products
  PROVE  free'[p] = free[p] + claim[o][p]
<1>1. RowOK(storeOrder[o], orderLine[o]) /\ p \in Items /\ orderLine[o][p] \in LineRow
  BY RowFacts DEF StateOK, Items
<1>2. product[p] \in ProductRow
  BY DEF StateOK, TypeOK
<1>3. claim[o][p] = orderLine[o][p].quantity
  BY ClaimMeans DEF StateOK, ActiveStatus
<1>4. CASE orderLine[o][p].allocation = "RESERVED"
  <2>1. product'[p] = [product[p] EXCEPT !.reserved = @ - orderLine[o][p].quantity]
    BY <1>4 DEF Release, ReservedProducts
  <2>2. orderLine[o][p].quantity <= product[p].reserved
    BY <1>4 DEF Release, ReservesCover, ReservedProducts
  <2>3. /\ product'[p].stock = product[p].stock
        /\ product'[p].reserved = product[p].reserved - orderLine[o][p].quantity
    BY <1>2, <2>1 DEF ProductRow
  <2> QED BY <1>1, <1>2, <1>3, <2>2, <2>3, FreeMeans, FreeMeansAfter
          DEF StateOK, ProductRow, LineRow
<1>5. CASE orderLine[o][p].allocation = "CONSUMED"
  <2>1. product'[p] = [product[p] EXCEPT !.stock = @ + orderLine[o][p].quantity]
    BY <1>5 DEF Release, ReservedProducts, ConsumedProducts
  <2>2. /\ product'[p].stock = product[p].stock + orderLine[o][p].quantity
        /\ product'[p].reserved = product[p].reserved
    BY <1>2, <2>1 DEF ProductRow
  <2>3. /\ free[p] = product[p].stock - product[p].reserved
        /\ free'[p] = product'[p].stock - product'[p].reserved
    BY FreeMeans, FreeMeansAfter DEF StateOK
  <2> QED BY <1>1, <1>2, <1>3, <2>2, <2>3 DEF ProductRow, LineRow
<1>6. CASE orderLine[o][p].allocation \notin {"RESERVED", "CONSUMED"}
  <2>1. orderLine[o][p].quantity = 0
    BY <1>1, <1>6 DEF RowOK, ExpectedAllocation
  <2>2. product'[p] = product[p]
    BY <1>6 DEF Release, ReservedProducts, ConsumedProducts
  <2> QED BY <1>1, <1>3, <2>1, <2>2, FreeMeans, FreeMeansAfter DEF StateOK
<1> QED BY <1>4, <1>5, <1>6

\* Units that are sold leave stock and reserve together.
LEMMA ConsumeKeepsFree ==
  ASSUME StateOK, StateOK', NEW o \in Orders, ReservesCover(o), product' = ConsumedStock(o),
         NEW p \in Products
  PROVE  free'[p] = free[p]
<1>1. product[p] \in ProductRow /\ orderLine[o][p] \in LineRow
  BY DEF StateOK, TypeOK, Items
<1>2. /\ product'[p].stock - product'[p].reserved = product[p].stock - product[p].reserved
  BY <1>1 DEF ConsumedStock, ReservesCover, ReservedProducts, ProductRow, LineRow
<1> QED BY <1>2, FreeMeans, FreeMeansAfter DEF StateOK

LEMMA ProductsStay ==
  ASSUME StateOK, StateOK', UNCHANGED product, NEW p \in Products PROVE free'[p] = free[p]
  BY FreeMeans, FreeMeansAfter DEF StateOK

\* An order of a single pet claims no products.
LEMMA LegacyClaimsPet ==
  ASSUME StateOK, NEW o \in Orders, IsLegacy(o), NEW p \in Products PROVE claim[o][p] = 0
<1>1. orderLine[o][p].quantity = 0
  BY RowFacts DEF StateOK, RowOK, IsLegacy, Items
<1> QED BY <1>1, ClaimMeans DEF StateOK

-----------------------------------------------------------------------------
(* The actions *)

\* A step of an active order that changes neither its lines nor what is free.
LEMMA ActiveStep ==
  ASSUME StateOK, StateOK', NEW o \in Orders, storeOrder[o].status \in ActiveStatus,
         NEW status \in ActiveStatus, NEW paymentStatus \in PaymentStatus,
         \/ Transitioned(o, status, paymentStatus)
         \/ LegacyTransitioned(o, status, paymentStatus),
         \A x \in Orders : \A i \in Items :
             orderLine'[x][i].quantity = orderLine[x][i].quantity,
         \A p \in Products : free'[p] = free[p], UNCHANGED pet
  PROVE  Stutter
<1>1. /\ storeOrder'[o].status = status /\ storeOrder'[o].kind = storeOrder[o].kind
      /\ storeOrder'[o].pet = storeOrder[o].pet
      /\ \A x \in Orders \ {o} : storeOrder'[x] = storeOrder[x]
  BY TransitionedRow DEF StateOK, ActiveStatus, OrderStatus
<1>2. \A x \in Orders : \A i \in Items : claim'[x][i] = claim[x][i]
  BY <1>1 DEF claim, IsLegacy
<1>3. \A x \in Orders : claim'[x] = claim[x]
  BY <1>2, ClaimMeans, ClaimMeansAfter DEF StateOK
<1>4. \A x \in Orders : x \in sold' <=> x \in sold
  BY <1>1, SoldMeans DEF ActiveStatus
<1>5. \A i \in Items : free'[i] = free[i]
  BY FreeMeans, FreeMeansAfter DEF StateOK, Items
<1> QED BY <1>3, <1>4, <1>5, StutterStep

LEMMA ReleaseStep ==
  ASSUME StateOK, StateOK', NEW o \in Orders,
         storeOrder[o].status \in {"placed", "approved"},
         NEW status \in {"cancelled", "expired"}, NEW paymentStatus \in PaymentStatus,
         Transitioned(o, status, paymentStatus), Release(o)
  PROVE  W!GiveBack(o)
<1>1. storeOrder'[o].status = status /\ OnlyChanges(o)
  BY TransitionedRow, ReallocatedLines
     DEF StateOK, OrderStatus, Release, Allocation, OnlyChanges
<1>2. PetsBecome(Held(o), "available")
  BY ReservedLinesAreHeld DEF StateOK, Release, ActiveStatus
<1> QED BY <1>1, <1>2, ReleaseFrees, GiveBackStep DEF ActiveStatus

\* An order of a single pet ends and frees the pet.
LEMMA LegacyEndStep ==
  ASSUME StateOK, StateOK', NEW o \in Orders, IsLegacy(o),
         storeOrder[o].status \in ActiveStatus,
         NEW status \in {"cancelled", "expired"}, NEW paymentStatus \in PaymentStatus,
         LegacyTransitioned(o, status, paymentStatus),
         UNCHANGED <<product, orderLine>>, PetsBecome(Held(o), "available")
  PROVE  W!GiveBack(o)
<1>1. storeOrder'[o].status = status /\ OnlyChanges(o)
  BY TransitionedRow DEF StateOK, OrderStatus, OnlyChanges
<1>2. \A p \in Products : free'[p] = free[p] + claim[o][p]
  BY ProductsStay, LegacyClaimsPet, FreeMeans DEF StateOK, Items
<1> QED BY <1>1, <1>2, GiveBackStep

LEMMA ExpiredStep ==
  ASSUME StateOK, StateOK', NEW o \in Orders, Expired(o) \/ LegacyExpired(o)
  PROVE  W!GiveBack(o)
<1> USE DEF PaymentStatus, Overdue
<1>1. CASE Expired(o)
  BY <1>1, ReleaseStep DEF Expired
<1>2. CASE LegacyExpired(o)
  BY <1>2, LegacyEndStep DEF LegacyExpired, Held, ActiveStatus
<1> QED BY <1>1, <1>2

LEMMA PlaceStep ==
  ASSUME StateOK, StateOK', NEW actor \in Users, NEW o \in Orders, Place(actor, o)
  PROVE  W!Acquire(o)
<1> DEFINE basket == {i \in Items : InBasket(orderLine[o], i)}
<1>1. /\ storeOrder'[o].status = "placed" /\ storeOrder'[o].kind = storeOrder[o].kind
      /\ \A x \in Orders \ {o} : storeOrder'[x] = storeOrder[x]
  BY TransitionedRow DEF StateOK, Place, OrderStatus, PaymentStatus
<1>2. Reallocated(o, basket, "RESERVED")
  BY DEF Place
<1>3. /\ \A i \in Items : orderLine'[o][i].quantity = orderLine[o][i].quantity
      /\ OnlyChanges(o)
  BY <1>1, <1>2, ReallocatedLines DEF StateOK, Allocation, OnlyChanges
<1>4. Held(o)' = basket \cap Pets
  BY <1>1, <1>3 DEF Held, OrderPets, IsLegacy, InBasket, ActiveStatus, Items, Place
<1>5. /\ \A q \in Held(o)' : pet[q] = "available"
      /\ PetsBecome(Held(o)', "reserved")
  BY <1>4 DEF Place, Sellable
<1>6. ASSUME NEW p \in Products
      PROVE  claim'[o][p] <= free[p] /\ free'[p] = free[p] - claim'[o][p]
  <2>1. product[p] \in ProductRow /\ orderLine[o][p] \in LineRow /\ p \in Items
    BY DEF StateOK, TypeOK, Items
  <2>2. claim'[o][p] = orderLine[o][p].quantity
    BY <1>1, <1>3, <2>1, ClaimMeansAfter DEF StateOK, ActiveStatus
  <2>3. orderLine[o][p].quantity <= product[p].stock - product[p].reserved
    BY <2>1 DEF Place, Sellable, InBasket, ProductRow, LineRow
  <2>4. product'[p] = [product[p] EXCEPT !.reserved = @ + orderLine[o][p].quantity]
    BY DEF Place
  <2>5. /\ product'[p].stock = product[p].stock
        /\ product'[p].reserved = product[p].reserved + orderLine[o][p].quantity
    BY <2>1, <2>4 DEF ProductRow
  <2> QED BY <2>1, <2>2, <2>3, <2>5, FreeMeans, FreeMeansAfter
          DEF StateOK, ProductRow, LineRow
<1>7. storeOrder[o].status = "draft"
  BY DEF Place
<1> QED BY <1>1, <1>3, <1>5, <1>6, <1>7, AcquireStep

\* place_draft claims the pet, out of what is free or with what the overdue order of
\* the pet gives back; there is one such order at most.
LEMMA LegacyPlaceStep ==
  ASSUME StateOK, StateOK', NEW actor \in Users, NEW o \in Orders, LegacyPlace(actor, o)
  PROVE  W!Acquire(o) \/ \E x \in Orders : W!TakeOver(x, o)
<1> DEFINE q == storeOrder[o].pet
           old == {x \in Orders : Overdue(x) /\ storeOrder[x].pet = q}
<1>1. /\ q \in Pets /\ storeOrder[o].kind = "LEGACY" /\ storeOrder[o].status = "draft"
      /\ storeOrder[o] \in OrderRow
  BY RowFacts DEF StateOK, LegacyPlace, IsLegacy, RowOK
<1>2. /\ storeOrder'[o].status = "placed" /\ storeOrder'[o].kind = "LEGACY"
      /\ storeOrder'[o].pet = q
  <2>1. storeOrder'[o] = LegacyMoved(storeOrder[o], "placed", "UNPAID")
    BY DEF LegacyPlace
  <2> QED BY <1>1, <2>1, MovedRow DEF OrderStatus, PaymentStatus
<1>3. Held(o)' = {q}
  BY <1>1, <1>2 DEF Held, OrderPets, IsLegacy, ActiveStatus
<1>4. PetsBecome({q}, "reserved")
  BY DEF LegacyPlace, PetsBecome, StateOK, TypeOK
<1>5. \A p \in Products : claim'[o][p] = 0 /\ free'[p] = free[p] /\ free[p] \in Nat
  <2>1. \A p \in Products : orderLine'[o][p].quantity = 0
    BY <1>1, RowFacts DEF StateOK, RowOK, LegacyPlace, Items
  <2>2. \A p \in Products : claim'[o][p] = 0
    BY <2>1, ClaimMeansAfter DEF StateOK
  <2>3. \A p \in Products : free'[p] = free[p]
    BY ProductsStay DEF LegacyPlace
  <2>4. \A p \in Products : free[p] \in Nat
    BY FreeMeans DEF StateOK, Items
  <2> QED BY <2>2, <2>3, <2>4
<1>6. CASE old = {}
  <2>1. OnlyChanges(o) /\ pet[q] = "available"
    BY <1>6 DEF LegacyPlace, OnlyChanges
  <2>2. \A p \in Products : /\ claim'[o][p] <= free[p]
                            /\ free'[p] = free[p] - claim'[o][p]
    BY <1>5
  <2>3. /\ \A r \in Held(o)' : pet[r] = "available"
        /\ PetsBecome(Held(o)', "reserved")
    BY <1>3, <1>4, <2>1
  <2> QED BY <1>1, <1>2, <2>1, <2>2, <2>3, AcquireStep
<1>7. ASSUME NEW x \in old PROVE W!TakeOver(x, o)
  <2>1. /\ x \in Orders /\ x # o /\ storeOrder[x] \in OrderRow
        /\ RowOK(storeOrder[x], orderLine[x])
    BY <1>1, <1>7, RowFacts DEF Overdue, StateOK
  <2>2. storeOrder[x].kind = "LEGACY" /\ storeOrder[x].status = "placed"
    BY <1>1, <1>7, <2>1 DEF RowOK, Overdue
  <2>3. Held(x) = {q}
    BY <1>1, <1>7, <2>2 DEF Held, OrderPets, IsLegacy, ActiveStatus
  <2>4. old = {x}
    <3> SUFFICES ASSUME NEW y \in old PROVE y = x
      BY <1>7
    <3>1. /\ y \in Orders /\ storeOrder[y] \in OrderRow
          /\ RowOK(storeOrder[y], orderLine[y])
      BY RowFacts DEF StateOK
    <3>2. storeOrder[y].kind = "LEGACY" /\ storeOrder[y].status = "placed"
      BY <1>1, <3>1 DEF RowOK, Overdue
    <3>3. Held(y) = {q}
      BY <1>1, <3>2 DEF Held, OrderPets, IsLegacy, ActiveStatus
    <3> QED BY <2>1, <2>3, <3>1, <3>3, PetsInvMeans DEF StateOK
  <2>5. \A y \in Orders \ {o, x} : /\ storeOrder'[y] = storeOrder[y]
                                   /\ orderLine'[y] = orderLine[y]
    BY <2>4 DEF LegacyPlace
  <2>6. storeOrder'[x].status = "expired"
    <3>1. storeOrder'[x] = LegacyMoved(storeOrder[x], "expired", "EXPIRED")
      BY <2>1, <2>4 DEF LegacyPlace
    <3> QED BY <2>1, <3>1, MovedRow DEF OrderStatus, PaymentStatus
  <2>7. \A y \in Orders \ {o, x} : claim'[y] = claim[y]
    BY <2>5, ClaimLocal
  <2>8. \A i \in Items : claim'[x][i] = 0 /\ claim[o][i] = 0
    BY <1>1, <2>1, <2>6 DEF claim, ActiveStatus
  <2>9. claim' = [claim EXCEPT ![o] = claim'[o], ![x] = [i \in Items |-> 0]]
    BY <2>1, <2>7, <2>8, ClaimMeans, ClaimMeansAfter DEF StateOK
  <2>10. o \notin sold /\ sold' = sold
    BY <1>1, <1>2, <2>1, <2>2, <2>5, <2>6, SoldMeans
  <2>11. ASSUME NEW i \in Items
         PROVE  /\ claim'[o][i] <= free[i] + claim[x][i]
                /\ free'[i] = (free[i] + claim[x][i]) - claim'[o][i]
    <3>1. CASE i \in Products
      <4>1. claim[x][i] = 0
        BY <2>1, <2>2, <3>1, LegacyClaimsPet DEF IsLegacy
      <4> QED BY <1>5, <3>1, <4>1
    <3>2. CASE i = q
      <4>1. pet[q] = "reserved" /\ pet'[q] = "reserved"
        BY <1>1, <1>4, <2>1, <2>3, PetsInvMeans DEF StateOK, PetsBecome
      <4>2. free[q] = 0 /\ free'[q] = 0 /\ claim[x][q] = 1 /\ claim'[o][q] = 1
        BY <1>1, <1>3, <2>1, <2>3, <4>1, FreeMeans, FreeMeansAfter, ClaimMeans,
           ClaimMeansAfter DEF StateOK
      <4> QED BY <3>2, <4>2
    <3>3. CASE i \in Pets \ {q}
      <4>1. claim[x][i] = 0 /\ claim'[o][i] = 0
        BY <1>3, <2>1, <2>3, <3>3, ClaimMeans, ClaimMeansAfter DEF StateOK
      <4>2. free'[i] = free[i] /\ free[i] \in Nat
        BY <1>4, <3>3, FreeMeans, FreeMeansAfter DEF StateOK, PetsBecome, Items
      <4> QED BY <4>1, <4>2
    <3> QED BY <3>1, <3>2, <3>3 DEF Items
  <2>12. free' = [i \in Items |-> [j \in Items |-> free[j] + claim[x][j]][i] - claim'[o][i]]
    BY <2>11, FreeMeansAfter DEF StateOK
  <2>13. claim[o] = [i \in Items |-> 0] /\ claim'[o] \in [Items -> Nat]
    BY <2>8, ClaimMeans, ClaimMeansAfter DEF StateOK
  <2> QED BY <2>1, <2>9, <2>10, <2>11, <2>12, <2>13
          DEF W!TakeOver, W!Claims, W!Returned, W!Nothing
<1> QED BY <1>6, <1>7

\* A row is deleted: nothing was claimed, or a sale is forgotten.
LEMMA DeletionStep ==
  ASSUME StateOK, StateOK', NEW o \in Orders, RowsDeleted(o), UNCHANGED stockVars,
         storeOrder[o].status \in {"draft"} \cup CompleteStatus
  PROVE  Stutter \/ W!Next
<1>1. storeOrder'[o].status = "absent" /\ OnlyChanges(o)
  BY DEF StateOK, RowsDeleted, TypeOK, NoOrderRow, OnlyChanges
<1>2. CASE storeOrder[o].status = "delivered"
  BY <1>1, <1>2, ForgetStep DEF W!Next
<1>3. CASE storeOrder[o].status # "delivered"
  BY <1>1, <1>3, IdleStep DEF CompleteStatus
<1> QED BY <1>2, <1>3

\* The warehouse does not see what happens to carts, cards and payments alone.
LEMMA UnseenStep ==
  ASSUME UNCHANGED <<orderVars, stockVars>> PROVE Stutter
  BY DEF Stutter, free, claim, sold, IsLegacy

LEMMA CommerceStep ==
  ASSUME StateOK, StateOK', CommerceNext PROVE Stutter \/ W!Next
<1> USE DEF PaymentStatus
<1>1. ASSUME NEW o \in Orders, NEW u \in Users, CreateOrder(o, u) PROVE Stutter
  <2>1. storeOrder'[o].status = "draft" /\ OnlyChanges(o)
    BY <1>1 DEF StateOK, CreateOrder, TypeOK, NoOrderRow, OnlyChanges
  <2> QED BY <1>1, <2>1, IdleStep DEF CreateOrder
<1>2. ASSUME NEW actor \in Users, NEW o \in Orders, Place(actor, o) PROVE W!Next
  BY <1>2, PlaceStep DEF W!Next
<1>3. ASSUME NEW actor \in Users, NEW o \in Orders, Approve(actor, o) PROVE Stutter
  BY <1>3, ActiveStep, ProductsStay DEF Approve, MayTransition, CanTransition, ActiveStatus
<1>4. ASSUME NEW actor \in Users, NEW o \in Orders, Ship(actor, o) PROVE Stutter
  BY <1>4, ActiveStep, ProductsStay, PaymentStatusType
     DEF StateOK, Ship, MayTransition, CanTransition, ActiveStatus
<1>5. ASSUME NEW actor \in Users, NEW o \in Orders, Deliver(actor, o) PROVE W!Next
  <2>1. storeOrder[o].status \in ActiveStatus
    BY <1>5 DEF Deliver, MayTransition, CanTransition, ActiveStatus
  <2>2. PetsBecome(Held(o), "sold")
    BY <1>5, <2>1, ReservedLinesAreHeld DEF StateOK, Deliver, Consume
  <2>3. storeOrder'[o].status = "delivered" /\ OnlyChanges(o)
    BY <1>5, TransitionedRow, ReleaseLines, PaymentStatusType
       DEF StateOK, Deliver, OrderStatus, OnlyChanges
  <2>4. \A p \in Products : free'[p] = free[p]
    BY <1>5, ConsumeKeepsFree DEF Deliver, Consume
  <2> QED BY <2>1, <2>2, <2>3, <2>4, SellStep DEF W!Next
<1>6. ASSUME NEW actor \in Users, NEW o \in Orders, Cancel(actor, o) PROVE W!Next
  <2>1. storeOrder[o].status \in {"placed", "approved"}
    BY <1>6 DEF Cancel, MayTransition, CanTransition
  <2> QED BY <1>6, <2>1, ReleaseStep, PaymentStatusType DEF StateOK, Cancel, W!Next
<1>7. ASSUME NEW actor \in Users, NEW o \in Orders, Delete(actor, o) PROVE Stutter \/ W!Next
  BY <1>7, DeletionStep DEF Delete
<1>8. ASSUME NEW o \in Orders, ExpireMixed(o) PROVE W!Next
  BY <1>8, ExpiredStep DEF ExpireMixed, W!Next
<1> QED BY <1>1, <1>2, <1>3, <1>4, <1>5, <1>6, <1>7, <1>8 DEF CommerceNext

LEMMA PaymentStep ==
  ASSUME StateOK, StateOK', PaymentNext PROVE Stutter \/ W!Next
<1>1. ASSUME NEW k \in PaymentKeys, NEW actor \in Users, NEW o \in Orders,
             PaySucceeded(k, actor, o)
      PROVE  Stutter
  <2>1. \A x \in Orders : \A i \in Items :
          orderLine'[x][i].quantity = orderLine[x][i].quantity
    BY <1>1, ReallocatedLines DEF StateOK, PaySucceeded, Allocation
  <2>2. \A p \in Products : free'[p] = free[p]
    BY <1>1, ConsumeKeepsFree DEF PaySucceeded
  <2> QED BY <1>1, <2>1, <2>2, ActiveStep
          DEF PaySucceeded, Payable, ActiveStatus, PaymentStatus
<1>2. ASSUME NEW k \in PaymentKeys, NEW actor \in Users, NEW o \in Orders,
             PayTooLate(k, actor, o)
      PROVE  W!Next
  BY <1>2, ExpiredStep DEF PayTooLate, W!Next
<1> QED BY <1>1, <1>2, UnseenStep DEF PaymentNext, PayDeclined, DeleteDeclined

LEMMA LegacyStep ==
  ASSUME StateOK, StateOK', LegacyNext PROVE Stutter \/ W!Next
<1> USE DEF PaymentStatus
<1>1. ASSUME NEW o \in Orders, NEW u \in Users, NEW q \in Pets,
             LegacyCreate(o, u, q) \/ LegacyUpdate(u, o, q)
      PROVE  Stutter
  <2>1. OnlyChanges(o) /\ UNCHANGED stockVars
    BY <1>1 DEF StateOK, OnlyChanges, LegacyCreate, LegacyUpdate, TypeOK
  <2>2. storeOrder'[o].status = "draft"
    <3>1. TypeOK
      BY DEF StateOK
    <3> QED BY <1>1, <3>1 DEF LegacyCreate, LegacyUpdate, TypeOK, OrderRow, NoOrderRow
  <2>3. storeOrder[o].status \in {"absent", "draft"}
    BY <1>1 DEF LegacyCreate, LegacyUpdate
  <2> QED BY <2>1, <2>2, <2>3, IdleStep
<1>2. ASSUME NEW actor \in Users, NEW o \in Orders, LegacyPlace(actor, o) PROVE W!Next
  BY <1>2, LegacyPlaceStep DEF W!Next
<1>3. ASSUME NEW actor \in Users, NEW o \in Orders, LegacyApprove(actor, o) PROVE Stutter
  BY <1>3, ActiveStep, ProductsStay, PaymentStatusType
     DEF StateOK, LegacyApprove, LegacyMayMove, CanTransition, ActiveStatus
<1>4. ASSUME NEW actor \in Users, NEW o \in Orders, LegacyShip(actor, o) PROVE Stutter
  BY <1>4, ActiveStep, ProductsStay, PaymentStatusType
     DEF StateOK, LegacyShip, LegacyMayMove, CanTransition, ActiveStatus
<1>5. ASSUME NEW actor \in Users, NEW o \in Orders, LegacyDeliver(actor, o) PROVE W!Next
  <2>1. storeOrder[o].status \in ActiveStatus
    BY <1>5 DEF LegacyDeliver, LegacyMayMove, CanTransition, ActiveStatus
  <2>2. PetsBecome(Held(o), "sold")
    BY <1>5, <2>1 DEF LegacyDeliver, Held
  <2>3. storeOrder'[o].status = "delivered" /\ OnlyChanges(o)
    BY <1>5, TransitionedRow, PaymentStatusType
       DEF StateOK, LegacyDeliver, OrderStatus, OnlyChanges
  <2> QED BY <1>5, <2>1, <2>2, <2>3, ProductsStay, SellStep DEF LegacyDeliver, W!Next
<1>6. ASSUME NEW actor \in Users, NEW o \in Orders, LegacyCancel(actor, o) PROVE W!Next
  <2>1. storeOrder[o].status \in ActiveStatus
    BY <1>6 DEF LegacyCancel, LegacyMayMove, CanTransition, ActiveStatus
  <2>2. {q \in OrderPets(o) : \A x \in Orders \ {o} :
            storeOrder[x].status \in ActiveStatus => q \notin OrderPets(x)} = Held(o)
    BY <2>1 DEF StateOK, PetsInv, PetHeldOnce, Held
  <2>3. PetsBecome(Held(o), "available")
    BY <1>6, <2>2 DEF LegacyCancel
  <2> QED BY <1>6, <2>1, <2>3, LegacyEndStep, PaymentStatusType
          DEF StateOK, LegacyCancel, LegacyMayMove, W!Next
<1>7. ASSUME NEW actor \in Users, NEW o \in Orders, LegacyDelete(actor, o)
      PROVE  Stutter \/ W!Next
  <2>1. CASE Overdue(o)
    <3>1. storeOrder[o].status \in ActiveStatus
      BY <2>1 DEF Overdue, ActiveStatus
    <3>2. storeOrder'[o].status = "absent" /\ OnlyChanges(o)
      BY <1>7 DEF StateOK, LegacyDelete, RowsDeleted, TypeOK, NoOrderRow, OnlyChanges
    <3>3. PetsBecome(Held(o), "available")
      BY <1>7, <2>1, <3>1 DEF LegacyDelete, Held
    <3>4. \A p \in Products : free'[p] = free[p] + claim[o][p]
      BY <1>7, ProductsStay, LegacyClaimsPet, FreeMeans DEF StateOK, Items, LegacyDelete
    <3> QED BY <3>1, <3>2, <3>3, <3>4, GiveBackStep DEF W!Next
  <2>2. CASE ~Overdue(o)
    <3>1. UNCHANGED pet
      BY <1>7, <2>2 DEF LegacyDelete, PetsBecome, StateOK, TypeOK
    <3> QED BY <1>7, <2>2, <3>1, DeletionStep DEF LegacyDelete
  <2> QED BY <2>1, <2>2
<1>8. ASSUME NEW o \in Orders, ExpireLegacy(o) PROVE W!Next
  BY <1>8, ExpiredStep DEF ExpireLegacy, W!Next
<1> QED BY <1>1, <1>2, <1>3, <1>4, <1>5, <1>6, <1>7, <1>8 DEF LegacyNext

LEMMA CatalogStep ==
  ASSUME StateOK, StateOK', CatalogNext PROVE Stutter \/ W!Next
<1>1. ASSUME NEW p \in Products, NEW stock \in StockLevels, AdjustStock(p, stock)
      PROVE  W!Next
  <2>1. p \in Items /\ p \notin Pets
    BY ConstantsAssumption DEF Items
  <2>2. \A j \in Items \ {p} : free'[j] = free[j]
    <3>1. \A j \in Products \ {p} : product'[j] = product[j]
      BY <1>1 DEF AdjustStock, StateOK, TypeOK
    <3>2. \A j \in Products \ {p} : free'[j] = free[j]
      BY <3>1, FreeMeans, FreeMeansAfter DEF StateOK
    <3>3. \A j \in Pets : free'[j] = free[j]
      BY <1>1, FreeMeans, FreeMeansAfter DEF AdjustStock, StateOK
    <3> QED BY <3>2, <3>3 DEF Items
  <2> QED BY <1>1, <2>1, <2>2, RestockStep DEF AdjustStock, W!Next
<1>2. ASSUME NEW q \in Pets, NEW status \in PetStatuses \cup {pet[q]}, NEW price,
             UpdatePet(q, status, price)
      PROVE  Stutter \/ W!Next
  <2>1. \A j \in Products : free'[j] = free[j]
    BY <1>2, ProductsStay DEF UpdatePet
  <2>2. \A j \in Pets \ {q} : free'[j] = free[j]
    BY <1>2, FreeMeans, FreeMeansAfter DEF UpdatePet, StateOK, TypeOK
  <2>3. CASE status = pet[q]
    <3>1. pet' = pet
      BY <1>2, <2>3 DEF UpdatePet, StateOK, TypeOK
    <3> QED BY <1>2, <3>1, UnseenStep DEF UpdatePet
  <2>4. CASE ~HasActiveOrder(q)
    BY <1>2, <2>1, <2>2, <2>4, RestockStep DEF UpdatePet, W!Next, Items
  <2> QED BY <1>2, <2>3, <2>4 DEF UpdatePet
<1> QED BY <1>1, <1>2, UnseenStep DEF CatalogNext, SavePrice, Publish

LEMMA ShopStep ==
  ASSUME StateOK, StateOK', [Next]_vars PROVE [W!Next]_<<free, claim, sold>>
<1>1. ASSUME NEW o \in Orders, DeadlinePasses(o) PROVE Stutter
  <2>1. storeOrder[o] \in OrderRow /\ storeOrder'[o] = [storeOrder[o] EXCEPT !.late = TRUE]
    BY <1>1 DEF DeadlinePasses, StateOK, TypeOK
  <2>2. \A x \in Orders \ {o} : storeOrder'[x] = storeOrder[x]
    BY <1>1 DEF DeadlinePasses, StateOK, TypeOK
  <2>3. /\ storeOrder'[o].status = storeOrder[o].status
        /\ storeOrder'[o].kind = storeOrder[o].kind /\ storeOrder'[o].pet = storeOrder[o].pet
    BY <2>1 DEF OrderRow
  <2>4. \A x \in Orders : \A i \in Items : claim'[x][i] = claim[x][i]
    BY <1>1, <2>2, <2>3 DEF claim, IsLegacy, DeadlinePasses
  <2>5. \A x \in Orders : claim'[x] = claim[x]
    BY <2>4, ClaimMeans, ClaimMeansAfter DEF StateOK
  <2>6. \A x \in Orders : x \in sold' <=> x \in sold
    BY <2>2, <2>3, SoldMeans
  <2>7. \A i \in Items : free'[i] = free[i]
    BY <1>1 DEF free, DeadlinePasses
  <2> QED BY <2>5, <2>6, <2>7, StutterStep
<1>2. CASE Stutter \/ W!Next
  BY <1>2 DEF Stutter
<1> QED BY <1>1, <1>2, CommerceStep, PaymentStep, LegacyStep, CatalogStep, UnseenStep
        DEF Next, vars, CartNext, ReplaceCart

LEMMA InitMaps == ASSUME Init, StateOK PROVE W!Init
<1>1. free \in [Items -> Nat] /\ claim \in [Orders -> [Items -> Nat]]
  BY FreeMeans, ClaimMeans DEF StateOK
<1>2. sold = {}
  <2> PICK owner \in [Migrated -> Users], held \in Injection(Migrated, Pets) :
        storeOrder = [o \in Orders |->
           IF o \in Migrated THEN MigratedRow(owner[o], held[o]) ELSE NoOrderRow]
    BY DEF Init
  <2>1. \A o \in Orders : storeOrder[o].status # "delivered"
    BY DEF MigratedRow, NoOrderRow
  <2> QED BY <2>1 DEF sold
<1>3. ASSUME NEW q \in Pets
      PROVE  /\ free[q] <= 1
             /\ free[q] = 1 => \A o \in Orders : claim[o][q] = 0
             /\ \A o1, o2 \in Orders : claim[o1][q] > 0 /\ claim[o2][q] > 0 => o1 = o2
  <2>1. free[q] = 1 => \A o \in Orders : q \notin Held(o)
    BY FreeMeans, PetsInvMeans DEF StateOK
  <2>2. \A o1, o2 \in Orders : q \in Held(o1) /\ q \in Held(o2) => o1 = o2
    BY PetsInvMeans DEF StateOK
  <2> QED BY <2>1, <2>2, FreeMeans, ClaimMeans DEF StateOK
<1> QED BY <1>1, <1>2, <1>3 DEF W!Init, W!SinglesOK, W!Unclaimed

\* The shop implements the warehouse: whatever handlers run, an order claims all it
\* asks for out of what is free or nothing, and gives it back or sells it once (place,
\* place_draft, release, consume_paid_products and the older service together).
THEOREM WarehouseTheorem == Spec => WarehouseSpec
<1>1. Spec => []StateOK
  <2>1. TypeOK /\ OrdersAgree /\ PetsInv /\ [Next]_vars => PetsInv'
    BY PetsStep
  <2>2. Spec => []PetsInv
    BY InitPets, TypeInvariant, OrdersAlwaysAgree, <2>1, PTL DEF Spec
  <2>3. TypeOK /\ OrdersAgree /\ PetsInv => StateOK
    BY DEF StateOK
  <2> QED BY TypeInvariant, OrdersAlwaysAgree, <2>2, <2>3, PTL
<1>2. StateOK /\ StateOK' /\ [Next]_vars => [W!Next]_<<free, claim, sold>>
  BY ShopStep
<1>3. Init /\ StateOK => W!Init
  BY InitMaps
<1> QED BY <1>1, <1>2, <1>3, PTL DEF Spec, WarehouseSpec, W!Spec

=============================================================================
