------------------------------ MODULE ShopState ------------------------------
(***************************************************************************)
(* The tables of the shop that orders touch, one variable per table, and   *)
(* the checks and row updates every service shares.                        *)
(*                                                                         *)
(* Every handler runs in one PostgreSQL transaction that locks the rows it *)
(* decides on (order, then user and cart, then inventory), and a raised    *)
(* exception rolls everything back.  So a handler that succeeds is one     *)
(* atomic action of this specification, and one that fails is a stutter,   *)
(* except where the code commits before it raises.                         *)
(***************************************************************************)
EXTENDS Naturals, FiniteSets

CONSTANTS
    Users,          \* accounts
    Admins,         \* the accounts whose role is ADMIN
    Profiled,       \* the accounts whose delivery profile is complete
    NoUser,         \* owner of a row that is not there
    Orders,         \* identifiers of store_orders
    NoOrder,        \* order of a payment that is not there
    Migrated,       \* orders placed before payments existed
    PaymentKeys,    \* Idempotency-Key values of payment attempts
    Products,       \* product cards
    Pets,           \* pet cards
    NoPet,          \* the NULL pet_id of a MIXED order
    Prices,         \* prices a card may have
    NoPrice,        \* the NULL price
    Kinds,          \* bound: the kinds of orders clients open
    MaxQuantity,    \* bound: units of one product in a cart line
    MaxStock        \* the largest stock an adjustment may set (1000000)

Items == Products \cup Pets

ASSUME ConstantsAssumption ==
    /\ Admins \subseteq Users
    /\ NoUser \notin Users
    /\ NoOrder \notin Orders
    /\ Migrated \subseteq Orders
    /\ Kinds \subseteq {"LEGACY", "MIXED"}
    /\ Products \cap Pets = {}
    /\ NoPet \notin Pets
    /\ NoPrice \notin Prices
    /\ MaxQuantity \in Nat \ {0}
    /\ MaxStock \in Nat

VARIABLES
    storeOrder,     \* store_orders, without its lines
    orderLine,      \* order_lines: per order and item
    payment,        \* payments, by idempotency key
    product,        \* products: stock and reserved
    pet,            \* pets: status
    card,           \* publication_status and price of products and pets
    cart,           \* carts: version
    cartLine        \* cart_lines: per user and item

orderVars == <<storeOrder, orderLine>>
stockVars == <<product, pet>>
cartVars  == <<cart, cartLine>>
vars == <<storeOrder, orderLine, payment, product, pet, card, cart, cartLine>>

-----------------------------------------------------------------------------
\* Column domains.  "absent" stands for "no row with this identifier".

OrderStatus == {"draft", "placed", "approved", "shipped",
                "delivered", "cancelled", "expired"}
ActiveStatus == {"placed", "approved", "shipped"}
CompleteStatus == {"delivered", "cancelled", "expired"}
PaymentStatus == {"NOT_STARTED", "NOT_REQUIRED", "UNPAID", "PAID",
                  "REFUNDED", "EXPIRED"}
PetStatus == {"available", "pending", "reserved", "sold"}
Publication == {"DRAFT", "PUBLISHED", "ARCHIVED"}
Allocation == {"NONE", "RESERVED", "RELEASED", "CONSUMED"}

OrderRow ==
    [kind : {"LEGACY", "MIXED"}, owner : Users \cup {NoUser},
     status : OrderStatus \cup {"absent"}, paymentStatus : PaymentStatus,
     version : Nat, cartVersion : Nat, pet : Pets \cup {NoPet},
     late : BOOLEAN]        \* payment_expires_at is in the past

NoOrderRow ==
    [kind |-> "MIXED", owner |-> NoUser, status |-> "absent",
     paymentStatus |-> "NOT_STARTED", version |-> 1, cartVersion |-> 0,
     pet |-> NoPet, late |-> FALSE]

LineRow == [quantity : Nat, price : Prices \cup {NoPrice}, allocation : Allocation]
NoLine == [quantity |-> 0, price |-> NoPrice, allocation |-> "NONE"]

PaymentRow == [order : Orders \cup {NoOrder},
               status : {"none", "SUCCEEDED", "DECLINED", "REFUNDED"}]
NoPayment == [order |-> NoOrder, status |-> "none"]

ProductRow == {r \in [stock : Nat, reserved : Nat] : r.reserved <= r.stock}

CardRow == {c \in [publication : Publication, price : Prices \cup {NoPrice}] :
                c.publication = "PUBLISHED" => c.price # NoPrice}

CartLineRow == [quantity : Nat, price : Prices \cup {NoPrice}]
NoCartLine == [quantity |-> 0, price |-> NoPrice]

TypeOK ==
    /\ storeOrder \in [Orders -> OrderRow]
    /\ orderLine \in [Orders -> [Items -> LineRow]]
    /\ payment \in [PaymentKeys -> PaymentRow]
    /\ product \in [Products -> ProductRow]
    /\ pet \in [Pets -> PetStatus]
    /\ card \in [Items -> CardRow]
    /\ cart \in [Users -> Nat]
    /\ cartLine \in [Users -> [Items -> CartLineRow]]

-----------------------------------------------------------------------------
\* Checks shared by the services.

\* Mutant: a matrix that lets a shipped order be cancelled.
CanCancelShipped(from, to) ==
    to \in (CASE from = "draft" -> {"placed"}
              [] from = "placed" -> {"approved", "cancelled"}
              [] from = "approved" -> {"shipped", "cancelled"}
              [] from = "shipped" -> {"delivered", "cancelled"}
              [] OTHER -> {})

CanTransition(from, to) ==
    to \in (CASE from = "draft" -> {"placed"}
              [] from = "placed" -> {"approved", "cancelled"}
              [] from = "approved" -> {"shipped", "cancelled"}
              [] from = "shipped" -> {"delivered"}
              [] OTHER -> {})

MayModify(actor, o) == actor \in Admins \/ actor = storeOrder[o].owner

Overdue(o) == /\ storeOrder[o].status = "placed"
              /\ storeOrder[o].paymentStatus = "UNPAID"
              /\ storeOrder[o].late

IsLegacy(o) == storeOrder[o].kind = "LEGACY"

InBasket(lines, i) == lines[i].quantity > 0

\* The pets an order holds: the pet_id of a LEGACY order, the pet lines of a
\* MIXED one.
OrderPets(o) == IF IsLegacy(o) THEN {storeOrder[o].pet} \cap Pets
                ELSE {q \in Pets : InBasket(orderLine[o], q)}

HasActiveOrder(q) == \E o \in Orders : /\ storeOrder[o].status \in ActiveStatus
                                       /\ q \in OrderPets(o)

-----------------------------------------------------------------------------
\* Row updates shared by the services.

RowsDeleted(o) ==
    /\ storeOrder' = [storeOrder EXCEPT ![o] = NoOrderRow]
    /\ orderLine' = [orderLine EXCEPT ![o] = [i \in Items |-> NoLine]]
    /\ payment' = [k \in PaymentKeys |->
                      IF payment[k].order = o THEN NoPayment ELSE payment[k]]

PetsBecome(held, status) ==
    pet' = [q \in Pets |-> IF q \in held THEN status ELSE pet[q]]

SucceededPayments(o) ==
    {k \in PaymentKeys : payment[k] = [order |-> o, status |-> "SUCCEEDED"]}

\* The refund succeeds only when it hits exactly one successful payment.
Refundable(o) == storeOrder[o].paymentStatus = "PAID" =>
                     \E k \in PaymentKeys : SucceededPayments(o) = {k}

\* Mutant: the order says REFUNDED, the payment does not.
RefundForgotten(o) == UNCHANGED payment

Refunded(o) ==
    IF storeOrder[o].paymentStatus = "PAID"
    THEN payment' = [k \in PaymentKeys |->
                        IF k \in SucceededPayments(o)
                        THEN [payment[k] EXCEPT !.status = "REFUNDED"]
                        ELSE payment[k]]
    ELSE UNCHANGED payment

StatusAfterRefund(o) ==
    IF storeOrder[o].paymentStatus = "PAID" THEN "REFUNDED"
    ELSE storeOrder[o].paymentStatus

=============================================================================
