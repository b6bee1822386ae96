------------------------------- MODULE RowLocks -------------------------------
(***************************************************************************)
(* The locks a request or the worker takes inside its transaction, in the  *)
(* order its code takes them, and how PostgreSQL makes them wait.  What    *)
(* the transactions read and write is in the other modules; here they may  *)
(* refuse whenever they hold what they asked for so far.                   *)
(***************************************************************************)
EXTENDS Naturals, FiniteSets, Sequences

CONSTANTS
    Connections,    \* the pool: a request uses one at a time, others wait without locks
    Width,          \* identifiers are numbers below Width, ordered like the UUIDs
    Keys,           \* advisory keys: Idempotency-Key and payment keys, hashed
    Users, Drafts, Placed, Legacy, Pets, Products, Categories, Images,
    Owner,          \* of each order
    Basket,         \* the items of each order
    Serves          \* the handlers an instance lets a connection work for

ASSUME LocksAssumption ==
    /\ Width \in Nat \ {0}
    /\ \A ids \in {Keys, Users, Drafts, Placed, Pets, Products, Categories, Images} :
         ids \subseteq 0 .. Width - 1
    /\ Drafts \cap Placed = {}
    /\ Legacy \subseteq Placed
    /\ Owner \in [Drafts \cup Placed -> Users]
    /\ Basket \in [Drafts \cup Placed -> [pets : SUBSET Pets, products : SUBSET Products]]

VARIABLES
    kind,           \* the handler each connection works for, or "idle"
    todo,           \* the locking statements it still has to run
    held,           \* the locks its transaction has taken
    rows            \* overdue orders a sweep has selected and not yet expired

vars == <<kind, todo, held, rows>>

-----------------------------------------------------------------------------
(* Locks and statements *)

\* "table" is LOCK TABLE users, or what an UPDATE of users takes on the table.
Classes == {"table", "key", "draft", "user", "cart", "placed", "pet", "product",
            "category", "media"}

ClassRank == [table |-> 0, key |-> 1, draft |-> 2, user |-> 3, cart |-> 4, placed |-> 5,
              pet |-> 6, product |-> 7, category |-> 8, media |-> 9]

\* FOR UPDATE; FOR SHARE, or what writing a row takes on its table; and
\* FOR UPDATE SKIP LOCKED.
Modes == {"update", "share", "skip"}

\* A statement locks one row, or several in the order of their identifiers.
Statement == [class : Classes, ids : SUBSET (0 .. Width - 1), mode : Modes]
Lock(class, ids) == [class |-> class, ids |-> ids, mode |-> "update"]
Share(class, ids) == [class |-> class, ids |-> ids, mode |-> "share"]
SkipLocked(class, ids) == [class |-> class, ids |-> ids, mode |-> "skip"]

\* The table of users is a lock of its own.
UsersTable == {0}

Taken == [class : Classes, id : 0 .. Width - 1, mode : {"update", "share"}]

Init ==
    /\ kind = [c \in Connections |-> "idle"]
    /\ todo = [c \in Connections |-> <<>>]
    /\ held = [c \in Connections |-> {}]
    /\ rows = [c \in Connections |-> {}]

Least(ids) == CHOOSE i \in ids : \A j \in ids : i <= j

\* The rows of the statement a transaction is at: locked one after the other.
Asks(c) == kind[c] # "idle" /\ todo[c] # <<>> /\ Head(todo[c]).ids # {}
Next1(c) == Least(Head(todo[c]).ids)

Holds(d, class, id, mode) ==
    \E l \in held[d] : /\ l.class = class
                       /\ l.id = id
                       /\ ~ (l.mode = "share" /\ mode = "share")

\* Another transaction holds what this one asks for.
Blocks(d, c) ==
    /\ d # c
    /\ Asks(c)
    /\ Holds(d, Head(todo[c]).class, Next1(c), Head(todo[c]).mode)

Waits(c) == Asks(c) /\ Head(todo[c]).mode # "skip" /\ \E d \in Connections : Blocks(d, c)

\* Transactions that wait for each other in a circle.
Deadlocked(S) == S # {} /\ \A c \in S : Waits(c) /\ \E d \in S : Blocks(d, c)

-----------------------------------------------------------------------------
(* The handlers: each takes a connection and the locks its code names. *)

Handlers == {"cart", "create", "place", "pay", "move", "draft", "legacyCreate",
             "legacyPlace", "sweep", "save", "card", "category", "media", "cleanup",
             "update", "confirm", "edit"}

Begin(c, handler, statements) ==
    /\ kind[c] = "idle"
    /\ handler \in Serves[c]
    /\ kind' = [kind EXCEPT ![c] = handler]
    /\ todo' = [todo EXCEPT ![c] = statements]
    /\ UNCHANGED <<held, rows>>

\* inventory_locks sorts by type, then by identifier.
Inventory(items) == <<Lock("pet", items.pets), Lock("product", items.products)>>

\* CartData.lock locks the user first.
Cart(u) == <<Lock("user", {u}), Lock("cart", {u})>>

Items == [pets : SUBSET Pets, products : SUBSET Products]

ReplaceCart(c) == \E k \in Keys, u \in Users :
    Begin(c, "cart", <<Lock("key", {k})>> \o Cart(u))

\* The lines of the cart, then the covers of their galleries.
CreateOrder(c) == \E k \in Keys, u \in Users, items \in Items, covers \in SUBSET Images :
    Begin(c, "create", <<Lock("key", {k})>> \o Cart(u) \o Inventory(items)
                         \o <<Lock("media", covers)>>)

\* Mutant: the items are locked before their order.
PlaceItemsFirst(c) == \E k \in Keys, o \in Drafts :
    Begin(c, "place", <<Lock("key", {k})>> \o Inventory(Basket[o]) \o <<Lock("draft", {o})>>
                        \o Cart(Owner[o]))

PlaceOrder(c) == \E k \in Keys, o \in Drafts :
    Begin(c, "place", <<Lock("key", {k}), Lock("draft", {o})>> \o Cart(Owner[o])
                        \o Inventory(Basket[o]))

\* A payment of products consumes them; one that comes too late releases all.
Pay(c) == \E k \in Keys, o \in Placed : \E items \in {Basket[o], [Basket[o] EXCEPT !.pets = {}]} :
    Begin(c, "pay", <<Lock("key", {k}), Lock("placed", {o})>> \o Inventory(items))

\* Transitions, cancellations and deletions, of both kinds of orders.
MoveOrder(c) == \E o \in Placed :
    Begin(c, "move", <<Lock("placed", {o})>> \o Inventory(Basket[o]))

\* The deletion of a draft, or the new pet of a LEGACY one.
ChangeDraft(c) == \E o \in Drafts, p \in SUBSET Pets :
    /\ Cardinality(p) <= 1
    /\ Begin(c, "draft", <<Lock("draft", {o}), Lock("pet", p)>>)

LegacyCreate(c) == \E u \in Users, p \in Pets :
    Begin(c, "legacyCreate", <<Lock("user", {u}), Lock("pet", {p})>>)

\* At most one overdue order holds the pet of a LEGACY draft (PetHeldOnce).
LegacyPlace(c) == \E o \in Drafts, p \in Pets, old \in SUBSET Legacy :
    /\ Cardinality(old) <= 1
    /\ \A other \in old : p \in Basket[other].pets
    /\ Begin(c, "legacyPlace", <<Lock("draft", {o}), Lock("user", {Owner[o]}),
                                 Lock("placed", old), Lock("pet", {p})>>)

\* Card, category, gallery.
SaveCard(c) == \E class \in {"pet", "product"}, i \in Pets \cup Products,
                  k \in SUBSET Categories, ms \in SUBSET Images :
    /\ i \in (IF class = "pet" THEN Pets ELSE Products)
    /\ Cardinality(k) <= 1
    /\ Begin(c, "save", <<Lock(class, {i}), Share("category", k), Lock("media", ms)>>)

\* publish shares the category; adjust_stock, update_pet and delete_pet do not.
ChangeCard(c) == \E class \in {"pet", "product"}, i \in Pets \cup Products,
                    k \in SUBSET Categories :
    /\ i \in (IF class = "pet" THEN Pets ELSE Products)
    /\ Cardinality(k) <= 1
    /\ Begin(c, "card", <<Lock(class, {i}), Share("category", k)>>)

SaveCategory(c) == \E k \in Categories : Begin(c, "category", <<Lock("category", {k})>>)

DeleteMedia(c) == \E m \in Images : Begin(c, "media", <<Lock("media", {m})>>)

CleanUp(c) == \E ms \in SUBSET Images : Begin(c, "cleanup", <<SkipLocked("media", ms)>>)

\* One UPDATE or INSERT of users: the table, then the row.
UpdateUser(c) == \E u \in Users :
    Begin(c, "update", <<Share("table", UsersTable), Lock("user", {u})>>)

\* confirm, resend and delete lock the row before they write to the table.
ConfirmUser(c) == \E u \in Users :
    Begin(c, "confirm", <<Lock("user", {u}), Lock("cart", {u}), Share("table", UsersTable)>>)

\* update_user_as_admin: LOCK TABLE users, then the row.
EditUser(c) == \E u \in Users :
    Begin(c, "edit", <<Lock("table", UsersTable), Lock("user", {u})>>)

\* The overdue orders of one kind, which hold different pets.
Sweep(c) == \E overdue \in SUBSET Placed :
    /\ overdue \in SUBSET Legacy \cup SUBSET (Placed \ Legacy)
    /\ \A o, other \in overdue : o # other => Basket[o].pets \cap Basket[other].pets = {}
    /\ Begin(c, "sweep", <<SkipLocked("placed", overdue)>>)

-----------------------------------------------------------------------------
(* The transactions *)

\* The statement without the row it has just locked or passed over.
Rest(c) ==
    LET s == Head(todo[c]) IN
    [todo EXCEPT ![c] = <<[s EXCEPT !.ids = @ \ {Next1(c)}]>> \o Tail(todo[c])]

Grant(c) ==
    /\ Asks(c)
    /\ \A d \in Connections : ~ Blocks(d, c)
    /\ LET s == Head(todo[c]) IN
       /\ held' = [held EXCEPT ![c] = @ \cup {[class |-> s.class, id |-> Next1(c),
                     mode |-> IF s.mode = "share" THEN "share" ELSE "update"]}]
       /\ rows' = [rows EXCEPT ![c] = IF kind[c] = "sweep" /\ s.class = "placed"
                                      THEN @ \cup {Next1(c)} ELSE @]
    /\ todo' = Rest(c)
    /\ UNCHANGED kind

PassOver(c) ==
    /\ Asks(c)
    /\ Head(todo[c]).mode = "skip"
    /\ \E d \in Connections : Blocks(d, c)
    /\ todo' = Rest(c)
    /\ UNCHANGED <<kind, held, rows>>

NextStatement(c) ==
    /\ todo[c] # <<>>
    /\ Head(todo[c]).ids = {}
    /\ todo' = [todo EXCEPT ![c] = Tail(@)]
    /\ UNCHANGED <<kind, held, rows>>

\* expire_locked, for one row after the other: MIXED ones by identifier,
\* LEGACY ones as they come.
ExpireNext(c) ==
    /\ todo[c] = <<>>
    /\ \E o \in rows[c] :
         /\ o \notin Legacy => o = Least(rows[c])
         /\ rows' = [rows EXCEPT ![c] = @ \ {o}]
         /\ todo' = [todo EXCEPT ![c] = Inventory(Basket[o])]
    /\ UNCHANGED <<kind, held>>

\* Mutant: the locks of a transaction outlive it.
EndHolding(c) ==
    /\ kind' = [kind EXCEPT ![c] = "idle"]
    /\ todo' = [todo EXCEPT ![c] = <<>>]
    /\ rows' = [rows EXCEPT ![c] = {}]
    /\ UNCHANGED held

End(c) ==
    /\ kind' = [kind EXCEPT ![c] = "idle"]
    /\ todo' = [todo EXCEPT ![c] = <<>>]
    /\ held' = [held EXCEPT ![c] = {}]
    /\ rows' = [rows EXCEPT ![c] = {}]

Commit(c) == kind[c] # "idle" /\ todo[c] = <<>> /\ rows[c] = {} /\ End(c)

\* A check fails, or the client or the connection goes away between statements.
Refuse(c) == kind[c] # "idle" /\ ~ Waits(c) /\ End(c)

\* PostgreSQL ends one transaction of a circle, after deadlock_timeout.
Victim(c) == /\ \E S \in SUBSET Connections : c \in S /\ Deadlocked(S)
             /\ End(c)

OrderBegins(c) ==
    \/ ReplaceCart(c) \/ CreateOrder(c) \/ PlaceOrder(c) \/ Pay(c) \/ MoveOrder(c)
    \/ ChangeDraft(c) \/ LegacyCreate(c) \/ LegacyPlace(c) \/ Sweep(c)

CatalogBegins(c) ==
    \/ SaveCard(c) \/ ChangeCard(c) \/ SaveCategory(c) \/ DeleteMedia(c) \/ CleanUp(c)

UserBegins(c) == UpdateUser(c) \/ ConfirmUser(c) \/ EditUser(c)

Goes(c) == Grant(c) \/ PassOver(c) \/ NextStatement(c) \/ ExpireNext(c) \/ Commit(c)

Next == \E c \in Connections :
    \/ OrderBegins(c) \/ CatalogBegins(c) \/ UserBegins(c)
    \/ Goes(c) \/ Refuse(c) \/ Victim(c)

Spec == Init /\ [][Next]_vars

\* Another transaction is granted the row this one asks for.
Overtaken(c) == \E d \in Connections \ {c} :
    /\ Asks(c) /\ Grant(d)
    /\ Head(todo[d]).class = Head(todo[c]).class
    /\ Next1(d) = Next1(c)

\* Locks are queued: others are not granted for ever what a transaction stands and
\* asks for, also if they share it.
InTurn(c) == []<>~ Asks(c) \/ []<><<Goes(c)>>_vars \/ <>[][~ Overtaken(c)]_vars

\* A transaction that can go on does, and deadlock_timeout ends circles.
Fairness == \A c \in Connections : WF_vars(Goes(c)) /\ WF_vars(Victim(c)) /\ InTurn(c)

FairSpec == Spec /\ Fairness

-----------------------------------------------------------------------------
(* Properties *)

LocksTypeOK ==
    /\ todo \in [Connections -> Seq(Statement)]
    /\ held \in [Connections -> SUBSET Taken]
    /\ rows \in [Connections -> SUBSET Placed]
    /\ kind \in [Connections -> Handlers \cup {"idle"}]
    /\ \A c \in Connections : kind[c] = "idle" => todo[c] = <<>> /\ held[c] = {}
    /\ \A c \in Connections : kind[c] # "sweep" => rows[c] = {}
    /\ \A c \in Connections : \A i \in 1 .. Len(todo[c]) :
         kind[c] = "sweep" /\ todo[c][i].class = "placed" => todo[c][i].ids \subseteq Placed

\* Only what sweeps over several orders, or edits an account under LOCK TABLE
\* users, can be part of a circle of waiting transactions: everything else
\* takes its locks in one order, from keys over orders, users, carts, pets and
\* products to categories and images.
DeadlocksAreKnown ==
    \A S \in SUBSET Connections :
        Deadlocked(S) => \E c \in S : kind[c] \in {"sweep", "edit"}

\* Checkout, cancellation and expiry lock items in one order, and so never wait
\* for each other's items in a circle (docstring of inventory_locks).
ItemsInOneOrder ==
    \A S \in SUBSET Connections :
        Deadlocked(S) => \E c \in S : Head(todo[c]).class \notin {"pet", "product"}

\* Every transaction ends: those in a circle because one of it is ended, and no
\* lock is left behind that others would wait for.
TransactionsEnd == \A c \in Connections : kind[c] # "idle" ~> kind[c] = "idle"
=============================================================================
