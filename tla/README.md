# A specification of the pet store

TLA+ modules for the server under `src/petstore`: a FastAPI application over
PostgreSQL that sells products and pets. Orders, payments, carts and stock are
the part where mistakes cost goods or money and where requests of customers,
administrators and a background worker meet, so they are the core. Around it are
modules for accounts, repeated commands, images, row locks, the demonstration
catalogue, and for what one request may put into the database.

Paths below are relative to the repository; `api/`, `service/`, `data/`,
`controller/` and `model/` stand for directories of `src/petstore/`.

## 1. The system and its parts

| Component | State | Operations | Hard behaviour | What makes it correct |
|---|---|---|---|---|
| Mixed orders, `service/commerce_order_service.py`, `data/commerce_order_data.py` | `store_orders`, `order_lines` | create, place, approve, ship, deliver, cancel, expire, delete | place, pay, cancel and expire race for one order; several orders race for stock and pets | lines follow the status; reserves are never lost or released twice; version grows |
| Legacy orders, `data/order_data.py` | `store_orders` with `pet_id` | the same for one pet, plus update of a draft | competes with mixed orders for pets; rows from before payments existed | one active order per pet, of either kind |
| Payments, `data/payment_data.py` | `payments` | attempt, delete a declined attempt | retry with the same key; deadline; commit before an error | paid exactly when one attempt succeeded; refund only with cancellation |
| Carts, `service/cart_service.py` | `carts`, `cart_lines` | replace (placing an order empties it) | change between draft and order | a placed order is the current cart |
| Catalogue and pets, `service/catalog_service.py`, `data/pet_data.py`, `service/pet_tag_service.py` | `products`, `pets`, categories, galleries, tags | save, publish, adjust stock; create, update, delete a pet | changes under carts, drafts and reserves; two interfaces to one row of `pets` | stock covers reserves; a held pet stays reserved; what is public is complete |
| Expiry worker, `app.py` | none of its own | sweep of overdue orders, hourly cleanup of images | `SKIP LOCKED`, one transaction for many orders | an unpaid reservation ends |
| Accounts, `service/auth_service.py`, `data/user_data.py` | `users` | register, confirm, resend, log in, reset, block, edit, delete | check and write in different transactions; one-time codes; table lock; names that pass to other accounts | confirmed means usable; a revoked token stays revoked for its account; an administrator remains |
| Idempotent commands, `data/idempotency_data.py` | `api_idempotency`, advisory locks | replay, save | lost responses, changed retries, copies at the same time | a key acts once, answers are true |
| Media, `service/media_service.py` | `media`, files, a semaphore | upload, delete, removal of files, two cleanups | file and row in separate steps; crash; cleanup at any moment | a linked image has its row and files; leftovers go |
| Demo catalogue, `service/demo_catalog_service.py` | cards, pictures, a journal in a file | seeding at start | stop anywhere, two instances, a commit that looks like a failure | every card once, with its picture |
| Row locks and pool, `data/database.py` and every locking statement | PostgreSQL locks, ten connections | every transaction | lock order | deadlocks only where they are known, every transaction ends |
| Limiter and telemetry, `service/auth_service.py`, `controller/telemetry_controller.py` | counters in memory | login, reset, batches of events | check, slow comparison and count are separate; windows of time | bounded guesses and batches |
| Validation and request bodies, `service/validation_service.py`, `model/*.py`, `api/dependencies.py` | none, but what they let through | read, validate, hand over | partial updates; limits of pieces | an order goes to one address that was sent |

Requests reach the services through controllers, which check the role. Every
service method opens one transaction, locks the row it decides on with
`SELECT ... FOR UPDATE`, then the owner and the cart, then products and pets in
a fixed order, and rolls everything back when it raises. The worker thread calls
the same code as the requests. Nothing else is shared between requests but the
database, the files of images, and, in memory, the login limiter, the telemetry
window and the semaphore of image processing.

## 2. Modules

    ShopState              the tables, shared checks and row updates
      CartService          CartService.replace
      CatalogService       adjust_stock, save, publish, PetData.update_pet
      CommerceOrderService mixed orders; transitions of orders of both kinds
      OrderData            legacy orders
        PaymentData        payment attempts, on top of both
          Shop             initial state, clock, worker, specification, properties
            MCShop         symmetry sets for TLC
            ShopOrderProofs       TypeOK, OrdersAgree and what follows from it
              ShopCheckoutProofs  pets, payments, drafts, versions, refinement
    Warehouse              what orders promise about goods, abstractly

    Accounts               users: registration, reset, sessions, administration
      MCAccounts           instances for TLC
      AccountProofs        AccountsTypeOK and the other properties

    CommandLedger          what an Idempotency-Key promises
    IdempotentCommands     replay and save around carts and orders; implements it
      MCCommands, CommandProofs

    Media                  images: files, rows, links, cleanups
      MCMedia, MediaProofs
    Seeding                the demonstration catalogue
      MCSeeding, SeedingProofs
    RowLocks               the locks of every handler, in order
      MCLocks, LockProofs

    Limits                 login limiter, telemetry window
    Profiles               delivery profiles and what orders copy
    Cards                  products and pets against their publication, tags
      Requests             bodies of requests, in front of all three
        MCRequests, RequestProofs

Each module is named for the class it models, and each action for the method.
`Legacy...` marks the actions of `OrderData` whose mixed namesake exists.
`Requests` composes three modules that share nothing but the requests that
drive them; the shop's modules share all their tables.

### State

One variable per table, keyed by identifier. A row that does not exist is the
constant row `NoOrderRow`, `NoLine`, `NoPayment`. A deleted order's identifier
may be used again: nothing in the database remembers it, and the reuse keeps
`Orders` finite.

| Variable | Code |
|---|---|
| `storeOrder[o]` | `store_orders`: kind, owner, status, payment status, version, cart version, pet; `late` stands for `payment_expires_at <= now` |
| `orderLine[o][i]` | `order_lines`: quantity, unit price, allocation |
| `payment[k]` | `payments`, by `idempotency_key`: order and status |
| `product[p]`, `pet[q]` | `stock` and `reserved`; `status` |
| `card[i]` | `publication_status` and `price` of products and pets |
| `cart[u]`, `cartLine[u][i]` | `carts.version`; `cart_lines`: quantity and price snapshot |

`Accounts` has one row per account, `account[u]`, with its user name and the
state of its two one-time codes. A name is unique among the rows that exist; it
becomes free with a deletion or a renaming and may then be registered, or given
to another account, again. Its other variables say what requests under way know:
the reset codes they have looked up (`resetting`), the accounts that have passed
`authorize` as administrators (`admins`), the rows `set_blocked` has read
(`targets`) and the edit that holds the table lock (`edits`). Nothing is removed
from the first three, so that any number of requests may hold the same knowledge
and use it at any later time. `issued`, `applied` and `tokens` record what has
been sent to clients and what they have done with it. A token is the name, the
role and the version it carries (`token_service.py`); `user`, the account it was
issued to, is history that no action reads.

### Actions

A handler that succeeds is one atomic step: it holds the lock of every row it
reads and writes from its first check to its commit. A handler that raises
leaves no trace, because the connection context rolls back, and is not a step.
`create_payment` is the exception: it commits an expiry before its 410 and a
declined attempt before its 402, and these are the actions `PayTooLate` and
`PayDeclined`.

* `transition` first expires an overdue order. If it does, the version or the
  status check then fails and the expiry is rolled back, so the transitions are
  guarded by `~Overdue`. `delete_order` expires and, for an administrator, goes
  on to delete in the same transaction: `LegacyDelete` does both.
* `place_draft` expires the overdue legacy orders of its pet and then takes the
  pet: `LegacyPlace` does both. The mixed `place` calls `expire()` in a
  transaction of its own before it starts, which is a sweep.
* A sweep handles any set of overdue orders, those that no other transaction has
  locked. Orders do not share lines, so a set is a sequence of single orders:
  `ExpireMixed`, `ExpireLegacy`.
* Reads (`get`, `find_all`) change nothing themselves; the sweep they start is
  the same action.
* Version numbers sent by clients are left out of the guards: a client may know
  the current version, or it is refused. What matters is that the versions grow,
  which is a property.
* Roles are checked in the controllers and services; the actor of each action
  ranges over all users and the guard keeps the authorized ones.

`Accounts` differs where the code does. `reset_password` and `set_blocked` read
and write in two transactions, so `ReadReset`, `Reset` and `ReadTarget`,
`SetBlocked` are separate actions; the conditions of the UPDATE are the guard of
the second. `authorize` is a transaction of its own before each administrative
command, so `Authorize(t, u)` is an action and its result may be outdated: it
finds the account `u` that bears the name in the token `t`, whichever account
the token was issued to. `update_user_as_admin` is one transaction, but what
makes its COUNT right is the table lock, so it is split as well (`BeginEdit`,
`CommitEdit`) and every other writer waits (`TableFree`). `confirm`, `resend`
and `delete` check under the row lock and are atomic.

### The modules around the shop

`IdempotentCommands` takes the transactions of the shop apart where a repeated
request can come in between: a handler waits for the advisory lock of its key
(`TakeKey`), then changes rows and saves the result in one commit
(`ReplaceCart`, `CreateOrder`, `PlaceOrder`), then answers (`Respond`). It may
die before any of these (`Crash`). Clients repeat every request they have ever
sent. An order may be placed by its owner or by an administrator (`Permitted`),
and it is the owner's cart that is compared and emptied (`CartOwner`). Roles may
change between two copies of a request: `Admins` are administrators all the time
or for a time, so one of them may also be refused with `FORBIDDEN`, and that
refusal is not final. `effects` remembers what was committed and `refused` the
requests with a stale version or a used key.

`Media` has one step for every write of a file and every commit. Handlers that
lock rows of `media` and check them first have a step for the locks (`BeginSave`,
`BeginOrder`) and one for the commit; `Locked` is what they hold meanwhile.
`remove_files` runs outside of any transaction and may run twice for one image:
`removers[i]` is the set of next steps of all its calls. `InsertMedia` may
commit and still look like a failure.

`Seeding` follows one starting instance through `populate_demo_catalog`, all in
one transaction, while files and the journal do not roll back. Instances share
the journal, wait for the advisory lock, and stop anywhere. Administrators of a
running instance take the picture of a card away or put it back (`TakePicture`,
`PutPicture`) and delete pets (`DeletePet`). A card whose picture is gone is
still in `cards`, but not in `shown`, and `Recovered`, which joins pictures and
cards, does not see it. `changed` remembers whose picture was ever taken.

`RowLocks` says of each handler which rows it locks in which order
(`Begin` with a list of statements), and leaves out what it reads and writes. A
transaction may give up wherever it does not wait, which stands for every check
that fails. `Victim` is PostgreSQL ending one transaction of a circle.

`Limits`, `Profiles` and `Cards` are reached through `Requests`, which reads a
body piece by piece (`Arrive`, `ReadChunk`), refuses it or hands it over. A
login then goes on in its thread (`AdmitLogin`, then `FailLogin` or
`PassLogin`), with the time it took at its beginning.

### What is abstracted

Money is compared, not added: the checkout rejects a line whose price differs
from the card's, and totals follow from lines. In the shop the delivery profile
is complete or not for the whole run (`Profiled`); how it becomes complete is in
`Profiles`. Names and descriptions do not influence orders, nor does the audit
of stock. Card data is reduced to the outcome of the attempt. `quantity` of a
legacy order only multiplies its price.

In `Accounts` e-mail addresses are left out, except that an edit may replace one
and then discards the codes; so the model does not say which address a code was
sent to. A deleted row's identifier is not used again, as the identity column
does not. What users change about themselves is in `Profiles`. Passwords are
left out too: `Login` and `ResendConfirmation` are requests with the right one.
A confirmation link is the last one sent, an older one is refused. The
demonstration account that migrations protect is in `Protected`. Orders may
forbid a deletion; here it is always possible, which allows more.

In `IdempotentCommands` an order stops at "placed" and goods are reduced to a
refusal that may always happen. Deleting an order, which also happens in the
shop, is left out, and so is the expiry: neither uses keys.

In `Media` each image is uploaded once (its UUID is new), a day passes only when
no upload is under way, since none lasts that long, and the `LIMIT 100` of the
cleanup is left out: the hourly repetition reaches the rest. Serving an image
only reads.

In `Seeding` a card, the row of the picture it is created with, and the files of
that picture go by one identifier. Administrators show that picture on no other
card, and deleting a product is not possible in the code. The progress an
instance makes between two steps is not seen by others.

In `RowLocks` identifiers are numbers in the order of the UUIDs. Drafts and
placed orders are fixed sets: a transaction that finds the other status refuses,
which is always possible. A connection opens no second one.
Foreign keys lock the row they refer to `FOR KEY SHARE`, which is left out: it
conflicts only with `FOR UPDATE`, and where the code takes that the transaction
has locked the row before. Rows of `users` are locked `FOR NO KEY UPDATE`; a
deletion or a renaming takes more, but waits for nothing after it.

In `Requests` there is one e-mail address, one profile, one product and one pet,
whose requests do not depend on each other. Both clocks of the process are one.
"street" stands for the four columns that are required together. Every error
that is answered with 400, 413, 415 or 422 is `Refuse`.

## 3. What is checked

| Run | Instance | Properties |
|---|---|---|
| `checkout` | 2 users (one administrator), 2 mixed orders, 1 product, 1 pet, 2 payment keys | `TypeOK`, `OrdersAgree`, `ReservedIsSumOfLines`, `PaymentsAgree`, `DraftMirrorsCart`, `MixedVersionGrows` |
| `contention` | 2 orders of any kind, one of them perhaps older than payments, 2 pets, 1 product, 1 key, manual status changes, fairness | `EndingsNeverFail`, `DeadlineDecides`, `PetHeldOnce`, `PetReservedIffHeld`, `RefundIsCancellation`, `WarehouseSpec`, `ReservationEnds` |
| `catalogue` | 1 order, product and pet with changing price, publication, stock and status | `PlacedIsCart` |
| `accounts` | the first administrator and two accounts that may register, two names, two tokens, two reset codes | `AccountsTypeOK`, `AdminRemains`, `ResetsInOrder`, `OnlyConfirmedAct`, `SessionsNeverReturn` |
| `commands` | a customer and an administrator, 2 orders, 2 keys with one lock, 2 handlers, cart versions up to 3, fairness | `CommandsTypeOK`, `OncePerKey`, `SuccessesHappened`, `RefusalsAreFinal`, `CartVersionsUsedOnce`, `NoCopyFails`, `WaitersAreServed`, `LedgerSpec` |
| `media` | 1 image, product, pet, category, order and permit, fairness | `MediaTypeOK`, `LinkedIsServed`, `PublishedHasImage`, `PublishedUnderActive`, `NothingLeaks` |
| `seeding` | 2 instances, a package of a product and a pet, 4 identifiers; instances and identifiers are symmetric | `SeededOnce`, `CardsKeepTheirFiles`, `CompletedIsWhole` |
| `locks` | 3 connections, a draft, 2 mixed and a legacy order over a pet and a product, fairness | `DeadlocksAreKnown`, `TransactionsEnd` |
| `requests` | 2 requests at a time, 4 in all, limits of 1 or 2 | `LimitsHold`, `DeliveryIsOneAddress`, `CardsStayValid` |
| `versions` | 2 legacy orders | `VersionGrows`, violated |
| `blocking` | the first administrator and the demonstration account | `StatusFits`, violated |
| `deadlock` | 2 connections, a draft, 2 mixed and a legacy order over 2 pets and a product | `ItemsInOneOrder`, violated |

`checkout` asks whether rows agree after any sequence of mixed-order commands;
two orders of two users are enough for every conflict over stock, pet, cart and
key, and two keys for a decline before or beside a success. `contention` lets
both services compete: one order takes the pet of another that it expires, an
order from before payments is approved unpaid, and the second pet lets a legacy
draft change its choice. `catalogue` spends its states on the changes of cards
rather than on the number of orders. `accounts` has two accounts that can both
become administrators, the least number with which the last one can be lost, and
a third one, which takes over a name that is given up: in this run a token whose
account was deleted, or renamed, does open the third account once that bears the
name with the same role and version. An account uses two codes, an older and a
newer one, and accounts do not share codes, so only one forgets its password
(`Forgetful`). `commands` gives both keys to the customer and lets them share a
lock, the worst that hashing can do: copies of a request, two requests with one
key, and two keys of one command all meet in two handlers. The administrator
uses a cart as well and places the customer's order, with the customer's key,
which is another key to the server, while the customer may place it too. `media`
needs one image, because images only meet in galleries, whose links are
independent; a product and a pet share it, and an order copies it. Two cards
show in `seeding` a run that stops between cards, and four identifiers allow
each of them a second try. The run reaches a pet that is created again after it
was deleted, and two cards for one entry of which the first has lost its
picture. `locks` needs three connections: two transactions that share a row by
turns can keep a third from having it alone, which two connections cannot show.
For all handlers that would be too many states, so `Serves` gives one connection
nearly all of them and the other two those that meet it at each kind of lock.
Two orders that hold the product and the pet let a sweep take them in the wrong
order. In `deadlock` both connections serve all handlers, one order of items
fits inside another, and the legacy order shares a pet with a mixed one.
`requests` draws bodies, profiles and cards that differ in what their checks
look at.

Deadlock is checked in every run but five. In `accounts` the watched tokens
may be used up while no administrator holds one; names and codes are used up as
well, and then no action is left. `commands` stops when all
requests are answered and no order is left to open, `media` and `seeding` when
their identifiers are used up, `requests` when its number is.

`versions`, `blocking` and `deadlock` fail on purpose: see section 6.

### Bounds

`MaxQuantity` (1 or 2 units a line), `MaxCartVersion` (a cart is replaced up to
version 3, which allows a draft, a change behind it, and an order), `Stocks` and
`StockLevels` (initial stock and corrections, chosen so that two orders together
want more than there is), `MaxStock` (the code's 1000000, 3 in the runs, reached
by the corrections), `Prices`, `Repriced`, `Targets` and `PetStatuses` (which
changes administrators try), `Kinds` (which kinds of orders clients open).
`StockLevels`, `Targets`, `Repriced`, `PetStatuses` are empty or narrow where a
run is about something else. Order versions need no bound: an order takes at
most six steps. `MaxCodes` bounds the reset codes sent to an account,
`Forgetful` the accounts they are sent to, `Managed` the accounts that
administrators edit and block, `Names` the user names, `MaxTokens` the tokens
that are watched, and `MaxTokenVersion` the changes that end the sessions of an
account: two are enough for a token to be refused and, if it could, to be
accepted again, and for a name to go to an account that has reached the version
of its former bearer. In `IdempotentCommands`, `MaxVersion` bounds the versions
of a cart and `Asked` the requests; the second key is kept for a second draft of
the customer's cart, all else uses the first or none; the administrator replaces
a cart without a key and places the customer's order with the first. In
`Requests`, `MaxRequests` and `MaxClock` bound how much an instance is watched,
`Sent`, `ProductCommands`, `PetCommands` and `Chunks` what comes; with one batch
a window, four requests exceed twice the limit by one. Everything that is proved
(section 5) holds without these bounds.

### Fairness

`DeadlinePasses` is weakly fair because time passes. `Sweep(o)` is weakly fair
because the worker wakes up every `expire_interval` seconds (`app.py`), catches
every exception and tries again. It skips an order that is locked at that
moment; transactions are short, and once the order is overdue each of them
either ends it or leaves it overdue. `EndingsNeverFail` says that the sweep
never meets rows on which it raises, so it is possible whenever an order is
overdue. A deployment that sets `expire_interval` to
0 has no worker and relies on the sweeps that reads start. No client is ever
obliged to do anything, so nothing else is fair. Because the sweep is one
transaction, an order whose release fails would stop the others as well, and so
`EndingsNeverFail` is about every order that is placed, overdue or not.

In `IdempotentCommands` a transaction that runs ends (`WF` of `Finish`) and the
lock queue of PostgreSQL passes no waiter over for ever (`SF` of `TakeKey`);
handlers may still die at any time. In `Media` days pass, the worker comes every
hour, is not always stopped before it claims what it has found (`SF`), and a
file that cannot be removed can be removed some day (`SF` of `Unlink` and
`MarkRemoved`), since `cleanup` repeats all removals that have not succeeded; no
upload is obliged to come. In `RowLocks` a transaction that can go on and is not
stopped does (`WF` of `Goes`), `deadlock_timeout` ends circles (`WF` of
`Victim`), and a row that a transaction asks for is not for ever granted to
others (`InTurn`). For tables and advisory locks PostgreSQL keeps a queue. For a
row it queues those who want it alone; those who share it (`FOR SHARE` of a
category) may overtake one who wants to change it, and `InTurn` assumes that they
leave a gap some day, as transactions of a few milliseconds do.

## 4. Refinement

`Warehouse` says what a warehouse would want from a shop: an order claims
everything it asks for or nothing, out of what is free; it gives back exactly
what it claimed, once, or sells it, once; of a pet there is one. It knows no
statuses, payments, deadlines or lines. `Shop` implements it under the mapping
`free` = stock minus reserved, or an available pet; `claim` = what an active
order holds; `sold` = the delivered orders. A legacy order that takes over the
pet of the one it expires is the step `TakeOver`.
The mapping hides that paid products leave `stock` and `reserved` together,
that pets wait for delivery, and that two services write the same rows.

`CommandLedger` says what a key promises: of all requests with one key for one
operation one takes effect, and only its result is told. `IdempotentCommands`
implements it (`LedgerSpec`) with `entries` the committed changes, each with its
command, and `told` those a living handler is reporting. The mapping hides
locks, saved rows, waiting and crashes.

## 5. What is proved

TLAPS checks the following for every value of the constants that satisfies the
named assumptions of the modules. These only say that identifiers are distinct
from the absent ones, that products and pets are disjoint, that bounds are
numbers and some sets finite, that the drawn inputs have their types, and that
the keys of the package are unique (`load_package`).

* `TypeInvariant`: `Spec => []TypeOK`. It is inductive as it stands. The part
  that could fail is `reserved <= stock`: placing and correcting stock keep it
  by their checks, payment because the units it takes from both are reserved.
* `OrdersAlwaysAgree`: `Spec => [](OrdersAgree /\ CartsOK)`. `OrdersAgree`
  describes one order row with its lines (`RowOK`). It is inductive together
  with `CartsOK`, which says that carts hold at most one of a pet, because order
  lines are copied from the cart. Each action changes one order, except the
  legacy placing, so lemmas about one changed row carry most cases.
* `AllocationInvariant` follows from it: the allocation of every line is the one
  that the status of its order asks for.
* `ReservedColumn`: the `reserved` column of a product is the number of reserved
  units of all orders. The property counts units, which are triples of order,
  product and number, so that one changed order takes a set of units away or adds
  one, and no sum has to be proved by induction; the set of orders may be
  infinite. Lines of different orders have different units.
* `EndingsInvariant`: cancelling, expiring and paying never meet rows on which
  they raise. It needs the count above (the reserves of one order are a part of
  the column), the settlement of payments, and `OrdersAgree`.
* `DeadlineProperty`: after its deadline an order is left alone, expired or
  deleted, and nothing else expires. Each step is compared with the order's row
  before it.
* `ReservationsEnd`: every unpaid reservation ends. A sweep of an overdue order
  is possible because of `EndingsInvariant`, an order stays overdue until it ends
  (`DeadlineStep`), and time makes it overdue.
* Pets: `PetReservedInvariant`, `PetHeldOnceInvariant`. The two are inductive
  only together: a pet that is freed must not be held by another order, and one
  that is taken must not be held already.
* Payments: `PaymentsInvariant`, `RefundProperty`. `PaymentsInv` states the
  settlement of each order by itself, so that a step which changes one order or
  one payment leaves the others as they are.
* Carts: `DraftInvariant`, `PlacedProperty`. `DraftsInv`: a draft was made of a
  version of the cart that is not ahead of it, and if it is the same version the
  lines are the same. Placing compares the versions, so it buys the cart.
* `MixedVersionProperty`: the version of a mixed order grows with each change.
* `WarehouseTheorem`: `Spec => WarehouseSpec`. `FreeMeans` and `ClaimMeans` read
  the mapping off the rows, with `TypeOK`, `OrdersAgree` and `PetsInv` in the
  state and in the next; one lemma for each kind of step of `Warehouse` says when
  it is taken, and one for each action of `Shop` which kind it is, or none.
* Accounts: `AccountsTypeInvariant`, `AdministratorInvariant`,
  `ConfirmedInvariant`, `ResetInvariant` and `SessionsProperty`, which are all
  the properties that hold. None of the last four is inductive: `IInv` adds what
  a request may still rely on. `TargetsOK`: an account that was confirmed when
  it was read still is, or is deleted. `EditsOK`: under the table lock the
  checks of the edit stay true. `TokensOK`: a token as new as the account it was
  issued to describes it, name included; as every edit, block and reset makes
  the account newer, and a deletion ends it, `SessionsProperty` follows. It
  speaks of that account only. `NamesOK`, a part of the type invariant, says
  that no two rows bear one name, with the open edit or without it, so that
  `authorize` finds one account. `CodesOK`: an open code is newer than all
  applied ones. The proof goes through `LiveStep`, what every action does to a
  row, so that most invariants are shown once for all actions.
* Commands: `CommandsTypeInvariant`, `OncePerKeyInvariant`, `SuccessInvariant`,
  `NoCopyFailsInvariant`, `RefusalsInvariant`, `CartVersionsInvariant` and
  `LedgerTheorem`. The strengthening relates the tables to the handlers: saved
  results are exactly the keyed effects, and a handler that runs with a key
  holds its lock and has found no saved result for it, which nobody else can
  save meanwhile. The lock belongs to the hash of the key, so the argument does
  not need different keys to have different locks. Refusals are final because
  what a handler compared never turns back: versions grow, a placed order stays
  placed, a saved row stays. A version of a cart is used once because what an
  effect used lies behind the cart of the owner, whoever sent the request: a
  placed order remembers the version it was made from, and its owner never
  changes. For `LedgerTheorem` each step of a handler tells, forgets, takes
  effect (`CommitStep`) or is not seen (`QuietStep`). `WaitersServed`: a request
  that waits for a key is served. The lock passes from hand to hand only by way
  of nobody, and a holder ends or dies, so the lock is free again and again.
* Locks: `LocksTypeInvariant`, `DeadlocksAreKnownInvariant`. The invariant says
  that what a handler still asks for comes after all it holds, in the order of
  `ClassRank` and of identifiers, unless it sweeps or edits. In a circle of
  others the transaction that holds the greatest lock would wait for a greater
  one. `NoStandstill` draws the conclusion for the whole shop: if transactions
  are open and all of them wait, they are a circle, a sweep or an edit is in it,
  and PostgreSQL ends it.
* Requests: `LimitsInvariant`, `DeliveryInvariant`, `CardsInvariant`. For the
  logins: the counter reaches the limit only when it blocks, so those being
  checked at that moment are all that may still count. For the batches: those of
  the window are the last `count` of the history, and those a limit earlier are
  a window older.
* Media: `MediaTypeInvariant`, `LinkedInvariant`, `PublishedInvariant`,
  `CategoryProperty`. `HeldServed` extends the first property to the rows that a
  transaction holds and may still link. `FilesInv` says why the files of a live
  row are there: an upload writes both before the row, it is too young for the
  cleanup of orphans until it has answered, and files are removed of deleted
  rows only. `SavesInv`: the category that a save holds in share mode is still
  active, and a published card is saved as one that may be published.
  `LeftoversGo`: every picture that nobody can use loses its row and its files.
  `RemovalInv` says that an image the worker has found or somebody has deleted
  is not being uploaded any more, so that its files only become fewer, and which
  files are gone at each step of a removal. A deleted row goes by the removals
  (`WasteGoes`), a row nobody was told of first grows old (`LostGoes`), and files
  without a row go as orphans (`StrayGoes`).
* Seeding: `SeededOnceInvariant`, `SeedFilesInvariant`, `CompletedInvariant`.
  `LockInv` makes the open transaction the only one, `RunInv` says that its
  pictures are for entries it has passed, one for each and none for an entry
  that has a card whose picture was never taken (`CardInv`), and `EntryInv` that
  what it remembers of those entries is true or will be with the commit. Both
  need the keys of a package to be unique, which `load_package` checks.

The prover does not know `ENABLED`. `ReservationsEnd`, `WaitersServed` and
`LeftoversGo` therefore assume fairness with the guard of an action in its place
(`TimePasses`, `WorkerTurns`, `HandlersFair`, `WorkerFair`): "again and again
the guard is false, or the action is taken again and again", and for `SF` "the
guard is false for ever, or ...". Where the guard is exactly the condition under
which the action is possible this says the same as `WF` or `SF`. For the sweep
that is what `EndingsInvariant` adds to `Overdue`. The exception is `DayPasses`,
whose guard is that one upload has ended and is still young, while in the model
a day waits for all uploads: it assumes in addition that uploads end, which
`FairSpec` states by `WF` of `UploadStep`, and which is enough for finitely many
images because an image is uploaded once.

Model-checked only: `TransactionsEnd`. The argument goes down the graph of
waiting transactions and the statements each has left, an induction over data
that this prover cannot do; `NoStandstill` is the part of it that needs none.

## 6. Findings

`VersionGrows`: the optimistic version that `CommerceOrderService.transition`
compares does not change when `OrderData` places, approves, ships, delivers,
cancels or expires a legacy order, although that method accepts legacy orders
and the API describes the version as the protection of lifecycle actions. For
mixed orders the property holds (`MixedVersionGrows`).

`StatusFits`: between the read and the write of `set_blocked` an account can
change. An active one that is promoted stays `ACTIVE`; the write blocks an
administrator, whom `set_blocked` refuses to unblock. A blocked one that
confirms its address stays `BLOCKED`; the write stores `PENDING`, and the account
can neither log in nor confirm until it is blocked and unblocked again. Deciding
under the row lock, as `confirm` does, would be enough.

`ItemsInOneOrder`: `inventory_locks` locks the items of one order in one order,
and its docstring promises this for checkout, cancellation and expiry. A sweep
expires several orders in one transaction and calls it for each, so it can hold a
later item while it asks for an earlier one, and wait in a circle with a checkout
that wants both. PostgreSQL ends one of the two after `deadlock_timeout`: an
internal error for the client, or a sweep that is repeated. `DeadlocksAreKnown`
shows that sweeps and the edit of accounts under `LOCK TABLE` are the only ones
that can start this, and `TransactionsEnd` that all transactions end even so.

## 7. Not modelled, and what could follow

* The UPDATE of a user's own profile names the account by its user name.
  `Profiles` has one account, so it does not show what happens when a name is
  renamed between `authorize` and that UPDATE.
* What a bearer of a name may do with a token of the former bearer is not
  judged: `SessionsNeverReturn` is about the account a token was issued to. The
  code keeps no identifier in a token, `token_version` begins at 0 for a new
  row, and a token that was refused after a deletion is accepted for the next
  account with that name and role while it counts the same version. The
  `accounts` run contains it.
* Two cards for one entry: an instance that is still starting creates a card
  again when an administrator has taken its picture, and a pet that was deleted.
  Both are in the `seeding` run. `SeededOnce` excuses the first by `changed`;
  the second leaves one card, and no property forbids it.
* The limits of request bodies (`Fits` in `Requests`) are guards of the model
  and not stated as a property.
* A price of 0 for a pet passes validation and is refused by the database.

Left out for good, because they hold no state that several actors change: the
formats of single values (lengths, patterns, e-mail addresses, the Luhn test of
cards), mail transport, declarations of HTTP routes and the shape of responses,
searches, configuration and the web client.
