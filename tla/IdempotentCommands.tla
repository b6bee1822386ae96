-------------------------- MODULE IdempotentCommands --------------------------
(***************************************************************************)
(* Commands that clients may repeat (IdempotencyData and its callers).     *)
(* A response may be lost with its connection and the server may stop, so  *)
(* a client repeats a request, and copies of it, or of another request     *)
(* with the same key, are handled at the same time.  A handler waits for   *)
(* the advisory lock of its key, looks for a saved result, and changes     *)
(* the rows, whose locks it takes only then, together with saving its own. *)
(* Orders stop at "placed": Shop has the rest of their life.               *)
(***************************************************************************)
EXTENDS Naturals, FiniteSets

CONSTANTS
    Users,
    Admins,         \* the users who are administrators, all the time or for a time
    Orders,         \* identifiers of orders
    Keys,           \* values of the header Idempotency-Key
    NoKey,          \* the header is missing
    Baskets,        \* what a client may put into a cart
    Empty,          \* no lines
    Handlers,       \* requests the server works on at the same time
    Nobody,         \* holds a lock that is free
    AdvisoryKey,    \* advisory_key: two keys may share one lock
    Asked,          \* bound: the requests clients send
    MaxVersion      \* bound: the version of a cart; requests name lower ones

Locks == {AdvisoryKey[k] : k \in Keys}

ASSUME CommandsAssumption ==
    /\ Admins \subseteq Users
    /\ Nobody \notin Users
    /\ NoKey \notin Keys
    /\ Empty \notin Baskets
    /\ Orders \cap Baskets = {} /\ Empty \notin Orders
    /\ Nobody \notin Handlers
    /\ DOMAIN AdvisoryKey = Keys
    /\ MaxVersion \in Nat \ {0, 1}

VARIABLES
    cart,           \* carts and cart_lines, by user
    order,          \* store_orders
    saved,          \* api_idempotency: user, operation and key are its primary key
    lock,           \* holders of the advisory locks
    pc,             \* what each handler does
    request,        \* the request it works on
    answer,         \* the response it has prepared
    effects,        \* every committed change: the request and its result
    refused         \* the requests with a key that were refused for good

shopVars == <<cart, order, saved, effects>>
vars == <<cart, order, saved, lock, pc, request, answer, effects, refused>>

-----------------------------------------------------------------------------
\* A request.  "arg" is the new contents or the order to place.

Versions == 1 .. MaxVersion - 1

CartRequest == [op : {"cart:replace"}, user : Users, key : Keys \cup {NoKey},
                version : Versions, arg : Baskets]
CreateRequest == [op : {"order:create"}, user : Users, key : Keys,
                  version : Versions, arg : {Empty}]
PlaceRequest == [op : {"order:place"}, user : Users, key : Keys,
                 version : {1}, arg : Orders]
Requests == CartRequest \cup CreateRequest \cup PlaceRequest

ASSUME AskedAssumption == Asked \subseteq Requests

NoRequest == [op |-> "none", user |-> Nobody, key |-> NoKey, version |-> 0, arg |-> Empty]

Command(r) == [op |-> r.op, user |-> r.user, key |-> r.key]
Commands == [op : {"cart:replace", "order:create", "order:place"},
             user : Users, key : Keys]

\* digest: what two requests with one key must have in common.
Payload(r) == [version |-> r.version, arg |-> r.arg]

Results == (2 .. MaxVersion) \cup Orders
Refusals == {"CONFLICT", "KEY_REUSED", "FORBIDDEN", "UNAVAILABLE", "ERROR"}
OK(x) == [ok |-> TRUE, result |-> x]
Refused(why) == [ok |-> FALSE, result |-> why]
FinalRefusals == {"CONFLICT", "KEY_REUSED"}
NoAnswer == Refused("none")
Answers == [ok : {TRUE}, result : Results]
               \cup [ok : {FALSE}, result : Refusals \cup {"none"}]

Effect == [request : Requests, result : Results]

\* A client names only versions and orders it has seen.
Seen(r) == IF r.op = "order:place" THEN order[r.arg].status # "absent"
           ELSE r.version <= cart[r.user].version

Init ==
    /\ cart = [u \in Users |-> [version |-> 1, content |-> Empty]]
    /\ order = [o \in Orders |-> [status |-> "absent", owner |-> Nobody,
                                  cartVersion |-> 0, version |-> 1]]
    /\ saved = {}
    /\ lock = [l \in Locks |-> Nobody]
    /\ pc = [h \in Handlers |-> "idle"]
    /\ request = [h \in Handlers |-> NoRequest]
    /\ answer = [h \in Handlers |-> NoAnswer]
    /\ effects = {}
    /\ refused = {}

-----------------------------------------------------------------------------
(* A handler, from the request to the response *)

Receive(h, r) ==
    /\ pc[h] = "idle"
    /\ Seen(r)
    /\ pc' = [pc EXCEPT ![h] = IF r.key = NoKey THEN "running" ELSE "waiting"]
    /\ request' = [request EXCEPT ![h] = r]
    /\ UNCHANGED <<shopVars, lock, answer, refused>>

SavedFor(r) == {s \in saved : s.command = Command(r)}

\* Mutant: a saved result answers any request with its key.
AnswerSaved(r, s) == OK(s.result)

\* The stored result, only for the request it was stored for.
Replayed(r, s) ==
    IF s.payload = Payload(r) THEN OK(s.result) ELSE Refused("KEY_REUSED")

\* Mutant: no advisory lock.
LockIgnored(l) == TRUE

LockFree(l) == lock[l] = Nobody

\* replay: the advisory lock, and the row it protects.
TakeKey(h) ==
    LET r == request[h] IN
    /\ pc[h] = "waiting"
    /\ LockFree(AdvisoryKey[r.key])
    /\ lock' = [lock EXCEPT ![AdvisoryKey[r.key]] = h]
    /\ \/ /\ SavedFor(r) = {}
          /\ pc' = [pc EXCEPT ![h] = "running"]
          /\ UNCHANGED <<answer, refused>>
       \/ \E s \in SavedFor(r) :
             /\ answer' = [answer EXCEPT ![h] = Replayed(r, s)]
             /\ refused' = IF Replayed(r, s).ok THEN refused ELSE refused \cup {r}
             /\ pc' = [pc EXCEPT ![h] = "ending"]
    /\ UNCHANGED <<shopVars, request>>

\* Mutant: a session lock, which outlives its transaction.
KeepLocks(h) == UNCHANGED lock

\* Transaction locks end with the transaction, however it ends.
Release(h) == lock' = [l \in Locks |-> IF lock[l] = h THEN Nobody ELSE lock[l]]

\* assert_access: the order belongs to the sender, or the sender was ADMIN when
\* the request was authorized.
Foreign(r) == r.op = "order:place" /\ order[r.arg].owner # r.user
Permitted(r) == Foreign(r) => r.user \in Admins

\* The cart that a request uses up: an order is placed from the cart of its owner.
CartOwner(r) == IF r.op = "order:place" THEN order[r.arg].owner ELSE r.user

\* Mutant: the version of the cart is not compared.
StaleContent(r) == IF r.op = "order:create" THEN cart[r.user].content = Empty
                   ELSE r.op = "order:place" /\ order[r.arg].status # "draft"

\* What the handlers compare under the locks of the rows they change.
Stale(r) ==
    IF r.op = "order:place"
    THEN \/ order[r.arg].version # r.version
         \/ order[r.arg].status # "draft"
         \/ order[r.arg].cartVersion # cart[CartOwner(r)].version
    ELSE \/ r.version # cart[r.user].version
         \/ r.op = "order:create" /\ cart[r.user].content = Empty

\* The INSERT of save fails on its primary key.
Duplicate(r) == r.key # NoKey /\ SavedFor(r) # {}

Runs(h, op) == /\ pc[h] = "running"
               /\ request[h].op = op
               /\ Permitted(request[h])
               /\ ~Stale(request[h])
               /\ ~Duplicate(request[h])

\* Mutant: the result is saved after the commit, and the save is lost.
Forget(r, x) == UNCHANGED saved

Save(r, x) ==
    IF r.key = NoKey THEN UNCHANGED saved
    ELSE saved' = saved \cup {[command |-> Command(r), payload |-> Payload(r), result |-> x]}

\* The change, its saved result and the release of the locks commit together.
Commit(h, x) ==
    /\ Save(request[h], x)
    /\ effects' = effects \cup {[request |-> request[h], result |-> x]}
    /\ answer' = [answer EXCEPT ![h] = OK(x)]
    /\ pc' = [pc EXCEPT ![h] = "done"]
    /\ Release(h)
    /\ UNCHANGED <<request, refused>>

ReplaceCart(h) ==
    LET r == request[h] IN
    /\ Runs(h, "cart:replace")
    /\ cart' = [cart EXCEPT ![r.user] = [version |-> @.version + 1, content |-> r.arg]]
    /\ UNCHANGED order
    /\ Commit(h, cart[r.user].version + 1)

\* The draft remembers the version of its cart, which stays as it is.
CreateOrder(h, o) ==
    LET r == request[h] IN
    /\ Runs(h, "order:create")
    /\ order[o].status = "absent"
    /\ order' = [order EXCEPT ![o] =
                    [@ EXCEPT !.status = "draft", !.owner = r.user, !.cartVersion = r.version]]
    /\ UNCHANGED cart
    /\ Commit(h, o)

\* Mutant: the cart is emptied under its old version.
EmptiedQuietly(c) == [c EXCEPT !.content = Empty]

Emptied(c) == [version |-> c.version + 1, content |-> Empty]

PlaceOrder(h) ==
    LET r == request[h] IN
    /\ Runs(h, "order:place")
    /\ order' = [order EXCEPT ![r.arg].status = "placed", ![r.arg].version = @ + 1]
    /\ cart' = [cart EXCEPT ![CartOwner(r)] = Emptied(@)]
    /\ Commit(h, r.arg)

\* A refusal rolls everything back: nothing is saved for it.
Refuse(h, why) ==
    /\ answer' = [answer EXCEPT ![h] = Refused(why)]
    /\ pc' = [pc EXCEPT ![h] = "done"]
    /\ refused' = IF request[h].key # NoKey /\ why \in FinalRefusals
                  THEN refused \cup {request[h]} ELSE refused
    /\ Release(h)
    /\ UNCHANGED <<shopVars, request>>

\* Goods or the profile may stop an order before or after that comparison.  An
\* administrator for a time may be refused like any other user.
Fail(h) ==
    LET r == request[h] IN
    /\ pc[h] = "running"
    /\ \/ Foreign(r) /\ Refuse(h, "FORBIDDEN")
       \/ /\ Permitted(r)
          /\ \/ Stale(r) /\ Refuse(h, "CONFLICT")
             \/ Duplicate(r) /\ ~Stale(r) /\ Refuse(h, "ERROR")
             \/ r.op # "cart:replace" /\ Refuse(h, "UNAVAILABLE")

\* A replay commits as well, having changed nothing.
EndReplay(h) ==
    /\ pc[h] = "ending"
    /\ pc' = [pc EXCEPT ![h] = "done"]
    /\ Release(h)
    /\ UNCHANGED <<shopVars, request, answer, refused>>

Respond(h) ==
    /\ pc[h] = "done"
    /\ pc' = [pc EXCEPT ![h] = "idle"]
    /\ request' = [request EXCEPT ![h] = NoRequest]
    /\ answer' = [answer EXCEPT ![h] = NoAnswer]
    /\ UNCHANGED <<shopVars, lock, refused>>

\* The handler or its connection dies: PostgreSQL rolls back what is not yet
\* committed, and the client hears nothing.
Crash(h) ==
    /\ pc[h] # "idle"
    /\ pc' = [pc EXCEPT ![h] = "idle"]
    /\ request' = [request EXCEPT ![h] = NoRequest]
    /\ answer' = [answer EXCEPT ![h] = NoAnswer]
    /\ Release(h)
    /\ UNCHANGED <<shopVars, refused>>

-----------------------------------------------------------------------------
Finish(h) == \/ ReplaceCart(h) \/ PlaceOrder(h) \/ \E o \in Orders : CreateOrder(h, o)
             \/ Fail(h) \/ EndReplay(h)

Next == \E h \in Handlers :
            \/ \E r \in Asked : Receive(h, r)
            \/ TakeKey(h) \/ Finish(h) \/ Respond(h) \/ Crash(h)

Spec == Init /\ [][Next]_vars

\* A transaction that runs ends, and the lock queue of PostgreSQL passes nobody over.
Fairness == \A h \in Handlers : /\ WF_vars(Finish(h) \/ Respond(h))
                                /\ SF_vars(TakeKey(h))

FairSpec == Spec /\ Fairness

-----------------------------------------------------------------------------
(* Properties *)

SavedRow == [command : Commands, payload : [version : Versions, arg : Baskets \cup Orders \cup {Empty}],
             result : Results]

\* Rows, requests and responses have their types; an advisory lock belongs to a
\* handler whose transaction is open on that key.
CommandsTypeOK ==
    /\ cart \in [Users -> [version : Nat, content : Baskets \cup {Empty}]]
    /\ order \in [Orders -> [status : {"absent", "draft", "placed"},
                             owner : Users \cup {Nobody}, cartVersion : Nat, version : Nat]]
    /\ saved \subseteq SavedRow
    /\ lock \in [Locks -> Handlers \cup {Nobody}]
    /\ pc \in [Handlers -> {"idle", "waiting", "running", "ending", "done"}]
    /\ request \in [Handlers -> Requests \cup {NoRequest}]
    /\ answer \in [Handlers -> Answers]
    /\ effects \subseteq Effect
    /\ refused \subseteq Requests
    /\ \A l \in Locks : lock[l] # Nobody =>
          /\ pc[lock[l]] \in {"running", "ending"}
          /\ request[lock[l]].key \in Keys
          /\ l = AdvisoryKey[request[lock[l]].key]

\* However often a request with a key is repeated, at once, after a lost response
\* or with another body, one change is made for the key (replay, save).
OncePerKey ==
    \A e, f \in effects : /\ e.request.key # NoKey
                          /\ Command(e.request) = Command(f.request)
                          => e = f

\* A success that a client hears of has happened, for the very request it sent.
SuccessesHappened ==
    \A h \in Handlers : answer[h].ok =>
        [request |-> request[h], result |-> answer[h].result] \in effects

\* A request refused for a stale version or a used key is refused for good: no copy
\* of it has taken effect before, and none that arrives late ever will.
RefusalsAreFinal == \A e \in effects : e.request \notin refused

\* Every version of a cart is used up once, by a replacement or by an order placed
\* from it, whoever places it and also by requests without a key: no change of a
\* cart is lost, and an administrator's own cart has no part in a customer's order.
CartVersionsUsedOnce ==
    \A e, f \in effects :
        LET used(x) == IF x.request.op = "cart:replace" THEN x.request.version
                       ELSE order[x.request.arg].cartVersion
        IN /\ e.request.op # "order:create" /\ f.request.op # "order:create"
           /\ CartOwner(e.request) = CartOwner(f.request)
           /\ used(e) = used(f)
           => e = f

\* Copies of a request wait for each other instead of failing on the primary key
\* of api_idempotency ("internal error" for a client that did nothing wrong).
NoCopyFails == \A h \in Handlers : answer[h] # Refused("ERROR")

\* No handler waits for ever for a key, whatever becomes of the handlers before it.
WaitersAreServed == \A h \in Handlers : pc[h] = "waiting" ~> pc[h] # "waiting"

\* The keyed effects, and those being reported, as the ledger sees them.
entries == {[command |-> Command(e.request), effect |-> e] :
               e \in {f \in effects : f.request.key # NoKey}}
told == {e \in effects : /\ e.request.key # NoKey
                         /\ \E h \in Handlers : /\ request[h] = e.request
                                                /\ answer[h] = OK(e.result)}

L == INSTANCE CommandLedger

\* The handlers implement the ledger: each key takes effect once, whole, and is
\* reported as it happened.
LedgerSpec == L!Spec

=============================================================================
