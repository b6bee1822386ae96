--------------------------- MODULE CommandProofs ---------------------------
(***************************************************************************)
(* What IdempotentCommands promises, for any number of users, keys,        *)
(* orders and handlers.                                                    *)
(***************************************************************************)
EXTENDS IdempotentCommands, TLAPS

USE CommandsAssumption

-----------------------------------------------------------------------------
(* Requests *)

LEMMA RequestFields ==
  ASSUME NEW r \in Requests
  PROVE  /\ r.op \in {"cart:replace", "order:create", "order:place"}
         /\ r.user \in Users
         /\ r.key \in Keys \cup {NoKey}
         /\ r.version \in Versions
         /\ r.version \in Nat
         /\ r.arg \in Baskets \cup Orders \cup {Empty}
         /\ r.op = "cart:replace" => r.arg \in Baskets
         /\ r.op = "order:place" => r.arg \in Orders
         /\ r.op # "cart:replace" => r.key \in Keys
<1>1. CASE r \in CartRequest  BY <1>1 DEF CartRequest, Versions
<1>2. CASE r \in CreateRequest  BY <1>2 DEF CreateRequest, Versions
<1>3. CASE r \in PlaceRequest  BY <1>3 DEF PlaceRequest, Versions
<1> QED BY <1>1, <1>2, <1>3 DEF Requests

\* A request is its command and its payload.
LEMMA SameRequest ==
  ASSUME NEW r \in Requests, NEW q \in Requests,
         Command(r) = Command(q), Payload(r) = Payload(q)
  PROVE  r = q
<1>1. /\ r.op = q.op /\ r.user = q.user /\ r.key = q.key
      /\ r.version = q.version /\ r.arg = q.arg
  BY DEF Command, Payload
<1>2. \A x \in Requests : x = [op |-> x.op, user |-> x.user, key |-> x.key,
                               version |-> x.version, arg |-> x.arg]
  BY DEF Requests, CartRequest, CreateRequest, PlaceRequest
<1> QED BY <1>1, <1>2

-----------------------------------------------------------------------------
(* The type invariant, in parts *)

RowsOK == /\ cart \in [Users -> [version : Nat, content : Baskets \cup {Empty}]]
          /\ order \in [Orders -> [status : {"absent", "draft", "placed"},
                                   owner : Users \cup {Nobody}, cartVersion : Nat, version : Nat]]
          /\ saved \subseteq SavedRow
          /\ effects \subseteq Effect

HandlersOK == /\ pc \in [Handlers -> {"idle", "waiting", "running", "ending", "done"}]
              /\ request \in [Handlers -> Requests \cup {NoRequest}]
              /\ answer \in [Handlers -> Answers]
              /\ refused \subseteq Requests

LocksOK == /\ lock \in [Locks -> Handlers \cup {Nobody}]
           /\ \A l \in Locks : lock[l] # Nobody =>
                 /\ pc[lock[l]] \in {"running", "ending"}
                 /\ request[lock[l]].key \in Keys
                 /\ l = AdvisoryKey[request[lock[l]].key]

\* A handler that is not idle works on a request.
Working == \A h \in Handlers : pc[h] # "idle" => request[h] \in Requests

\* Only a request with a key waits.
WaitsForKey == \A h \in Handlers : pc[h] = "waiting" => request[h].key # NoKey

TypeInv == RowsOK /\ HandlersOK /\ LocksOK /\ Working /\ WaitsForKey

LEMMA TypeParts == TypeInv => CommandsTypeOK
  BY DEF TypeInv, RowsOK, HandlersOK, LocksOK, CommandsTypeOK

LEMMA TypeInit == Init => TypeInv
  BY DEF Init, TypeInv, RowsOK, HandlersOK, LocksOK, Working, WaitsForKey, NoRequest, NoAnswer, Refused,
         Answers

\* What a commit adds has its type.
LEMMA CommitRows ==
  ASSUME TypeInv, NEW h \in Handlers, NEW x \in Results, pc[h] = "running", Commit(h, x)
  PROVE  saved' \subseteq SavedRow /\ effects' \subseteq Effect
<1>1. request[h] \in Requests
  BY DEF TypeInv, Working
<1>2. [request |-> request[h], result |-> x] \in Effect
  BY <1>1 DEF Effect
<1>3. request[h].key # NoKey =>
        [command |-> Command(request[h]), payload |-> Payload(request[h]), result |-> x]
          \in SavedRow
  BY <1>1, RequestFields DEF SavedRow, Commands, Command, Payload
<1> QED BY <1>2, <1>3 DEF Commit, Save, TypeInv, RowsOK

LEMMA RowsNext == TypeInv /\ [Next]_vars => RowsOK'
<1> SUFFICES ASSUME TypeInv, [Next]_vars PROVE RowsOK'
  OBVIOUS
<1>1. CASE UNCHANGED vars
  BY <1>1 DEF TypeInv, RowsOK, vars, shopVars
<1>2. ASSUME NEW h \in Handlers, ReplaceCart(h) PROVE RowsOK'
  <2>1. request[h] \in Requests /\ pc[h] = "running" /\ request[h].op = "cart:replace"
    BY <1>2 DEF ReplaceCart, Runs, TypeInv, Working
  <2>2. request[h].arg \in Baskets /\ request[h].user \in Users
    BY <2>1, RequestFields
  <2>3. cart[request[h].user].version + 1 \in Results
    <3>1. request[h].version \in Versions
      BY <2>1, RequestFields
    <3>2. cart[request[h].user].version = request[h].version
      BY <1>2, <2>1 DEF ReplaceCart, Runs, Stale
    <3> QED BY <3>1, <3>2 DEF Results, Versions
  <2>4. Commit(h, cart[request[h].user].version + 1)
    BY <1>2 DEF ReplaceCart
  <2>5. saved' \subseteq SavedRow /\ effects' \subseteq Effect
    BY <2>1, <2>3, <2>4, CommitRows
  <2>6. cart' \in [Users -> [version : Nat, content : Baskets \cup {Empty}]]
    BY <1>2, <2>2 DEF ReplaceCart, TypeInv, RowsOK
  <2> QED BY <1>2, <2>5, <2>6 DEF ReplaceCart, TypeInv, RowsOK
<1>3. ASSUME NEW h \in Handlers, NEW o \in Orders, CreateOrder(h, o) PROVE RowsOK'
  <2>1. request[h] \in Requests /\ pc[h] = "running"
    BY <1>3 DEF CreateOrder, Runs, TypeInv, Working
  <2>2. request[h].user \in Users /\ request[h].version \in Nat
    BY <2>1, RequestFields
  <2>3. saved' \subseteq SavedRow /\ effects' \subseteq Effect
    BY <1>3, <2>1, CommitRows DEF CreateOrder, Results
  <2> QED BY <1>3, <2>2, <2>3 DEF CreateOrder, TypeInv, RowsOK
<1>4. ASSUME NEW h \in Handlers, PlaceOrder(h) PROVE RowsOK'
  <2>1. request[h] \in Requests /\ pc[h] = "running" /\ request[h].op = "order:place"
    BY <1>4 DEF PlaceOrder, Runs, TypeInv, Working
  <2>2. request[h].user \in Users /\ request[h].arg \in Orders
    BY <2>1, RequestFields
  <2>3. saved' \subseteq SavedRow /\ effects' \subseteq Effect
    BY <1>4, <2>1, <2>2, CommitRows DEF PlaceOrder, Results
  <2> QED BY <1>4, <2>2, <2>3 DEF PlaceOrder, Emptied, TypeInv, RowsOK
<1>5. ASSUME NEW h \in Handlers,
             \/ \E r \in Asked : Receive(h, r)
             \/ TakeKey(h) \/ Fail(h) \/ EndReplay(h) \/ Respond(h) \/ Crash(h)
      PROVE RowsOK'
  <2>1. UNCHANGED shopVars
    BY <1>5 DEF Receive, TakeKey, Fail, Refuse, EndReplay, Respond, Crash
  <2> QED BY <2>1 DEF TypeInv, RowsOK, shopVars
<1> QED BY <1>1, <1>2, <1>3, <1>4, <1>5 DEF Next, Finish

LEMMA ReplayedAnswers ==
  ASSUME NEW r \in Requests, NEW s \in SavedRow
  PROVE  Replayed(r, s) \in Answers
  BY DEF Replayed, SavedRow, OK, Refused, Answers, Refusals

LEMMA HandlersNext == TypeInv /\ [Next]_vars => HandlersOK' /\ Working'
<1> SUFFICES ASSUME TypeInv, [Next]_vars PROVE HandlersOK' /\ Working'
  OBVIOUS
<1> USE DEF HandlersOK, Working
<1>1. CASE UNCHANGED vars
  BY <1>1 DEF TypeInv, vars
<1>2. ASSUME NEW h \in Handlers, NEW r \in Asked, Receive(h, r) PROVE HandlersOK' /\ Working'
  BY <1>2, AskedAssumption DEF Receive, TypeInv
<1>3. ASSUME NEW h \in Handlers, TakeKey(h) PROVE HandlersOK' /\ Working'
  <2>1. request[h] \in Requests
    BY <1>3 DEF TakeKey, TypeInv
  <2>2. \A s \in SavedFor(request[h]) : Replayed(request[h], s) \in Answers
    BY <2>1, ReplayedAnswers DEF SavedFor, TypeInv, RowsOK
  <2> QED BY <1>3, <2>1, <2>2 DEF TakeKey, TypeInv
<1>4. ASSUME NEW h \in Handlers, NEW x \in Results, pc[h] = "running", Commit(h, x)
      PROVE HandlersOK' /\ Working'
  <2>1. OK(x) \in Answers
    BY DEF OK, Answers
  <2> QED BY <1>4, <2>1 DEF Commit, TypeInv
<1>5. ASSUME NEW h \in Handlers, ReplaceCart(h) PROVE HandlersOK' /\ Working'
  <2>1. pc[h] = "running" /\ request[h] \in Requests
    BY <1>5 DEF ReplaceCart, Runs, TypeInv
  <2>2. cart[request[h].user].version = request[h].version
    BY <1>5 DEF ReplaceCart, Runs, Stale
  <2>3. cart[request[h].user].version + 1 \in Results
    BY <2>1, <2>2, RequestFields DEF Results, Versions
  <2> QED BY <1>5, <1>4, <2>1, <2>3 DEF ReplaceCart
<1>6. ASSUME NEW h \in Handlers, NEW o \in Orders, CreateOrder(h, o)
      PROVE HandlersOK' /\ Working'
  BY <1>6, <1>4 DEF CreateOrder, Runs, Results
<1>7. ASSUME NEW h \in Handlers, PlaceOrder(h) PROVE HandlersOK' /\ Working'
  <2>1. pc[h] = "running" /\ request[h].arg \in Orders
    BY <1>7, RequestFields DEF PlaceOrder, Runs, TypeInv
  <2> QED BY <1>7, <1>4, <2>1 DEF PlaceOrder, Results
<1>8. ASSUME NEW h \in Handlers, Fail(h) PROVE HandlersOK' /\ Working'
  <2>1. PICK why \in Refusals : Refuse(h, why) /\ pc[h] = "running"
    BY <1>8 DEF Fail, Refusals
  <2>2. Refused(why) \in Answers
    BY DEF Refused, Answers
  <2> QED BY <2>1, <2>2 DEF Refuse, TypeInv
<1>9. ASSUME NEW h \in Handlers, EndReplay(h) PROVE HandlersOK' /\ Working'
  BY <1>9 DEF EndReplay, TypeInv
<1>10. ASSUME NEW h \in Handlers, Respond(h) \/ Crash(h) PROVE HandlersOK' /\ Working'
  <2>1. NoAnswer \in Answers
    BY DEF NoAnswer, Refused, Answers
  <2> QED BY <1>10, <2>1 DEF Respond, Crash, TypeInv
<1> QED BY <1>1, <1>2, <1>3, <1>5, <1>6, <1>7, <1>8, <1>9, <1>10 DEF Next, Finish

LEMMA WaitsNext == TypeInv /\ [Next]_vars => WaitsForKey'
<1> SUFFICES ASSUME TypeInv, [Next]_vars, NEW h \in Handlers, pc'[h] = "waiting"
             PROVE  request'[h].key # NoKey
  BY DEF WaitsForKey
<1>1. CASE UNCHANGED vars
  BY <1>1 DEF vars, TypeInv, WaitsForKey
<1>2. ASSUME NEW g \in Handlers, NEW r \in Asked, Receive(g, r) PROVE request'[h].key # NoKey
  BY <1>2 DEF Receive, TypeInv, HandlersOK, WaitsForKey
<1>3. ASSUME NEW g \in Handlers, TakeKey(g) \/ Finish(g) \/ Respond(g) \/ Crash(g)
      PROVE  request'[h].key # NoKey
  <2>1. g # h /\ request'[h] = request[h] /\ pc'[h] = pc[h]
    BY <1>3 DEF TakeKey, Finish, ReplaceCart, PlaceOrder, CreateOrder, Fail, Refuse, EndReplay,
                Respond, Crash, Commit, TypeInv, HandlersOK
  <2> QED BY <2>1 DEF TypeInv, WaitsForKey
<1> QED BY <1>1, <1>2, <1>3 DEF Next

\* Releasing frees the locks of h and no other.
LEMMA ReleaseLocks ==
  ASSUME LocksOK, NEW h \in Handlers, Release(h)
  PROVE  /\ lock' \in [Locks -> Handlers \cup {Nobody}]
         /\ \A l \in Locks : lock'[l] # Nobody => lock'[l] = lock[l] /\ lock[l] # h
  BY DEF Release, LocksOK

LEMMA LocksNext == TypeInv /\ [Next]_vars => LocksOK'
<1> SUFFICES ASSUME TypeInv, [Next]_vars PROVE LocksOK'
  OBVIOUS
<1>1. CASE UNCHANGED vars
  BY <1>1 DEF TypeInv, LocksOK, vars
<1>2. ASSUME NEW h \in Handlers, NEW r \in Asked, Receive(h, r) PROVE LocksOK'
  BY <1>2 DEF Receive, TypeInv, HandlersOK, LocksOK
<1>3. ASSUME NEW h \in Handlers, TakeKey(h) PROVE LocksOK'
  <2> DEFINE k == request[h].key
  <2>1. request[h] \in Requests /\ pc[h] = "waiting"
    BY <1>3 DEF TakeKey, TypeInv, Working
  <2>2. k \in Keys
    BY <2>1, RequestFields DEF TypeInv, WaitsForKey
  <2>3. AdvisoryKey[k] \in Locks
    BY <2>2 DEF Locks
  <2> HIDE DEF k
  <2>4. lock' = [lock EXCEPT ![AdvisoryKey[k]] = h] /\ UNCHANGED request
    BY <1>3 DEF TakeKey, k
  <2>5. pc'[h] \in {"running", "ending"} /\ \A g \in Handlers \ {h} : pc'[g] = pc[g]
    BY <1>3 DEF TakeKey, TypeInv, HandlersOK
  <2> QED BY <2>1, <2>2, <2>3, <2>4, <2>5 DEF TypeInv, LocksOK, k
<1>4. ASSUME NEW h \in Handlers, Release(h),
             \A g \in Handlers \ {h} : pc'[g] = pc[g] /\ request'[g] = request[g]
      PROVE LocksOK'
  BY <1>4, ReleaseLocks DEF TypeInv, LocksOK
<1>5. ASSUME NEW h \in Handlers,
             \/ Finish(h) \/ Crash(h)
      PROVE LocksOK'
  <2>1. Release(h) /\ \A g \in Handlers \ {h} : pc'[g] = pc[g] /\ request'[g] = request[g]
    BY <1>5 DEF Finish, ReplaceCart, PlaceOrder, CreateOrder, Fail, Refuse, EndReplay, Crash,
                Commit, TypeInv, HandlersOK
  <2> QED BY <2>1, <1>4
<1>6. ASSUME NEW h \in Handlers, Respond(h) PROVE LocksOK'
  BY <1>6 DEF Respond, TypeInv, HandlersOK, LocksOK
<1> QED BY <1>1, <1>2, <1>3, <1>5, <1>6 DEF Next

\* Requests, rows and responses keep their types, and the lock of a key belongs to a
\* handler whose transaction is open on it (pg_advisory_xact_lock).
THEOREM CommandsTypeInvariant == Spec => []CommandsTypeOK
<1>1. Init => TypeInv
  BY TypeInit
<1>2. TypeInv /\ [Next]_vars => TypeInv'
  BY RowsNext, HandlersNext, WaitsNext, LocksNext DEF TypeInv
<1> QED BY <1>1, <1>2, TypeParts, PTL DEF Spec

-----------------------------------------------------------------------------
(* The table of saved results mirrors the effects of requests with a key *)

SavedOf(e) == [command |-> Command(e.request), payload |-> Payload(e.request),
               result |-> e.result]

SavedOnce == \A s, t \in saved : s.command = t.command => s = t
EffectsSaved == \A e \in effects : e.request.key # NoKey => SavedOf(e) \in saved
SavedHappened == \A s \in saved : \E e \in effects : e.request.key # NoKey /\ s = SavedOf(e)

NoneSaved(r) == \A s \in saved : s.command # Command(r)

\* A handler that runs a command with a key holds its lock and found nothing saved.
RunsAlone == \A h \in Handlers :
    pc[h] = "running" /\ request[h].key # NoKey =>
        /\ lock[AdvisoryKey[request[h].key]] = h
        /\ NoneSaved(request[h])

KeyInv == SavedOnce /\ EffectsSaved /\ SavedHappened /\ RunsAlone

LEMMA KeyInit == Init => KeyInv
  BY DEF Init, KeyInv, SavedOnce, EffectsSaved, SavedHappened, RunsAlone

\* A step either commits one request, or leaves rows and effects alone.
LEMMA StepKinds ==
  ASSUME TypeInv, [Next]_vars
  PROVE  \/ UNCHANGED <<saved, effects>>
         \/ \E h \in Handlers, x \in Results :
               pc[h] = "running" /\ ~Duplicate(request[h]) /\ Commit(h, x)
<1>1. CASE UNCHANGED vars
  BY <1>1 DEF vars, shopVars
<1>2. ASSUME NEW h \in Handlers, ReplaceCart(h)
      PROVE \E x \in Results : pc[h] = "running" /\ ~Duplicate(request[h]) /\ Commit(h, x)
  <2>1. pc[h] = "running" /\ request[h] \in Requests /\ ~Duplicate(request[h])
    BY <1>2 DEF ReplaceCart, Runs, TypeInv, Working
  <2>2. cart[request[h].user].version = request[h].version
    BY <1>2 DEF ReplaceCart, Runs, Stale
  <2>3. cart[request[h].user].version + 1 \in Results
    BY <2>1, <2>2, RequestFields DEF Results, Versions
  <2> QED BY <1>2, <2>1, <2>3 DEF ReplaceCart
<1>3. ASSUME NEW h \in Handlers, NEW o \in Orders, CreateOrder(h, o)
      PROVE \E x \in Results : pc[h] = "running" /\ ~Duplicate(request[h]) /\ Commit(h, x)
  BY <1>3 DEF CreateOrder, Runs, Results
<1>4. ASSUME NEW h \in Handlers, PlaceOrder(h)
      PROVE \E x \in Results : pc[h] = "running" /\ ~Duplicate(request[h]) /\ Commit(h, x)
  BY <1>4, RequestFields DEF PlaceOrder, Runs, Results, TypeInv, Working
<1>5. ASSUME NEW h \in Handlers,
             \/ \E r \in Asked : Receive(h, r)
             \/ TakeKey(h) \/ Fail(h) \/ EndReplay(h) \/ Respond(h) \/ Crash(h)
      PROVE UNCHANGED <<saved, effects>>
  BY <1>5 DEF Receive, TakeKey, Fail, Refuse, EndReplay, Respond, Crash, shopVars
<1> QED BY <1>1, <1>2, <1>3, <1>4, <1>5 DEF Next, Finish

LEMMA TableNext ==
  ASSUME TypeInv, KeyInv, [Next]_vars
  PROVE  (SavedOnce /\ EffectsSaved /\ SavedHappened)'
<1>1. CASE UNCHANGED <<saved, effects>>
  BY <1>1 DEF KeyInv, SavedOnce, EffectsSaved, SavedHappened
<1>2. ASSUME NEW h \in Handlers, NEW x \in Results,
             pc[h] = "running", ~Duplicate(request[h]), Commit(h, x)
      PROVE  (SavedOnce /\ EffectsSaved /\ SavedHappened)'
  <2> DEFINE r == request[h]
             e == [request |-> r, result |-> x]
  <2>1. effects' = effects \cup {e}
    BY <1>2 DEF Commit
  <2>2. CASE r.key = NoKey
    BY <1>2, <2>1, <2>2 DEF Commit, Save, KeyInv, SavedOnce, EffectsSaved, SavedHappened
  <2>3. CASE r.key # NoKey
    <3>1. saved' = saved \cup {SavedOf(e)}
      BY <1>2, <2>3 DEF Commit, Save, SavedOf
    <3>2. \A s \in saved : s.command # Command(r)
      BY <1>2, <2>3 DEF Duplicate, SavedFor
    <3>3. SavedOf(e).command = Command(r)
      BY DEF SavedOf
    <3>4. SavedOnce'
      BY <3>1, <3>2, <3>3 DEF KeyInv, SavedOnce
    <3>5. EffectsSaved' /\ SavedHappened'
      BY <2>1, <2>3, <3>1 DEF KeyInv, EffectsSaved, SavedHappened
    <3> QED BY <3>4, <3>5
  <2> QED BY <2>2, <2>3
<1> QED BY <1>1, <1>2, StepKinds

LEMMA AloneNext ==
  ASSUME TypeInv, KeyInv, [Next]_vars
  PROVE  RunsAlone'
<1> SUFFICES ASSUME NEW g \in Handlers, pc'[g] = "running", request'[g].key # NoKey
             PROVE  /\ lock'[AdvisoryKey[request'[g].key]] = g
                    /\ \A s \in saved' : s.command # Command(request'[g])
  BY DEF RunsAlone, NoneSaved
<1> USE DEF NoneSaved
<1>1. CASE UNCHANGED vars
  BY <1>1 DEF KeyInv, RunsAlone, vars, shopVars
<1>2. ASSUME NEW h \in Handlers, NEW r \in Asked, Receive(h, r)
      PROVE  /\ lock'[AdvisoryKey[request'[g].key]] = g
             /\ \A s \in saved' : s.command # Command(request'[g])
  BY <1>2 DEF Receive, KeyInv, RunsAlone, TypeInv, HandlersOK, shopVars
<1>3. ASSUME NEW h \in Handlers, TakeKey(h)
      PROVE  /\ lock'[AdvisoryKey[request'[g].key]] = g
             /\ \A s \in saved' : s.command # Command(request'[g])
  <2>1. UNCHANGED <<saved, request>>
    BY <1>3 DEF TakeKey, shopVars
  <2>2. request[h].key \in Keys /\ AdvisoryKey[request[h].key] \in Locks
    BY <1>3, RequestFields DEF TakeKey, TypeInv, Working, WaitsForKey, Locks
  <2>3. lock' = [lock EXCEPT ![AdvisoryKey[request[h].key]] = h]
    BY <1>3 DEF TakeKey
  <2>4. CASE g = h
    <3>1. NoneSaved(request[h])
      BY <1>3, <2>4 DEF TakeKey, SavedFor, TypeInv, HandlersOK
    <3> QED BY <2>1, <2>2, <2>3, <2>4, <3>1 DEF TypeInv, LocksOK
  <2>5. CASE g # h
    <3>1. pc[g] = "running"
      BY <1>3, <2>5 DEF TakeKey, TypeInv, HandlersOK
    <3>2. lock[AdvisoryKey[request[g].key]] = g /\ NoneSaved(request[g])
      BY <2>1, <3>1 DEF KeyInv, RunsAlone
    <3>3. lock[AdvisoryKey[request[h].key]] = Nobody
      BY <1>3 DEF TakeKey, LockFree
    <3> QED BY <2>1, <2>2, <2>3, <3>2, <3>3 DEF TypeInv, LocksOK
  <2> QED BY <2>4, <2>5
<1>4. ASSUME NEW h \in Handlers, Finish(h) \/ Crash(h)
      PROVE  /\ lock'[AdvisoryKey[request'[g].key]] = g
             /\ \A s \in saved' : s.command # Command(request'[g])
  <2>1. /\ Release(h)
        /\ pc'[h] # "running"
        /\ \A f \in Handlers \ {h} : pc'[f] = pc[f] /\ request'[f] = request[f]
    BY <1>4 DEF Finish, ReplaceCart, PlaceOrder, CreateOrder, Fail, Refuse, EndReplay, Crash,
                Commit, TypeInv, HandlersOK
  <2>2. g # h /\ pc[g] = "running" /\ request'[g] = request[g]
    BY <2>1
  <2>3. lock[AdvisoryKey[request[g].key]] = g /\ NoneSaved(request[g])
    BY <2>2 DEF KeyInv, RunsAlone
  <2>4. request[g] \in Requests /\ request[g].key \in Keys
    BY <2>2, RequestFields DEF TypeInv, Working
  <2>5. AdvisoryKey[request[g].key] \in Locks
    BY <2>4 DEF Locks
  <2>6. lock'[AdvisoryKey[request[g].key]] = g
    BY <2>1, <2>2, <2>3, <2>5 DEF Release
  <2>7. CASE UNCHANGED saved
    BY <2>2, <2>3, <2>6, <2>7
  <2>8. ASSUME NEW x \in Results, pc[h] = "running", ~Duplicate(request[h]), Commit(h, x)
        PROVE \A s \in saved' : s.command # Command(request[g])
    <3>1. CASE request[h].key = NoKey
      BY <2>3, <2>8, <3>1, <2>2 DEF Commit, Save
    <3>2. CASE request[h].key # NoKey
      <4>1. lock[AdvisoryKey[request[h].key]] = h
        BY <2>8, <3>2 DEF KeyInv, RunsAlone
      <4>2. request[h].key # request[g].key
        BY <4>1, <2>2, <2>3
      <4>3. Command(request[h]) # Command(request[g])
        BY <4>2 DEF Command
      <4> QED BY <2>2, <2>3, <2>8, <3>2, <4>3 DEF Commit, Save
    <3> QED BY <3>1, <3>2
  <2>9. \/ UNCHANGED saved
        \/ \E x \in Results : pc[h] = "running" /\ ~Duplicate(request[h]) /\ Commit(h, x)
    <3>1. CASE ReplaceCart(h)
      <4>1. pc[h] = "running" /\ request[h] \in Requests /\ ~Duplicate(request[h])
        BY <3>1 DEF ReplaceCart, Runs, TypeInv, Working
      <4>2. cart[request[h].user].version = request[h].version
        BY <3>1 DEF ReplaceCart, Runs, Stale
      <4>3. cart[request[h].user].version + 1 \in Results
        BY <4>1, <4>2, RequestFields DEF Results, Versions
      <4> QED BY <3>1, <4>1, <4>3 DEF ReplaceCart
    <3>2. CASE \E o \in Orders : CreateOrder(h, o)
      BY <3>2 DEF CreateOrder, Runs, Results
    <3>3. CASE PlaceOrder(h)
      BY <3>3, RequestFields DEF PlaceOrder, Runs, Results, TypeInv, Working
    <3>4. CASE Fail(h) \/ EndReplay(h) \/ Crash(h)
      BY <3>4 DEF Fail, Refuse, EndReplay, Crash, shopVars
    <3> QED BY <1>4, <3>1, <3>2, <3>3, <3>4 DEF Finish
  <2> QED BY <2>2, <2>6, <2>7, <2>8, <2>9
<1>5. ASSUME NEW h \in Handlers, Respond(h)
      PROVE  /\ lock'[AdvisoryKey[request'[g].key]] = g
             /\ \A s \in saved' : s.command # Command(request'[g])
  BY <1>5 DEF Respond, KeyInv, RunsAlone, TypeInv, HandlersOK, shopVars
<1> QED BY <1>1, <1>2, <1>3, <1>4, <1>5 DEF Next

LEMMA OnceLemma == TypeInv /\ KeyInv => OncePerKey
<1> SUFFICES ASSUME TypeInv, KeyInv, NEW e \in effects, NEW f \in effects,
                    e.request.key # NoKey, Command(e.request) = Command(f.request)
             PROVE  e = f
  BY DEF OncePerKey
<1>1. e \in Effect /\ f \in Effect
  BY DEF TypeInv, RowsOK
<1>2. f.request.key # NoKey
  BY DEF Command
<1>3. SavedOf(e) \in saved /\ SavedOf(f) \in saved
  BY <1>2 DEF KeyInv, EffectsSaved
<1>4. SavedOf(e) = SavedOf(f)
  BY <1>3 DEF KeyInv, SavedOnce, SavedOf
<1>5. Payload(e.request) = Payload(f.request) /\ e.result = f.result
  BY <1>4 DEF SavedOf
<1>6. e.request = f.request
  BY <1>1, <1>5, SameRequest DEF Effect
<1> QED BY <1>1, <1>5, <1>6 DEF Effect

\* Whatever users, keys and orders there are, and however many copies of a request are
\* handled at once, crash or are repeated: a key takes effect once.
THEOREM OncePerKeyInvariant == Spec => []OncePerKey
<1>1. Init => TypeInv /\ KeyInv
  BY TypeInit, KeyInit
<1>2. TypeInv /\ KeyInv /\ [Next]_vars => (TypeInv /\ KeyInv)'
  <2> SUFFICES ASSUME TypeInv, KeyInv, [Next]_vars PROVE (TypeInv /\ KeyInv)'
    OBVIOUS
  <2>1. TypeInv'
    BY RowsNext, HandlersNext, WaitsNext, LocksNext DEF TypeInv
  <2>2. KeyInv'
    BY TableNext, AloneNext DEF KeyInv
  <2> QED BY <2>1, <2>2
<1> QED BY <1>1, <1>2, OnceLemma, PTL DEF Spec

-----------------------------------------------------------------------------
(* Responses *)

\* Nothing is answered before it is decided.
Silent == \A h \in Handlers : pc[h] \in {"idle", "waiting", "running"} => ~answer[h].ok

AnswerInv == Silent /\ SuccessesHappened /\ NoCopyFails

LEMMA AnswerInit == Init => AnswerInv
  BY DEF Init, AnswerInv, Silent, SuccessesHappened, NoCopyFails, NoAnswer, Refused

\* A replayed result is the effect of the very request it answers.
LEMMA ReplayHappened ==
  ASSUME TypeInv, KeyInv, NEW r \in Requests, NEW s \in saved, s.command = Command(r),
         Replayed(r, s).ok
  PROVE  [request |-> r, result |-> Replayed(r, s).result] \in effects
<1>1. s.payload = Payload(r) /\ Replayed(r, s).result = s.result
  BY DEF Replayed, OK, Refused
<1>2. PICK e \in effects : s = SavedOf(e)
  BY DEF KeyInv, SavedHappened
<1>3. e \in Effect
  BY DEF TypeInv, RowsOK
<1>4. Command(e.request) = Command(r) /\ Payload(e.request) = Payload(r) /\ e.result = s.result
  BY <1>1, <1>2 DEF SavedOf
<1>5. e.request = r
  BY <1>3, <1>4, SameRequest DEF Effect
<1>6. e = [request |-> e.request, result |-> e.result]
  BY <1>3 DEF Effect
<1> QED BY <1>1, <1>4, <1>5, <1>6

LEMMA AnswerNext ==
  ASSUME TypeInv, KeyInv, AnswerInv, [Next]_vars
  PROVE  AnswerInv'
<1> USE DEF AnswerInv, Silent, SuccessesHappened, NoCopyFails
<1>1. CASE UNCHANGED vars
  BY <1>1 DEF vars, shopVars
<1>2. ASSUME NEW h \in Handlers, NEW r \in Asked, Receive(h, r) PROVE AnswerInv'
  BY <1>2 DEF Receive, shopVars, TypeInv, HandlersOK
<1>3. ASSUME NEW h \in Handlers, TakeKey(h) PROVE AnswerInv'
  <2>1. UNCHANGED <<effects, request>> /\ request[h] \in Requests /\ pc[h] = "waiting"
    BY <1>3 DEF TakeKey, shopVars, TypeInv, Working
  <2>2. \A g \in Handlers \ {h} : pc'[g] = pc[g] /\ answer'[g] = answer[g]
    BY <1>3 DEF TakeKey, TypeInv, HandlersOK
  <2>3. CASE /\ answer' = answer
             /\ pc' = [pc EXCEPT ![h] = "running"]
    BY <2>1, <2>2, <2>3 DEF TypeInv, HandlersOK
  <2>4. ASSUME NEW s \in SavedFor(request[h]),
               answer' = [answer EXCEPT ![h] = Replayed(request[h], s)],
               pc' = [pc EXCEPT ![h] = "ending"]
        PROVE AnswerInv'
    <3>1. s \in saved /\ s.command = Command(request[h])
      BY DEF SavedFor
    <3>2. answer'[h] = Replayed(request[h], s) /\ pc'[h] = "ending"
      BY <2>4 DEF TypeInv, HandlersOK
    <3>3. answer'[h].ok => [request |-> request[h], result |-> answer'[h].result] \in effects
      BY <2>1, <3>1, <3>2, ReplayHappened
    <3>4. answer'[h] # Refused("ERROR")
      BY <3>2 DEF Replayed, OK, Refused
    <3> QED BY <2>1, <2>2, <3>2, <3>3, <3>4
  <2> QED BY <1>3, <2>3, <2>4 DEF TakeKey
<1>4. ASSUME NEW h \in Handlers, NEW x \in Results, pc[h] = "running", Commit(h, x)
      PROVE AnswerInv'
  <2>1. effects' = effects \cup {[request |-> request[h], result |-> x]} /\ UNCHANGED request
    BY <1>4 DEF Commit
  <2>2. answer'[h] = OK(x) /\ pc'[h] = "done"
    BY <1>4 DEF Commit, TypeInv, HandlersOK
  <2>3. \A g \in Handlers \ {h} : pc'[g] = pc[g] /\ answer'[g] = answer[g]
    BY <1>4 DEF Commit, TypeInv, HandlersOK
  <2> QED BY <2>1, <2>2, <2>3 DEF OK, Refused
<1>5. ASSUME NEW h \in Handlers, Fail(h) PROVE AnswerInv'
  <2>1. ~Duplicate(request[h])
    BY <1>5 DEF Fail, Duplicate, SavedFor, KeyInv, RunsAlone, NoneSaved
  <2>2. PICK why \in {"FORBIDDEN", "CONFLICT", "UNAVAILABLE"} : Refuse(h, why)
    BY <1>5, <2>1 DEF Fail
  <2>3. answer'[h] = Refused(why) /\ pc'[h] = "done"
    BY <2>2 DEF Refuse, TypeInv, HandlersOK
  <2>4. \A g \in Handlers \ {h} : pc'[g] = pc[g] /\ answer'[g] = answer[g]
    BY <2>2 DEF Refuse, TypeInv, HandlersOK
  <2> QED BY <2>2, <2>3, <2>4 DEF Refused, Refuse, shopVars
<1>6. ASSUME NEW h \in Handlers, EndReplay(h) PROVE AnswerInv'
  BY <1>6 DEF EndReplay, shopVars, TypeInv, HandlersOK
<1>7. ASSUME NEW h \in Handlers, Respond(h) \/ Crash(h) PROVE AnswerInv'
  <2>1. answer'[h] = NoAnswer /\ UNCHANGED effects
    BY <1>7 DEF Respond, Crash, shopVars, TypeInv, HandlersOK
  <2>2. \A g \in Handlers \ {h} : pc'[g] = pc[g] /\ answer'[g] = answer[g] /\ request'[g] = request[g]
    BY <1>7 DEF Respond, Crash, TypeInv, HandlersOK
  <2> QED BY <2>1, <2>2 DEF NoAnswer, Refused
<1>8. ASSUME NEW h \in Handlers,
             \/ ReplaceCart(h) \/ PlaceOrder(h) \/ \E o \in Orders : CreateOrder(h, o)
      PROVE \E x \in Results : pc[h] = "running" /\ Commit(h, x)
  <2>1. pc[h] = "running" /\ request[h] \in Requests
    BY <1>8 DEF ReplaceCart, PlaceOrder, CreateOrder, Runs, TypeInv, Working
  <2>2. CASE ReplaceCart(h)
    <3>1. cart[request[h].user].version = request[h].version
      BY <2>2 DEF ReplaceCart, Runs, Stale
    <3>2. cart[request[h].user].version + 1 \in Results
      BY <2>1, <3>1, RequestFields DEF Results, Versions
    <3> QED BY <2>1, <2>2, <3>2 DEF ReplaceCart
  <2>3. CASE PlaceOrder(h)
    BY <2>1, <2>3, RequestFields DEF PlaceOrder, Runs, Results
  <2>4. CASE \E o \in Orders : CreateOrder(h, o)
    BY <2>1, <2>4 DEF CreateOrder, Results
  <2> QED BY <1>8, <2>2, <2>3, <2>4
<1> QED BY <1>1, <1>2, <1>3, <1>4, <1>5, <1>6, <1>7, <1>8 DEF Next, Finish

CommandInv == TypeInv /\ KeyInv /\ AnswerInv

LEMMA CommandInvariant == Spec => []CommandInv
<1>1. Init => CommandInv
  BY TypeInit, KeyInit, AnswerInit DEF CommandInv
<1>2. CommandInv /\ [Next]_vars => CommandInv'
  <2> SUFFICES ASSUME CommandInv, [Next]_vars PROVE CommandInv'
    OBVIOUS
  <2>1. TypeInv'
    BY RowsNext, HandlersNext, WaitsNext, LocksNext DEF CommandInv, TypeInv
  <2>2. KeyInv'
    BY TableNext, AloneNext DEF CommandInv, KeyInv
  <2>3. AnswerInv'
    BY AnswerNext DEF CommandInv
  <2> QED BY <2>1, <2>2, <2>3 DEF CommandInv
<1> QED BY <1>1, <1>2, PTL DEF Spec

\* Whoever is told of a success is told of the effect of the very request sent.
THEOREM SuccessInvariant == Spec => []SuccessesHappened
<1>1. CommandInv => SuccessesHappened
  BY DEF CommandInv, AnswerInv
<1> QED BY <1>1, CommandInvariant, PTL

\* No copy of a request ever reaches the INSERT of save after another has saved.
THEOREM NoCopyFailsInvariant == Spec => []NoCopyFails
<1>1. CommandInv => NoCopyFails
  BY DEF CommandInv, AnswerInv
<1> QED BY <1>1, CommandInvariant, PTL

-----------------------------------------------------------------------------
(* The ledger: each step is one of its steps, or none *)

Reports(h, e) == request[h] = e.request /\ answer[h] = OK(e.result)

Keyed(e) == e.request.key # NoKey

\* told, without its record constructor.
LEMMA ToldMeans ==
  ASSUME NEW e
  PROVE  e \in told <=> e \in effects /\ Keyed(e) /\ \E h \in Handlers : Reports(h, e)
  BY DEF told, Keyed, Reports

LEMMA ToldMeansNext ==
  ASSUME NEW e
  PROVE  e \in told' <=> e \in effects' /\ Keyed(e) /\ \E h \in Handlers : Reports(h, e)'
  BY DEF told, Keyed, Reports

\* An effect with a key belongs to a command, one without to none.
LEMMA KeyedCommand ==
  ASSUME NEW e \in Effect
  PROVE  Keyed(e) <=> Command(e.request) \in Commands
<1>1. e.request \in Requests
  BY DEF Effect
<1>2. Command(e.request).key = e.request.key
  BY DEF Command
<1>3. Command(e.request) \in Commands => e.request.key \in Keys
  BY <1>2 DEF Commands
<1>4. e.request.key \in Keys => Command(e.request) \in Commands
  BY <1>1, RequestFields DEF Commands, Command
<1> QED BY <1>1, <1>3, <1>4, RequestFields DEF Keyed

\* Two effects with one request and one result are one.
LEMMA SameEffect ==
  ASSUME NEW e \in Effect, NEW f \in Effect, e.request = f.request, e.result = f.result
  PROVE  e = f
  BY DEF Effect

\* The entry of an effect in the ledger.
Entry(e) == [command |-> Command(e.request), effect |-> e]

\* A step that commits nothing leaves the entries as they are; what is told follows
\* the one response that changes.
LEMMA QuietStep ==
  ASSUME CommandInv, NEW h \in Handlers, UNCHANGED effects,
         \A g \in Handlers \ {h} : request'[g] = request[g] /\ answer'[g] = answer[g],
         \/ request'[h] = request[h] /\ answer'[h] = answer[h]
         \/ ~answer'[h].ok
         \/ /\ ~answer[h].ok
            /\ request'[h] = request[h]
            /\ \E e \in effects : request[h] = e.request /\ answer'[h] = OK(e.result)
  PROVE  L!Next \/ UNCHANGED <<entries, told>>
<1>1. effects \subseteq Effect
  BY DEF CommandInv, TypeInv, RowsOK
<1>2. UNCHANGED entries
  BY DEF entries
<1>3. \A e \in effects, g \in Handlers \ {h} : Reports(g, e)' <=> Reports(g, e)
  BY DEF Reports
<1>4. \A e : Reports(h, e) => answer[h].ok
  BY DEF Reports, OK
<1>5. \A e : Reports(h, e)' => answer'[h].ok
  BY DEF Reports, OK
<1>6. CASE request'[h] = request[h] /\ answer'[h] = answer[h]
  <2>1. \A e : Reports(h, e)' <=> Reports(h, e)
    BY <1>6 DEF Reports
  <2>2. \A e : e \in told' <=> e \in told
    BY <1>3, <2>1, ToldMeans, ToldMeansNext
  <2> QED BY <1>2, <2>2
<1>7. CASE ~answer'[h].ok
  <2>1. \A e : e \in told' => e \in told
    BY <1>3, <1>5, <1>7, ToldMeans, ToldMeansNext
  <2>2. CASE told' = told
    BY <1>2, <2>2
  <2>3. CASE told' # told
    <3>1. PICK e \in told : e \notin told'
      BY <2>1, <2>3
    <3>2. e \in effects /\ Keyed(e) /\ Reports(h, e)
      BY <1>3, <3>1, ToldMeans, ToldMeansNext
    <3>3. \A f \in told : f # e => f \in told'
      <4> SUFFICES ASSUME NEW f \in told, f \notin told' PROVE f = e
        OBVIOUS
      <4>1. f \in effects /\ Reports(h, f)
        BY <1>3, ToldMeans, ToldMeansNext
      <4>2. f.request = e.request /\ f.result = e.result
        BY <3>2, <4>1 DEF Reports, OK
      <4> QED BY <1>1, <3>2, <4>1, <4>2, SameEffect
    <3>4. told' = told \ {e}
      BY <2>1, <3>1, <3>3
    <3> QED BY <1>2, <3>1, <3>4 DEF L!Next, L!Told
  <2> QED BY <2>2, <2>3
<1>8. ASSUME ~answer[h].ok, request'[h] = request[h],
             NEW e \in effects, request[h] = e.request, answer'[h] = OK(e.result)
      PROVE  L!Next \/ UNCHANGED <<entries, told>>
  <2>1. Reports(h, e)'
    BY <1>8 DEF Reports
  <2>2. \A f \in effects : Reports(h, f)' => f = e
    <3> SUFFICES ASSUME NEW f \in effects, Reports(h, f)' PROVE f = e
      OBVIOUS
    <3>1. f.request = e.request /\ f.result = e.result
      BY <1>8 DEF Reports, OK
    <3> QED BY <1>1, <3>1, SameEffect
  <2>3. CASE ~Keyed(e)
    <3>1. \A f : f \in told' <=> f \in told
      BY <1>3, <1>4, <1>8, <2>2, <2>3, ToldMeans, ToldMeansNext
    <3> QED BY <1>2, <3>1
  <2>4. CASE Keyed(e)
    <3>1. \A f : f \in told' <=> f \in told \/ f = e
      BY <1>3, <1>4, <1>8, <2>1, <2>2, <2>4, ToldMeans, ToldMeansNext
    <3>2. told' = told \cup {e}
      BY <3>1
    <3>4. Entry(e) \in entries
      BY <2>4 DEF entries, Entry, Keyed
    <3>5. L!Tell(Entry(e))
      BY <1>2, <3>2 DEF L!Tell, Entry
    <3> QED BY <3>4, <3>5 DEF L!Next
  <2> QED BY <2>3, <2>4
<1> QED BY <1>6, <1>7, <1>8

\* A commit of a request with a key takes effect for its command, whose entry is
\* still empty; one without a key is no step of the ledger.
LEMMA CommitStep ==
  ASSUME CommandInv, NEW h \in Handlers, NEW x \in Results,
         pc[h] = "running", ~Duplicate(request[h]), Commit(h, x)
  PROVE  L!Next \/ UNCHANGED <<entries, told>>
<1> DEFINE c == Command(request[h])
<1>e. PICK e \in Effect : e = [request |-> request[h], result |-> x]
  BY DEF CommandInv, TypeInv, Working, Effect
<1>1. effects \subseteq Effect
  BY DEF CommandInv, TypeInv, RowsOK
<1>2. effects' = effects \cup {e}
  BY <1>e DEF Commit
<1>3. ~answer[h].ok
  BY DEF CommandInv, AnswerInv, Silent
<1>4. /\ UNCHANGED request
      /\ answer'[h] = OK(x)
      /\ \A g \in Handlers \ {h} : answer'[g] = answer[g]
  BY DEF Commit, CommandInv, TypeInv, HandlersOK
<1>5. e.request = request[h] /\ e.result = x
  BY <1>e
<1>6. Reports(h, e)'
  BY <1>4, <1>5 DEF Reports
<1>7. \A f : ~Reports(h, f)
  BY <1>3 DEF Reports, OK
<1>8. \A f, g : g \in Handlers /\ g # h => (Reports(g, f)' <=> Reports(g, f))
  BY <1>4 DEF Reports
<1>9. \A f \in effects : Reports(h, f)' => f = e
  <2> SUFFICES ASSUME NEW f \in effects, Reports(h, f)' PROVE f = e
    OBVIOUS
  <2>1. f.request = e.request /\ f.result = e.result
    BY <1>4, <1>5 DEF Reports, OK
  <2> QED BY <1>1, <2>1, SameEffect
<1>10. CASE ~Keyed(e)
  <2>1. \A f : f \in told' <=> f \in told
    BY <1>2, <1>7, <1>8, <1>9, <1>10, ToldMeans, ToldMeansNext
  <2>2. UNCHANGED entries
    BY <1>2, <1>10 DEF entries, Keyed
  <2> QED BY <2>1, <2>2
<1>11. CASE Keyed(e)
  <2>1. \A f : f \in told' <=> f \in told \/ f = e
    <3>1. \A f \in effects, g \in Handlers : Reports(g, f) => Reports(g, f)'
      BY <1>7, <1>8
    <3>2. ASSUME NEW f \in told' PROVE f \in told \/ f = e
      BY <1>2, <1>8, <1>9, ToldMeans, ToldMeansNext
    <3>3. ASSUME NEW f \in told PROVE f \in told'
      BY <1>2, <3>1, ToldMeans, ToldMeansNext
    <3>4. e \in told'
      BY <1>2, <1>6, <1>11, ToldMeansNext
    <3> QED BY <3>2, <3>3, <3>4
  <2>2. told' = told \cup {e}
    BY <2>1
  <2>3. c \in Commands
    BY <1>1, <1>5, <1>11, KeyedCommand
  <2>4. \A f \in effects : Command(f.request) # c
    <3> SUFFICES ASSUME NEW f \in effects, Command(f.request) = c PROVE FALSE
      OBVIOUS
    <3>1. Keyed(f)
      BY <1>1, <2>3, KeyedCommand
    <3>2. SavedOf(f) \in saved
      BY <3>1 DEF CommandInv, KeyInv, EffectsSaved, Keyed
    <3>3. SavedOf(f).command = c
      BY DEF SavedOf
    <3> QED BY <1>5, <1>11, <3>2, <3>3 DEF Duplicate, SavedFor, Keyed
  <2>5. entries' = entries \cup {Entry(e)}
    BY <1>2, <1>11 DEF entries, Entry, Keyed
  <2>6. \A y \in entries : y.command # c
    BY <2>4 DEF entries
  <2>7. Entry(e).command = c /\ Entry(e).effect = e
    BY <1>5 DEF Entry
  <2> HIDE DEF c
  <2>8. L!TakeEffect(Entry(e))
    BY <2>2, <2>3, <2>5, <2>6, <2>7 DEF L!TakeEffect
  <2>9. Entry(e) \in entries'
    BY <2>5
  <2> QED BY <2>8, <2>9 DEF L!Next
<1> QED BY <1>10, <1>11

LEMMA LedgerNext ==
  ASSUME CommandInv, [Next]_vars
  PROVE  L!Next \/ UNCHANGED <<entries, told>>
<1> USE DEF CommandInv, TypeInv, HandlersOK
<1>1. CASE UNCHANGED vars
  BY <1>1 DEF vars, shopVars, entries, told
<1>2. ASSUME NEW h \in Handlers, NEW r \in Asked, Receive(h, r)
      PROVE  L!Next \/ UNCHANGED <<entries, told>>
  <2>1. ~answer'[h].ok
    BY <1>2 DEF Receive, AnswerInv, Silent
  <2>2. /\ UNCHANGED effects
        /\ \A g \in Handlers \ {h} : request'[g] = request[g] /\ answer'[g] = answer[g]
    BY <1>2 DEF Receive, shopVars
  <2> QED BY <2>1, <2>2, QuietStep
<1>3. ASSUME NEW h \in Handlers, TakeKey(h)
      PROVE  L!Next \/ UNCHANGED <<entries, told>>
  <2>1. UNCHANGED <<effects, request>> /\ request[h] \in Requests /\ ~answer[h].ok
    BY <1>3 DEF TakeKey, shopVars, Working, AnswerInv, Silent
  <2>2. \A g \in Handlers \ {h} : request'[g] = request[g] /\ answer'[g] = answer[g]
    BY <1>3 DEF TakeKey
  <2>3. CASE answer' = answer
    BY <2>1, <2>2, <2>3, QuietStep
  <2>4. ASSUME NEW s \in SavedFor(request[h]),
               answer' = [answer EXCEPT ![h] = Replayed(request[h], s)]
        PROVE  L!Next \/ UNCHANGED <<entries, told>>
    <3>1. answer'[h] = Replayed(request[h], s)
      BY <2>4
    <3>2. CASE ~answer'[h].ok
      BY <2>1, <2>2, <3>2, QuietStep
    <3>3. CASE answer'[h].ok
      <4>1. s \in saved /\ s.command = Command(request[h])
        BY DEF SavedFor
      <4>2. PICK e \in effects : e = [request |-> request[h],
                                      result |-> Replayed(request[h], s).result]
        BY <2>1, <3>1, <3>3, <4>1, ReplayHappened
      <4>3. Replayed(request[h], s) = OK(s.result)
        BY <3>1, <3>3 DEF Replayed, Refused
      <4>4. answer'[h] = OK(e.result) /\ e.request = request[h]
        BY <3>1, <4>2, <4>3 DEF OK
      <4> QED BY <2>1, <2>2, <4>2, <4>4, QuietStep
    <3> QED BY <3>2, <3>3
  <2> QED BY <1>3, <2>3, <2>4 DEF TakeKey
<1>4. ASSUME NEW h \in Handlers, Fail(h)
      PROVE  L!Next \/ UNCHANGED <<entries, told>>
  <2>1. PICK why \in Refusals : Refuse(h, why)
    BY <1>4 DEF Fail, Refusals
  <2>2. ~answer'[h].ok /\ UNCHANGED <<effects, request>>
    BY <2>1 DEF Refuse, Refused, shopVars
  <2>3. \A g \in Handlers \ {h} : request'[g] = request[g] /\ answer'[g] = answer[g]
    BY <2>1 DEF Refuse
  <2> QED BY <2>2, <2>3, QuietStep
<1>5. ASSUME NEW h \in Handlers, EndReplay(h)
      PROVE  L!Next \/ UNCHANGED <<entries, told>>
  BY <1>5, QuietStep DEF EndReplay, shopVars
<1>6. ASSUME NEW h \in Handlers, Respond(h) \/ Crash(h)
      PROVE  L!Next \/ UNCHANGED <<entries, told>>
  <2>1. ~answer'[h].ok /\ UNCHANGED effects
    BY <1>6 DEF Respond, Crash, shopVars, NoAnswer, Refused
  <2>2. \A g \in Handlers \ {h} : request'[g] = request[g] /\ answer'[g] = answer[g]
    BY <1>6 DEF Respond, Crash
  <2> QED BY <2>1, <2>2, QuietStep
<1>7. ASSUME NEW h \in Handlers,
             \/ ReplaceCart(h) \/ PlaceOrder(h) \/ \E o \in Orders : CreateOrder(h, o)
      PROVE  L!Next \/ UNCHANGED <<entries, told>>
  <2>1. /\ pc[h] = "running" /\ request[h] \in Requests
        /\ ~Duplicate(request[h]) /\ ~Stale(request[h])
    BY <1>7 DEF ReplaceCart, PlaceOrder, CreateOrder, Runs, Working
  <2>2. CASE ReplaceCart(h)
    <3>1. cart[request[h].user].version = request[h].version
      BY <2>1, <2>2 DEF ReplaceCart, Runs, Stale
    <3>2. cart[request[h].user].version + 1 \in Results
      BY <2>1, <3>1, RequestFields DEF Results, Versions
    <3> QED BY <2>1, <2>2, <3>2, CommitStep DEF ReplaceCart
  <2>3. CASE PlaceOrder(h)
    BY <2>1, <2>3, RequestFields, CommitStep DEF PlaceOrder, Runs, Results
  <2>4. CASE \E o \in Orders : CreateOrder(h, o)
    BY <2>1, <2>4, CommitStep DEF CreateOrder, Results
  <2> QED BY <1>7, <2>2, <2>3, <2>4
<1> QED BY <1>1, <1>2, <1>3, <1>4, <1>5, <1>6, <1>7 DEF Next, Finish

\* The handlers implement the ledger, whatever copies, crashes and lost responses there
\* are: a key takes effect once, whole, and only what took effect is reported.
THEOREM LedgerTheorem == Spec => LedgerSpec
<1>1. Init => L!Init
  BY DEF Init, L!Init, entries, told
<1>2. CommandInv /\ [Next]_vars => [L!Next]_<<entries, told>>
  BY LedgerNext
<1> QED BY <1>1, <1>2, CommandInvariant, PTL DEF Spec, LedgerSpec, L!Spec

-----------------------------------------------------------------------------
(* What never comes back: versions of carts, states of orders *)

\* Versions of carts grow, contents change with them, orders keep their owner and the
\* version of their cart, and a placed order stays placed.
Grown ==
    /\ \A u \in Users : \/ cart'[u] = cart[u]
                        \/ cart'[u].version > cart[u].version
    /\ \A o \in Orders : order[o].status # "absent" =>
          /\ order'[o].status # "absent"
          /\ order'[o].owner = order[o].owner
          /\ order'[o].cartVersion = order[o].cartVersion
          /\ order[o].status = "placed" => order'[o].status = "placed"
          /\ order'[o].version # order[o].version => order'[o].status = "placed"

\* An order is drafted for a user, from the version the cart has.
Drafted ==
    \A o \in Orders : order[o].status = "absent" /\ order'[o].status # "absent" =>
        /\ order'[o].owner \in Users
        /\ order'[o].cartVersion = cart[order'[o].owner].version

LEMMA RowsGrow ==
  ASSUME TypeInv, [Next]_vars
  PROVE  Grown /\ Drafted
<1> USE DEF Grown, Drafted
<1>1. CASE UNCHANGED vars
  BY <1>1 DEF vars, shopVars
<1>2. ASSUME NEW h \in Handlers, ReplaceCart(h) PROVE Grown /\ Drafted
  BY <1>2 DEF ReplaceCart, TypeInv, RowsOK
<1>3. ASSUME NEW h \in Handlers, NEW o \in Orders, CreateOrder(h, o) PROVE Grown /\ Drafted
  <2>1. /\ request[h] \in Requests /\ request[h].op = "order:create"
        /\ request[h].user \in Users
    BY <1>3, RequestFields DEF CreateOrder, Runs, TypeInv, Working
  <2>2. request[h].version = cart[request[h].user].version
    BY <1>3, <2>1 DEF CreateOrder, Runs, Stale
  <2>3. /\ UNCHANGED cart
        /\ order[o].status = "absent"
        /\ \A p \in Orders \ {o} : order'[p] = order[p]
    BY <1>3 DEF CreateOrder, TypeInv, RowsOK
  <2>4. order'[o] = [order[o] EXCEPT !.status = "draft", !.owner = request[h].user,
                                     !.cartVersion = request[h].version]
    BY <1>3 DEF CreateOrder, TypeInv, RowsOK
  <2>5. order'[o].owner = request[h].user /\ order'[o].cartVersion = request[h].version
    BY <2>4 DEF TypeInv, RowsOK
  <2> QED BY <2>1, <2>2, <2>3, <2>5
<1>4. ASSUME NEW h \in Handlers, PlaceOrder(h) PROVE Grown /\ Drafted
  <2> DEFINE r == request[h]
  <2>1. r.arg \in Orders
    BY <1>4, RequestFields DEF PlaceOrder, Runs, TypeInv, Working
  <2>2. order[r.arg].status = "draft"
    BY <1>4 DEF PlaceOrder, Runs, Stale
  <2>3. cart' = [cart EXCEPT ![CartOwner(r)] = Emptied(cart[CartOwner(r)])]
    BY <1>4 DEF PlaceOrder
  <2>4. \A u \in Users : cart'[u] = cart[u] \/ cart'[u].version > cart[u].version
    BY <2>3 DEF Emptied, TypeInv, RowsOK
  <2>5. \A p \in Orders : p # r.arg => order'[p] = order[p]
    BY <1>4 DEF PlaceOrder, TypeInv, RowsOK
  <2>6. /\ order'[r.arg].status = "placed"
        /\ order'[r.arg].owner = order[r.arg].owner
        /\ order'[r.arg].cartVersion = order[r.arg].cartVersion
    BY <1>4, <2>1 DEF PlaceOrder, TypeInv, RowsOK
  <2> QED BY <2>2, <2>4, <2>5, <2>6
<1>5. ASSUME NEW h \in Handlers,
             \/ \E r \in Asked : Receive(h, r)
             \/ TakeKey(h) \/ Fail(h) \/ EndReplay(h) \/ Respond(h) \/ Crash(h)
      PROVE Grown /\ Drafted
  BY <1>5 DEF Receive, TakeKey, Fail, Refuse, EndReplay, Respond, Crash, shopVars
<1> QED BY <1>1, <1>2, <1>3, <1>4, <1>5 DEF Next, Finish

\* An order never names a version its cart has not reached.
FromReached ==
    \A o \in Orders : order[o].status # "absent" =>
        /\ order[o].owner \in Users
        /\ order[o].cartVersion <= cart[order[o].owner].version

\* What a handler works on, its client has seen.
WorksOnSeen == \A h \in Handlers : pc[h] # "idle" => Seen(request[h])

LEMMA ReachedNext ==
  ASSUME TypeInv, FromReached, [Next]_vars
  PROVE  FromReached'
<1> SUFFICES ASSUME NEW o \in Orders, order'[o].status # "absent"
             PROVE  /\ order'[o].owner \in Users
                    /\ order'[o].cartVersion <= cart'[order'[o].owner].version
  BY DEF FromReached
<1>2. RowsOK /\ RowsOK'
  BY RowsNext DEF TypeInv
<1>1. \A u \in Users : cart'[u].version >= cart[u].version
  <2> SUFFICES ASSUME NEW u \in Users PROVE cart'[u].version >= cart[u].version
    OBVIOUS
  <2>1. cart[u].version \in Nat /\ cart'[u].version \in Nat
    BY <1>2 DEF RowsOK
  <2> QED BY <2>1, RowsGrow DEF Grown
<1>3. CASE order[o].status # "absent"
  BY <1>1, <1>2, <1>3, RowsGrow DEF Grown, FromReached, RowsOK
<1>4. CASE order[o].status = "absent"
  BY <1>1, <1>2, <1>4, RowsGrow DEF Drafted, RowsOK
<1> QED BY <1>3, <1>4

\* What has been seen stays so.
LEMMA SeenStays ==
  ASSUME TypeInv, [Next]_vars, NEW r \in Requests, Seen(r)
  PROVE  Seen(r)'
<1>1. RowsOK /\ RowsOK'
  BY RowsNext DEF TypeInv
<1>2. r.user \in Users /\ r.version \in Nat /\ (r.op = "order:place" => r.arg \in Orders)
  BY RequestFields
<1>3. CASE r.op = "order:place"
  BY <1>2, <1>3, RowsGrow DEF Grown, Seen
<1>4. CASE r.op # "order:place"
  <2>1. r.version <= cart[r.user].version
    BY <1>4 DEF Seen
  <2>2. cart[r.user].version \in Nat /\ cart'[r.user].version \in Nat
    BY <1>1, <1>2 DEF RowsOK
  <2>3. cart'[r.user] = cart[r.user] \/ cart'[r.user].version > cart[r.user].version
    BY <1>2, RowsGrow DEF Grown
  <2>4. r.version <= cart'[r.user].version
    <3>1. CASE cart'[r.user] = cart[r.user]
      BY <2>1, <3>1
    <3>2. CASE cart'[r.user].version > cart[r.user].version
      BY <1>2, <2>1, <2>2, <3>2
    <3> QED BY <2>3, <3>1, <3>2
  <2> QED BY <1>4, <2>4 DEF Seen
<1> QED BY <1>3, <1>4

LEMMA WorksOnSeenNext ==
  ASSUME TypeInv, WorksOnSeen, [Next]_vars
  PROVE  WorksOnSeen'
<1> DEFINE SeenNext(r) == IF r.op = "order:place" THEN order'[r.arg].status # "absent"
                          ELSE r.version <= cart'[r.user].version
<1> SUFFICES ASSUME NEW g \in Handlers, pc'[g] # "idle" PROVE SeenNext(request'[g])
  BY DEF WorksOnSeen, Seen
<1>1. CASE pc[g] # "idle" /\ request'[g] = request[g]
  <2>1. \A r \in Requests : Seen(r) => SeenNext(r)
    BY SeenStays DEF Seen
  <2>2. request[g] \in Requests /\ Seen(request[g])
    BY <1>1 DEF WorksOnSeen, TypeInv, Working
  <2> QED BY <1>1, <2>1, <2>2
<1>2. ASSUME NEW r \in Asked, Receive(g, r) PROVE SeenNext(request'[g])
  <2>1. request'[g] = r /\ Seen(r) /\ UNCHANGED <<cart, order>>
    BY <1>2 DEF Receive, shopVars, TypeInv, HandlersOK
  <2> QED BY <2>1 DEF Seen
<1>3. \/ pc[g] # "idle" /\ request'[g] = request[g]
      \/ \E r \in Asked : Receive(g, r)
  <2>1. CASE UNCHANGED vars
    BY <2>1 DEF vars
  <2>2. ASSUME NEW h \in Handlers, NEW r \in Asked, Receive(h, r)
        PROVE  \/ pc[g] # "idle" /\ request'[g] = request[g]
               \/ \E q \in Asked : Receive(g, q)
    BY <2>2 DEF Receive, TypeInv, HandlersOK
  <2>3. ASSUME NEW h \in Handlers, TakeKey(h) \/ Finish(h) \/ Respond(h) \/ Crash(h)
        PROVE  pc[g] # "idle" /\ request'[g] = request[g]
    BY <2>3 DEF TakeKey, Finish, ReplaceCart, PlaceOrder, CreateOrder, Fail, Refuse, EndReplay,
                Respond, Crash, Commit, Runs, TypeInv, HandlersOK
  <2> QED BY <2>1, <2>2, <2>3 DEF Next
<1> QED BY <1>1, <1>2, <1>3

\* What is stale for a request that has been seen stays stale.
LEMMA StaleStays ==
  ASSUME TypeInv, FromReached, [Next]_vars, NEW r \in Requests, Seen(r), Stale(r)
  PROVE  Stale(r)'
<1>1. RowsOK /\ RowsOK'
  BY RowsNext DEF TypeInv
<1>2. r.user \in Users /\ r.version \in Nat
  BY RequestFields
<1>3. \A u \in Users : \/ cart'[u] = cart[u]
                       \/ cart'[u].version > cart[u].version
  BY RowsGrow DEF Grown
<1>4. CASE r.op = "order:place"
  <2> DEFINE o == r.arg
  <2>1. o \in Orders /\ order[o].status # "absent"
    BY <1>4, RequestFields DEF Seen
  <2> HIDE DEF o
  <2>2. /\ order'[o].owner = order[o].owner
        /\ order'[o].cartVersion = order[o].cartVersion
        /\ order[o].status = "placed" => order'[o].status = "placed"
        /\ order'[o].version # order[o].version => order'[o].status = "placed"
    BY <2>1, RowsGrow DEF Grown
  <2>3. /\ order[o].owner \in Users
        /\ order[o].cartVersion <= cart[order[o].owner].version
    BY <2>1 DEF FromReached
  <2>4. order[o].status \in {"draft", "placed"} /\ order[o].cartVersion \in Nat
    BY <1>1, <2>1 DEF RowsOK
  <2>5. /\ cart[order[o].owner].version \in Nat
        /\ cart'[order[o].owner].version \in Nat
    BY <1>1, <2>3 DEF RowsOK
  <2>6. \/ order[o].version # r.version
        \/ order[o].status # "draft"
        \/ order[o].cartVersion # cart[order[o].owner].version
    BY <1>4 DEF Stale, CartOwner, o
  <2>7. \/ order'[o].version # r.version
        \/ order'[o].status # "draft"
        \/ order'[o].cartVersion # cart'[order'[o].owner].version
    BY <1>3, <2>2, <2>3, <2>4, <2>5, <2>6
  <2> QED BY <1>4, <2>7 DEF Stale, CartOwner, o
<1>5. CASE r.op # "order:place"
  <2>1. r.version <= cart[r.user].version
    BY <1>5 DEF Seen
  <2>2. cart[r.user].version \in Nat /\ cart'[r.user].version \in Nat
    BY <1>1, <1>2 DEF RowsOK
  <2>3. \/ r.version # cart[r.user].version
        \/ r.op = "order:create" /\ cart[r.user].content = Empty
    BY <1>5 DEF Stale
  <2>4. \/ r.version # cart'[r.user].version
        \/ r.op = "order:create" /\ cart'[r.user].content = Empty
    BY <1>2, <1>3, <2>1, <2>2, <2>3
  <2> QED BY <1>5, <2>4 DEF Stale
<1> QED BY <1>4, <1>5

-----------------------------------------------------------------------------
(* Refusals *)

\* Why a refused request can never take effect: its key is used for another, or it is
\* stale and no copy of it has committed.
RefusedInv ==
    \A r \in refused :
        /\ r.key # NoKey
        /\ \/ \E s \in saved : s.command = Command(r) /\ s.payload # Payload(r)
           \/ /\ Seen(r) /\ Stale(r)
              /\ \A e \in effects : e.request # r

HistoryInv == FromReached /\ WorksOnSeen /\ RefusedInv

LEMMA HistoryInit == Init => HistoryInv
  BY DEF Init, HistoryInv, FromReached, WorksOnSeen, RefusedInv

\* A commit is made for a request that is not stale.
LEMMA CommitsFresh ==
  ASSUME TypeInv, [Next]_vars
  PROVE  /\ saved \subseteq saved'
         /\ \A e \in effects' \ effects : ~Stale(e.request)
<1>1. CASE UNCHANGED vars
  BY <1>1 DEF vars, shopVars
<1>2. ASSUME NEW h \in Handlers,
             \/ ReplaceCart(h) \/ PlaceOrder(h) \/ \E o \in Orders : CreateOrder(h, o)
      PROVE  /\ saved \subseteq saved'
             /\ \A e \in effects' \ effects : ~Stale(e.request)
  <2>1. ~Stale(request[h])
    BY <1>2 DEF ReplaceCart, PlaceOrder, CreateOrder, Runs
  <2>2. PICK x : Commit(h, x)
    BY <1>2 DEF ReplaceCart, PlaceOrder, CreateOrder
  <2>3. effects' = effects \cup {[request |-> request[h], result |-> x]}
    BY <2>2 DEF Commit
  <2>4. \A e \in effects' \ effects : e.request = request[h]
    BY <2>3
  <2>5. saved \subseteq saved'
    BY <2>2 DEF Commit, Save
  <2> QED BY <2>1, <2>4, <2>5
<1>3. ASSUME NEW h \in Handlers,
             \/ \E r \in Asked : Receive(h, r)
             \/ TakeKey(h) \/ Fail(h) \/ EndReplay(h) \/ Respond(h) \/ Crash(h)
      PROVE  /\ saved \subseteq saved'
             /\ \A e \in effects' \ effects : ~Stale(e.request)
  BY <1>3 DEF Receive, TakeKey, Fail, Refuse, EndReplay, Respond, Crash, shopVars
<1> QED BY <1>1, <1>2, <1>3 DEF Next, Finish

\* A request becomes refused for one of the two reasons.
LEMMA RefusedFor ==
  ASSUME CommandInv, WorksOnSeen, [Next]_vars, NEW r \in refused' \ refused
  PROVE  /\ UNCHANGED shopVars
         /\ r.key # NoKey
         /\ \/ \E s \in saved : s.command = Command(r) /\ s.payload # Payload(r)
            \/ /\ Seen(r) /\ Stale(r)
               /\ \A e \in effects : e.request # r
<1> DEFINE Why == /\ UNCHANGED shopVars
                  /\ r.key # NoKey
                  /\ \/ \E s \in saved : s.command = Command(r) /\ s.payload # Payload(r)
                     \/ /\ Seen(r) /\ Stale(r)
                        /\ \A e \in effects : e.request # r
<1>1. ASSUME NEW h \in Handlers, TakeKey(h) PROVE Why
  <2>1. UNCHANGED shopVars /\ pc[h] = "waiting"
    BY <1>1 DEF TakeKey
  <2>2. PICK s \in SavedFor(request[h]) :
          refused' = IF Replayed(request[h], s).ok THEN refused ELSE refused \cup {request[h]}
    BY <1>1 DEF TakeKey
  <2>3. r = request[h] /\ ~Replayed(request[h], s).ok
    BY <2>2
  <2>4. s \in saved /\ s.command = Command(r) /\ s.payload # Payload(r)
    BY <2>2, <2>3 DEF SavedFor, Replayed, OK
  <2>5. r.key # NoKey
    BY <2>1, <2>3 DEF CommandInv, TypeInv, WaitsForKey
  <2> QED BY <2>1, <2>4, <2>5
<1>2. ASSUME NEW h \in Handlers, Fail(h) PROVE Why
  <2>1. PICK why \in Refusals : /\ Refuse(h, why)
                                /\ why \in FinalRefusals => Stale(request[h])
    BY <1>2 DEF Fail, Refusals, FinalRefusals
  <2>2. /\ r = request[h] /\ r.key # NoKey /\ Stale(r)
        /\ UNCHANGED shopVars
    BY <2>1 DEF Refuse
  <2>3. pc[h] = "running"
    BY <1>2 DEF Fail
  <2>4. Seen(r)
    BY <2>2, <2>3 DEF WorksOnSeen
  <2>5. NoneSaved(r)
    BY <2>2, <2>3 DEF CommandInv, KeyInv, RunsAlone
  <2>6. ASSUME NEW e \in effects, e.request = r PROVE FALSE
    <3>1. SavedOf(e) \in saved
      BY <2>2, <2>6 DEF CommandInv, KeyInv, EffectsSaved
    <3>2. SavedOf(e).command = Command(r)
      BY <2>6 DEF SavedOf
    <3> QED BY <2>5, <3>1, <3>2 DEF NoneSaved
  <2> QED BY <2>2, <2>4, <2>6
<1>3. \E h \in Handlers : TakeKey(h) \/ Fail(h)
  BY DEF Next, Finish, vars, Receive, ReplaceCart, PlaceOrder, CreateOrder, Commit, EndReplay,
         Respond, Crash
<1> QED BY <1>1, <1>2, <1>3

LEMMA RefusedNext ==
  ASSUME CommandInv, HistoryInv, [Next]_vars
  PROVE  RefusedInv'
<1> SUFFICES ASSUME NEW r \in refused'
             PROVE  /\ r.key # NoKey
                    /\ \/ \E s \in saved' : s.command = Command(r) /\ s.payload # Payload(r)
                       \/ /\ Seen(r)' /\ Stale(r)'
                          /\ \A e \in effects' : e.request # r
  BY DEF RefusedInv, Command, Payload, Seen, Stale, CartOwner
<1>1. CASE r \in refused
  <2>1. r \in Requests /\ r.key # NoKey
    BY <1>1 DEF CommandInv, TypeInv, HandlersOK, HistoryInv, RefusedInv
  <2>2. CASE \E s \in saved : s.command = Command(r) /\ s.payload # Payload(r)
    BY <2>1, <2>2, CommitsFresh DEF CommandInv
  <2>3. CASE Seen(r) /\ Stale(r) /\ \A e \in effects : e.request # r
    <3>1. Seen(r)'
      BY <2>1, <2>3, SeenStays DEF CommandInv
    <3>2. Stale(r)'
      BY <2>1, <2>3, StaleStays DEF CommandInv, HistoryInv
    <3>3. \A e \in effects' : e.request # r
      BY <2>3, CommitsFresh DEF CommandInv
    <3> QED BY <2>1, <3>1, <3>2, <3>3
  <2> QED BY <1>1, <2>2, <2>3 DEF HistoryInv, RefusedInv
<1>2. CASE r \notin refused
  <2>1. /\ UNCHANGED <<cart, order, saved, effects>>
        /\ r.key # NoKey
        /\ \/ \E s \in saved : s.command = Command(r) /\ s.payload # Payload(r)
           \/ /\ Seen(r) /\ Stale(r)
              /\ \A e \in effects : e.request # r
    BY <1>2, RefusedFor DEF HistoryInv, shopVars
  <2>2. (Seen(r) => Seen(r)') /\ (Stale(r) => Stale(r)')
    BY <2>1 DEF Seen, Stale, CartOwner
  <2> QED BY <2>1, <2>2
<1> QED BY <1>1, <1>2

LEMMA HistoryInvariant == Spec => [](CommandInv /\ HistoryInv)
<1>1. Init => HistoryInv
  BY HistoryInit
<1>2. CommandInv /\ HistoryInv /\ [Next]_vars => HistoryInv'
  BY ReachedNext, WorksOnSeenNext, RefusedNext DEF HistoryInv, CommandInv
<1> QED BY <1>1, <1>2, CommandInvariant, PTL DEF Spec

\* A refusal for a stale version or a used key is final: what was compared never turns
\* back, so no copy of the request takes effect before or after it.
THEOREM RefusalsInvariant == Spec => []RefusalsAreFinal
<1>1. CommandInv /\ HistoryInv => RefusalsAreFinal
  <2> SUFFICES ASSUME CommandInv, HistoryInv, NEW e \in effects, e.request \in refused
               PROVE  FALSE
    BY DEF RefusalsAreFinal
  <2>1. /\ e.request.key # NoKey
        /\ \E s \in saved : /\ s.command = Command(e.request)
                            /\ s.payload # Payload(e.request)
    BY DEF HistoryInv, RefusedInv
  <2>2. PICK s \in saved : s.command = Command(e.request) /\ s.payload # Payload(e.request)
    BY <2>1
  <2>3. SavedOf(e) \in saved
    BY <2>1 DEF CommandInv, KeyInv, EffectsSaved
  <2>4. s = SavedOf(e)
    BY <2>2, <2>3 DEF CommandInv, KeyInv, SavedOnce, SavedOf
  <2> QED BY <2>2, <2>4 DEF SavedOf
<1> QED BY <1>1, HistoryInvariant, PTL

-----------------------------------------------------------------------------
(* Versions of carts *)

\* The version an effect used up.
Used(e) == IF e.request.op = "cart:replace" THEN e.request.version
           ELSE order[e.request.arg].cartVersion

Uses(e) == e.request.op # "order:create"

\* What an effect used up lies behind its cart; an order that was placed stays so.
UsedInv ==
    \A e \in effects : Uses(e) =>
        /\ CartOwner(e.request) \in Users
        /\ Used(e) \in Nat
        /\ Used(e) < cart[CartOwner(e.request)].version
        /\ e.request.op = "order:place" => order[e.request.arg].status = "placed"

\* A new effect uses up the version its cart has, and no other cart.
LEMMA CommitUses ==
  ASSUME TypeInv, FromReached, [Next]_vars, NEW e \in effects' \ effects, Uses(e)
  PROVE  /\ CartOwner(e.request)' = CartOwner(e.request)
         /\ CartOwner(e.request) \in Users
         /\ Used(e)' = cart[CartOwner(e.request)].version
         /\ cart'[CartOwner(e.request)].version = cart[CartOwner(e.request)].version + 1
         /\ e.request.op = "order:place" => order'[e.request.arg].status = "placed"
         /\ effects' = effects \cup {e}
<1> DEFINE Goal == /\ CartOwner(e.request)' = CartOwner(e.request)
                   /\ CartOwner(e.request) \in Users
                   /\ Used(e)' = cart[CartOwner(e.request)].version
                   /\ cart'[CartOwner(e.request)].version = cart[CartOwner(e.request)].version + 1
                   /\ e.request.op = "order:place" => order'[e.request.arg].status = "placed"
                   /\ effects' = effects \cup {e}
<1>1. ASSUME NEW h \in Handlers, ReplaceCart(h) PROVE Goal
  <2> DEFINE r == request[h]
  <2>1. /\ r \in Requests /\ r.op = "cart:replace" /\ ~Stale(r) /\ r.user \in Users
    BY <1>1, RequestFields DEF ReplaceCart, Runs, TypeInv, Working
  <2>2. PICK x : Commit(h, x)
    BY <1>1 DEF ReplaceCart
  <2>3. e.request = r /\ effects' = effects \cup {e}
    BY <2>2 DEF Commit
  <2>4. r.version = cart[r.user].version
    BY <2>1 DEF Stale
  <2>5. cart'[r.user].version = cart[r.user].version + 1
    BY <1>1, <2>1 DEF ReplaceCart, TypeInv, RowsOK
  <2>6. CartOwner(e.request) = r.user /\ CartOwner(e.request)' = r.user
    BY <2>1, <2>3 DEF CartOwner
  <2>7. Used(e)' = r.version
    BY <2>1, <2>3 DEF Used
  <2> QED BY <2>1, <2>3, <2>4, <2>5, <2>6, <2>7
<1>2. ASSUME NEW h \in Handlers, PlaceOrder(h) PROVE Goal
  <2> DEFINE r == request[h]
             u == order[r.arg].owner
  <2>1. /\ r.op = "order:place" /\ ~Stale(r) /\ r.arg \in Orders
    BY <1>2, RequestFields DEF PlaceOrder, Runs, TypeInv, Working
  <2>2. PICK x : Commit(h, x)
    BY <1>2 DEF PlaceOrder
  <2>3. e.request = r /\ effects' = effects \cup {e}
    BY <2>2 DEF Commit
  <2>4. order[r.arg].cartVersion = cart[u].version /\ order[r.arg].status = "draft"
    BY <2>1 DEF Stale, CartOwner
  <2>5. u \in Users
    BY <2>1, <2>4 DEF FromReached
  <2>6. /\ order'[r.arg].status = "placed"
        /\ order'[r.arg].owner = u
        /\ order'[r.arg].cartVersion = order[r.arg].cartVersion
    BY <1>2, <2>1 DEF PlaceOrder, TypeInv, RowsOK
  <2>7. cart' = [cart EXCEPT ![u] = Emptied(cart[u])]
    BY <1>2, <2>1 DEF PlaceOrder, CartOwner
  <2>8. cart'[u].version = cart[u].version + 1
    BY <2>5, <2>7 DEF Emptied, TypeInv, RowsOK
  <2>9. CartOwner(e.request) = u /\ CartOwner(e.request)' = u
    BY <2>1, <2>3, <2>6 DEF CartOwner
  <2>10. Used(e)' = order[r.arg].cartVersion
    BY <2>1, <2>3, <2>6 DEF Used
  <2> QED BY <2>1, <2>3, <2>4, <2>5, <2>6, <2>8, <2>9, <2>10
<1>3. ASSUME NEW h \in Handlers, NEW o \in Orders, CreateOrder(h, o) PROVE FALSE
  <2>1. PICK x : Commit(h, x)
    BY <1>3 DEF CreateOrder
  <2>2. e.request = request[h]
    BY <2>1 DEF Commit
  <2> QED BY <1>3, <2>2 DEF CreateOrder, Runs, Uses
<1>4. \E h \in Handlers : ReplaceCart(h) \/ PlaceOrder(h) \/ \E o \in Orders : CreateOrder(h, o)
  BY DEF Next, Finish, vars, shopVars, Receive, TakeKey, Fail, Refuse, EndReplay, Respond, Crash
<1> QED BY <1>1, <1>2, <1>3, <1>4

\* What an effect used up stays behind its cart, which stays the cart of its owner.
LEMMA UsedStays ==
  ASSUME TypeInv, UsedInv, [Next]_vars, NEW e \in effects, Uses(e)
  PROVE  /\ CartOwner(e.request)' = CartOwner(e.request)
         /\ Used(e)' = Used(e)
         /\ Used(e) < cart'[CartOwner(e.request)].version
         /\ e.request.op = "order:place" => order'[e.request.arg].status = "placed"
<1> DEFINE u == CartOwner(e.request)
<1>1. RowsOK /\ RowsOK'
  BY RowsNext DEF TypeInv
<1>2. /\ e.request.op = "order:place" => e.request.arg \in Orders
      /\ e.request.op \in {"cart:replace", "order:place"}
  BY <1>1, RequestFields DEF RowsOK, Effect, Uses
<1>3. /\ u \in Users /\ Used(e) \in Nat /\ Used(e) < cart[u].version
      /\ e.request.op = "order:place" => order[e.request.arg].status = "placed"
  BY DEF UsedInv
<1>4. /\ cart[u].version \in Nat /\ cart'[u].version \in Nat
      /\ cart'[u] = cart[u] \/ cart'[u].version > cart[u].version
  BY <1>1, <1>3, RowsGrow DEF RowsOK, Grown
<1>5. Used(e) < cart'[u].version
  <2> HIDE DEF u
  <2> QED BY <1>3, <1>4
<1>6. CASE e.request.op = "cart:replace"
  BY <1>5, <1>6 DEF Used, CartOwner
<1>7. CASE e.request.op = "order:place"
  <2> DEFINE o == e.request.arg
  <2>1. o \in Orders /\ order[o].status = "placed"
    BY <1>2, <1>3, <1>7
  <2>2. /\ order'[o].owner = order[o].owner
        /\ order'[o].cartVersion = order[o].cartVersion
        /\ order'[o].status = "placed"
    BY <2>1, RowsGrow DEF Grown
  <2>3. CartOwner(e.request)' = CartOwner(e.request) /\ Used(e)' = Used(e)
    BY <1>7, <2>2 DEF Used, CartOwner
  <2> QED BY <1>5, <2>2, <2>3
<1> QED BY <1>2, <1>6, <1>7

LEMMA UsedNext ==
  ASSUME TypeInv, FromReached, UsedInv, CartVersionsUsedOnce, [Next]_vars
  PROVE  UsedInv' /\ CartVersionsUsedOnce'
<1>1. RowsOK /\ RowsOK'
  BY RowsNext DEF TypeInv
<1>2. \A u \in Users : cart[u].version \in Nat /\ cart'[u].version \in Nat
  BY <1>1 DEF RowsOK
<1>3. UsedInv'
  <2> SUFFICES ASSUME NEW e \in effects', Uses(e)
               PROVE  /\ CartOwner(e.request)' \in Users
                      /\ Used(e)' \in Nat
                      /\ Used(e)' < cart'[CartOwner(e.request)'].version
                      /\ e.request.op = "order:place" => order'[e.request.arg].status = "placed"
    BY DEF UsedInv, Uses, Used, CartOwner
  <2>1. CASE e \in effects
    BY <2>1, UsedStays DEF UsedInv
  <2>2. CASE e \notin effects
    <3>1. /\ CartOwner(e.request)' = CartOwner(e.request)
          /\ CartOwner(e.request) \in Users
          /\ Used(e)' = cart[CartOwner(e.request)].version
          /\ cart'[CartOwner(e.request)].version = cart[CartOwner(e.request)].version + 1
          /\ e.request.op = "order:place" => order'[e.request.arg].status = "placed"
      BY <2>2, CommitUses
    <3>2. cart[CartOwner(e.request)].version \in Nat
      BY <1>2, <3>1
    <3> QED BY <3>1, <3>2
  <2> QED BY <2>1, <2>2
<1>4. ASSUME NEW e \in effects', NEW f \in effects', Uses(e), Uses(f),
             CartOwner(e.request)' = CartOwner(f.request)', Used(e)' = Used(f)'
      PROVE  e = f
  <2>1. CASE e \in effects /\ f \in effects
    <3>1. CartOwner(e.request) = CartOwner(f.request) /\ Used(e) = Used(f)
      BY <1>4, <2>1, UsedStays
    <3> QED BY <1>4, <2>1, <3>1 DEF CartVersionsUsedOnce, Uses, Used
  <2>2. ASSUME NEW a \in effects', NEW b \in effects', Uses(a), Uses(b),
               a \notin effects, b \in effects,
               CartOwner(a.request)' = CartOwner(b.request)'
        PROVE  Used(a)' # Used(b)'
    <3>1. /\ Used(a)' = cart[CartOwner(a.request)].version
          /\ CartOwner(a.request)' = CartOwner(a.request)
          /\ CartOwner(a.request) \in Users
      BY <2>2, CommitUses
    <3>2. Used(b)' = Used(b) /\ CartOwner(b.request)' = CartOwner(b.request)
      BY <2>2, UsedStays
    <3>3. Used(b) \in Nat /\ Used(b) < cart[CartOwner(b.request)].version
      BY <2>2 DEF UsedInv
    <3>4. cart[CartOwner(a.request)].version \in Nat
      BY <1>2, <3>1
    <3>5. CartOwner(a.request) = CartOwner(b.request)
      BY <2>2, <3>1, <3>2
    <3>6. Used(b) # cart[CartOwner(a.request)].version
      BY <3>3, <3>4, <3>5
    <3> QED BY <3>1, <3>2, <3>6
  <2>3. CASE e \notin effects /\ f \notin effects
    BY <1>4, <2>3, CommitUses
  <2> QED BY <1>4, <2>1, <2>2, <2>3
<1>5. CartVersionsUsedOnce'
  BY <1>4 DEF CartVersionsUsedOnce, Uses, Used, CartOwner
<1> QED BY <1>3, <1>5

\* No change of a cart is lost: each version is replaced or turned into an order once,
\* with or without a key and whoever places the order, because the version of the
\* owner's cart is compared under the lock of its row.
THEOREM CartVersionsInvariant == Spec => []CartVersionsUsedOnce
<1>1. Init => UsedInv /\ CartVersionsUsedOnce
  BY DEF Init, UsedInv, CartVersionsUsedOnce
<1>2. CommandInv /\ HistoryInv /\ UsedInv /\ CartVersionsUsedOnce /\ [Next]_vars
        => (UsedInv /\ CartVersionsUsedOnce)'
  BY UsedNext DEF CommandInv, HistoryInv
<1> QED BY <1>1, <1>2, HistoryInvariant, PTL DEF Spec

-----------------------------------------------------------------------------
(* Nobody waits for ever *)

\* Fairness with the guards of the two actions in place of ENABLED.  A handler whose
\* transaction is open ends it (it can always finish, succeed or fail); one that finds
\* the lock of its key free again and again takes it.
Works(h) == pc[h] \in {"running", "ending", "done"}
KeyIsFree(h) == pc[h] = "waiting" /\ LockFree(AdvisoryKey[request[h].key])
Ends(h) == []<>~Works(h) \/ []<><<Finish(h) \/ Respond(h)>>_vars
TakesTurn(h) == <>[]~KeyIsFree(h) \/ []<><<TakeKey(h)>>_vars
HandlersFair == \A h \in Handlers : Ends(h) /\ TakesTurn(h)

\* A lock passes from hand to hand only by way of Nobody.
LEMMA HeldLock ==
  ASSUME TypeInv, [Next]_vars, NEW l \in Locks, NEW g \in Handlers, lock[l] = g
  PROVE  lock'[l] \in {g, Nobody}
<1>1. ASSUME NEW h \in Handlers, Release(h) PROVE lock'[l] \in {g, Nobody}
  BY <1>1 DEF Release
<1>2. ASSUME NEW h \in Handlers, Finish(h) \/ Crash(h) PROVE Release(h)
  BY <1>2 DEF Finish, ReplaceCart, PlaceOrder, CreateOrder, Fail, Refuse, EndReplay,
              Crash, Commit
<1>3. ASSUME NEW h \in Handlers, TakeKey(h) PROVE lock'[l] = g
  BY <1>3, CommandsAssumption DEF TakeKey, LockFree, TypeInv, LocksOK
<1>4. CASE UNCHANGED lock
  BY <1>4
<1> QED BY <1>1, <1>2, <1>3, <1>4 DEF Next, vars, Receive, Respond

\* Whoever holds a lock works, and its next step lets it go.
LEMMA HolderEnds ==
  ASSUME TypeInv, NEW l \in Locks, NEW g \in Handlers, lock[l] = g
  PROVE  /\ Works(g)
         /\ Finish(g) \/ Respond(g) => lock'[l] # g
<1>1. pc[g] \in {"running", "ending"}
  BY CommandsAssumption DEF TypeInv, LocksOK
<1>2. Finish(g) => Release(g)
  BY DEF Finish, ReplaceCart, PlaceOrder, CreateOrder, Fail, Refuse, EndReplay, Commit
<1> QED BY <1>1, <1>2, CommandsAssumption DEF Works, Respond, Release

HeldBy(l, g) == lock[l] = g

LEMMA LockFreed ==
  ASSUME []TypeInv, [][Next]_vars, []HandlersFair, NEW l \in Locks
  PROVE  []<>LockFree(l)
<1>1. ASSUME NEW g \in Handlers PROVE HeldBy(l, g) => <>LockFree(l)
  <2>1. HandlersFair => Ends(g)
    BY DEF HandlersFair
  <2>2. TypeInv /\ HeldBy(l, g) => Works(g)
    BY HolderEnds DEF HeldBy
  <2>3. TypeInv /\ HeldBy(l, g) /\ <<Finish(g) \/ Respond(g)>>_vars => ~HeldBy(l, g)'
    BY HolderEnds DEF HeldBy
  <2>4. TypeInv /\ HeldBy(l, g) /\ [Next]_vars => HeldBy(l, g)' \/ LockFree(l)'
    BY HeldLock DEF HeldBy, LockFree
  <2> QED BY <2>1, <2>2, <2>3, <2>4, PTL DEF Ends
<1>2. TypeInv => LockFree(l) \/ \E g \in Handlers : HeldBy(l, g)
  BY DEF TypeInv, LocksOK, LockFree, HeldBy
<1>3. (\E g \in Handlers : HeldBy(l, g)) => <>LockFree(l)
  BY <1>1
<1> QED BY <1>2, <1>3, PTL

\* A handler that waits stays on its request.
WaitsFor(h, l) == pc[h] = "waiting" /\ AdvisoryKey[request[h].key] = l

LEMMA WaitStays ==
  ASSUME TypeInv, [Next]_vars, NEW h \in Handlers, NEW l, WaitsFor(h, l)
  PROVE  WaitsFor(h, l)' \/ pc'[h] # "waiting"
<1>1. ASSUME NEW g \in Handlers, g # h,
             \/ \E r \in Asked : Receive(g, r)
             \/ TakeKey(g) \/ Finish(g) \/ Respond(g) \/ Crash(g)
      PROVE  pc'[h] = pc[h] /\ request'[h] = request[h]
  BY <1>1 DEF Receive, TakeKey, Finish, ReplaceCart, PlaceOrder, CreateOrder, Fail, Refuse,
              EndReplay, Commit, Respond, Crash, TypeInv, HandlersOK
<1>2. ASSUME \/ \E r \in Asked : Receive(h, r)
             \/ TakeKey(h) \/ Finish(h) \/ Respond(h) \/ Crash(h)
      PROVE  pc'[h] # "waiting"
  BY <1>2 DEF Receive, TakeKey, Finish, Runs, ReplaceCart, PlaceOrder, CreateOrder, Fail,
              EndReplay, Respond, Crash, TypeInv, HandlersOK, WaitsFor
<1> QED BY <1>1, <1>2 DEF WaitsFor, Next, vars

LEMMA WaiterServed ==
  ASSUME []TypeInv, [][Next]_vars, []HandlersFair, NEW h \in Handlers
  PROVE  pc[h] = "waiting" ~> pc[h] # "waiting"
<1>1. ASSUME NEW l \in Locks PROVE WaitsFor(h, l) => <>(pc[h] # "waiting")
  <2>1. HandlersFair => TakesTurn(h)
    BY DEF HandlersFair
  <2>2. []<>LockFree(l)
    BY LockFreed
  <2>3. TypeInv /\ WaitsFor(h, l) /\ [Next]_vars => WaitsFor(h, l)' \/ (pc[h] # "waiting")'
    BY WaitStays
  <2>4. WaitsFor(h, l) /\ LockFree(l) => KeyIsFree(h)
    BY DEF WaitsFor, KeyIsFree
  <2>5. TypeInv /\ <<TakeKey(h)>>_vars => (pc[h] # "waiting")'
    BY DEF TakeKey, TypeInv, HandlersOK
  <2> QED BY <2>1, <2>2, <2>3, <2>4, <2>5, PTL DEF TakesTurn
<1>2. TypeInv /\ pc[h] = "waiting" => \E l \in Locks : WaitsFor(h, l)
  BY RequestFields DEF TypeInv, Working, WaitsForKey, WaitsFor, Locks
<1>3. (\E l \in Locks : WaitsFor(h, l)) => <>(pc[h] # "waiting")
  BY <1>1
<1> QED BY <1>2, <1>3, PTL

\* No handler waits for ever for a key, however many copies and other requests compete
\* for its lock and whichever of their handlers die: the holder of a lock always ends,
\* and with it the lock (pg_advisory_xact_lock).
THEOREM WaitersServed == Spec /\ []HandlersFair => WaitersAreServed
<1>1. Spec => []TypeInv
  <2>1. CommandInv => TypeInv
    BY DEF CommandInv
  <2> QED BY <2>1, CommandInvariant, PTL
<1>2. Spec => [][Next]_vars
  BY DEF Spec
<1>3. ASSUME []TypeInv, [][Next]_vars, []HandlersFair PROVE WaitersAreServed
  BY <1>3, WaiterServed DEF WaitersAreServed
<1> QED BY <1>1, <1>2, <1>3

=============================================================================
