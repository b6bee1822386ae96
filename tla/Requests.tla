------------------------------ MODULE Requests ------------------------------
(***************************************************************************)
(* How a request reaches its handler: ContractRoute and upload_body read   *)
(* its body piece by piece while other requests run, refuse it or hand it  *)
(* to the handlers of Limits, Profiles and Cards.                          *)
(***************************************************************************)
EXTENDS Limits, Profiles, Cards

CONSTANTS JsonLimit,      \* 1 MiB
          UploadLimit,    \* 10 MiB and 64 KiB
          Chunks,         \* the sizes of pieces
          Sent,           \* bound: profile requests
          Kinds,          \* bound: which requests are sent
          MaxRequests     \* bound: how many

ASSUME RequestsAssumption ==
    /\ JsonLimit \in Nat /\ UploadLimit \in Nat /\ Chunks \subseteq Nat \ {0}
    /\ Sent \subseteq ProfileRequest
    /\ MaxRequests \in Nat

VARIABLES reading,    \* the request a slot reads, if any
          served      \* how many requests have come

vars == <<limitVars, profileVars, cardVars, reading, served>>

Idle == [kind |-> "none", size |-> 0]
Json == {"login", "reset", "events", "profile", "order", "product", "pet"}
Limit(kind) == IF kind = "upload" THEN UploadLimit ELSE JsonLimit

Init ==
    /\ LimitsInit /\ ProfilesInit /\ CardsInit
    /\ reading = [s \in Slots |-> Idle]
    /\ served = 0

-----------------------------------------------------------------------------
(* Reading *)

\* The parameters are right; an upload comes from an administrator, which
\* upload_context has looked up before it reads.
Arrive(s, kind) ==
    /\ reading[s] = Idle
    /\ login[s] = "idle"
    /\ served < MaxRequests
    /\ served' = served + 1
    /\ reading' = [reading EXCEPT ![s] = [kind |-> kind, size |-> 0]]
    /\ UNCHANGED <<limitVars, profileVars, cardVars>>

Fits(r, n) == r.size + n <= Limit(r.kind)

ReadChunk(s, n) ==
    /\ reading[s] # Idle
    /\ Fits(reading[s], n)
    /\ reading' = [reading EXCEPT ![s].size = @ + n]
    /\ UNCHANGED <<limitVars, profileVars, cardVars, served>>

\* 413 after a piece too many; 400, 415 or 422 for what has been read; a client
\* that goes away.
Refuse(s) ==
    /\ reading[s] # Idle
    /\ reading' = [reading EXCEPT ![s] = Idle]
    /\ UNCHANGED <<limitVars, profileVars, cardVars, served>>

\* An object of JSON that the model of the request admits.
Handle(s, kind) ==
    /\ reading[s].kind = kind
    /\ reading[s].size > 0
    /\ reading' = [reading EXCEPT ![s] = Idle]
    /\ UNCHANGED served

-----------------------------------------------------------------------------
(* Handling *)

HandleLogin(s) ==
    /\ Handle(s, "login")
    /\ BeginLogin(s)
    /\ UNCHANGED <<profileVars, cardVars>>

HandleReset(s) ==
    /\ Handle(s, "reset")
    /\ ForgetFailures
    /\ UNCHANGED <<profileVars, cardVars>>

HandleEvents(s) ==
    /\ Handle(s, "events")
    /\ AcceptBatch
    /\ UNCHANGED <<profileVars, cardVars>>

HandleProfile(s) ==
    /\ Handle(s, "profile")
    /\ \E r \in Sent : Register(r) \/ UpdateUser(r) \/ EditProfile(r)
    /\ UNCHANGED <<limitVars, cardVars>>

HandleOrder(s) ==
    /\ Handle(s, "order")
    /\ \E o \in Deliveries, kind \in {"LEGACY", "MIXED"} : Place(o, kind)
    /\ UNCHANGED <<limitVars, cardVars>>

HandleProduct(s) ==
    /\ Handle(s, "product")
    /\ ProductCard
    /\ UNCHANGED <<limitVars, profileVars>>

HandlePet(s) ==
    /\ Handle(s, "pet")
    /\ PetCard
    /\ UNCHANGED <<limitVars, profileVars>>

\* MediaService.upload, in Media.
HandleUpload(s) ==
    /\ Handle(s, "upload")
    /\ UNCHANGED <<limitVars, profileVars, cardVars>>

\* A login goes on in its thread.
Login(s) ==
    /\ AdmitLogin(s) \/ RefuseLogin(s) \/ FailLogin(s) \/ PassLogin(s)
    /\ UNCHANGED <<profileVars, cardVars, reading, served>>

Clock == Tick /\ UNCHANGED <<profileVars, cardVars, reading, served>>

-----------------------------------------------------------------------------
Next ==
    \/ Clock
    \/ \E s \in Slots :
         \/ \E kind \in Kinds : Arrive(s, kind)
         \/ \E n \in Chunks : ReadChunk(s, n)
         \/ Refuse(s)
         \/ HandleLogin(s) \/ HandleReset(s) \/ HandleEvents(s) \/ HandleProfile(s)
         \/ HandleOrder(s) \/ HandleProduct(s) \/ HandlePet(s) \/ HandleUpload(s)
         \/ Login(s)

Spec == Init /\ [][Next]_vars

-----------------------------------------------------------------------------
\* What an instance counts in memory stays within its limits, whatever requests it
\* serves meanwhile: passwords that are compared for an address before it is blocked,
\* and batches of events in any minute.
LimitsHold == LoginsBounded /\ BatchesBounded

=============================================================================
