---------------------------- MODULE RequestProofs ----------------------------
(***************************************************************************)
(* Proofs about Requests: for any number of slots, any limits, windows,    *)
(* texts, cards and requests, what is counted stays bounded, deliveries go *)
(* to one address and cards stay valid.                                    *)
(***************************************************************************)
EXTENDS Requests, FiniteSetTheorems, SequenceTheorems, TLAPS

-----------------------------------------------------------------------------
(* Logins *)

LoginsTyped ==
    /\ clock \in Nat
    /\ attempts \in [count : Nat, blocked : BOOLEAN, expires : Nat]
    /\ login \in [Slots -> {"idle", "begun", "checking"}]
    /\ now \in [Slots -> Nat]

\* Only what is blocked reaches the limit; after that, only the logins that
\* were being checked count up.
LoginsInv ==
    /\ LoginsTyped
    /\ attempts.count >= MaxFailures => attempts.blocked
    /\ LoginsBounded

\* The requests whose passwords are compared are some of those that run.
LEMMA CheckingFinite ==
    /\ IsFiniteSet(Checking)
    /\ Cardinality(Checking) \in Nat
    /\ Cardinality(Slots) \in Nat
    /\ Cardinality(Checking) <= Cardinality(Slots)
<1>1. Checking \subseteq Slots /\ IsFiniteSet(Slots)
  BY LimitsAssumption DEF Checking
<1> QED
  BY <1>1, FS_Subset, FS_CardinalityType

\* A request that is being checked leaves room for one.
LEMMA CheckingLeft ==
    ASSUME NEW s \in Checking
    PROVE  /\ Cardinality(Checking \ {s}) = Cardinality(Checking) - 1
           /\ Cardinality(Checking) - 1 \in Nat
<1>1. IsFiniteSet(Checking)
  BY CheckingFinite
<1>2. Cardinality(Checking \ {s}) = Cardinality(Checking) - 1 /\ IsFiniteSet(Checking \ {s})
  BY <1>1, FS_RemoveElement
<1> QED
  BY <1>2, FS_CardinalityType

\* An instance starts without failures.
LEMMA LoginsInitially == LimitsInit => LoginsInv
<1> SUFFICES ASSUME LimitsInit PROVE LoginsInv
  OBVIOUS
<1>1. LoginsTyped
  BY LimitsAssumption DEF LimitsInit, LoginsTyped, NoAttempts
<1>2. Checking = {}
  BY DEF LimitsInit, Checking
<1>3. Cardinality(Checking) = 0 /\ Cardinality(Slots) \in Nat
  BY <1>2, FS_EmptySet, CheckingFinite
<1> QED
  BY <1>1, <1>3, LimitsAssumption DEF LimitsInit, LoginsInv, LoginsBounded, NoAttempts

\* The first lock lets a login pass only while there is room for one failure.
LEMMA AdmitKeeps ==
    ASSUME LoginsInv, NEW s \in Slots, AdmitLogin(s)
    PROVE  LoginsInv'
<1>1. LoginsTyped'
  BY DEF LoginsInv, LoginsTyped, AdmitLogin, NoAttempts
<1>2. attempts'.count < MaxFailures
  BY LimitsAssumption DEF LoginsInv, LoginsTyped, AdmitLogin, Admits, NoAttempts
<1>3. /\ Cardinality(Checking') \in Nat /\ Cardinality(Slots) \in Nat
      /\ Cardinality(Checking') <= Cardinality(Slots)
  <2>1. Checking' \subseteq Slots /\ IsFiniteSet(Slots)
    BY LimitsAssumption DEF Checking
  <2> QED
    BY <2>1, FS_Subset, FS_CardinalityType
<1> QED
  BY <1>1, <1>2, <1>3, LimitsAssumption DEF LoginsInv, LoginsTyped, LoginsBounded

\* A failure counts one up, or begins a new entry, and ends the check.
LEMMA FailKeeps ==
    ASSUME LoginsInv, NEW s \in Slots, FailLogin(s)
    PROVE  LoginsInv'
<1>1. LoginsTyped' /\ attempts'.count \in {1, attempts.count + 1}
  BY LimitsAssumption DEF LoginsInv, LoginsTyped, FailLogin, Counted, NoAttempts
<1>2. attempts'.count >= MaxFailures => attempts'.blocked
  BY LimitsAssumption DEF LoginsInv, LoginsTyped, FailLogin, Counted, NoAttempts
<1>3. Checking' = Checking \ {s} /\ s \in Checking
  BY DEF LoginsInv, LoginsTyped, FailLogin, Checking
<1>4. /\ Cardinality(Checking') = Cardinality(Checking) - 1
      /\ Cardinality(Checking) - 1 \in Nat
  BY <1>3, CheckingLeft
<1> QED
  BY <1>1, <1>2, <1>4, CheckingFinite, LimitsAssumption DEF LoginsInv, LoginsTyped, LoginsBounded

\* A login that passes ends its check and forgets the failures.
LEMMA PassKeeps ==
    ASSUME LoginsInv, NEW s \in Slots, PassLogin(s)
    PROVE  LoginsInv'
<1>1. LoginsTyped' /\ attempts'.count = 0
  BY LimitsAssumption DEF LoginsInv, LoginsTyped, PassLogin, NoAttempts
<1>2. Checking' = Checking \ {s} /\ s \in Checking
  BY DEF LoginsInv, LoginsTyped, PassLogin, Checking
<1>3. /\ Cardinality(Checking') = Cardinality(Checking) - 1
      /\ Cardinality(Checking) - 1 \in Nat
  BY <1>2, CheckingLeft
<1> QED
  BY <1>1, <1>3, CheckingFinite, LimitsAssumption DEF LoginsInv, LoginsTyped, LoginsBounded

\* What checks nothing and does not count up changes nothing for logins.
LEMMA UncheckedKeeps ==
    ASSUME LoginsInv, LoginsTyped', Checking' = Checking, attempts' \in {attempts, NoAttempts}
    PROVE  LoginsInv'
<1>1. attempts'.count \in {0, attempts.count}
  BY DEF NoAttempts
<1>2. attempts'.count >= MaxFailures => attempts'.blocked
  BY LimitsAssumption DEF LoginsInv, LoginsTyped, NoAttempts
<1> QED
  BY <1>1, <1>2, CheckingFinite, LimitsAssumption DEF LoginsInv, LoginsTyped, LoginsBounded

\* LoginsInv is kept by whatever happens to a request.
LEMMA LoginsKept == LoginsInv /\ [Next]_vars => LoginsInv'
<1> SUFFICES ASSUME LoginsInv, [Next]_vars PROVE LoginsInv'
  OBVIOUS
<1>u. ASSUME UNCHANGED <<attempts, login>>, clock' \in Nat, now' = now PROVE LoginsInv'
  <2>1. Checking' = Checking
    BY <1>u DEF Checking
  <2> QED
    BY <1>u, <2>1, UncheckedKeeps DEF LoginsInv, LoginsTyped
<1>1. CASE UNCHANGED vars
  BY <1>1, <1>u DEF vars, limitVars, loginVars, LoginsInv, LoginsTyped
<1>2. CASE Clock
  BY <1>2, <1>u DEF Clock, Tick, loginVars, LoginsInv, LoginsTyped
<1>3. ASSUME NEW s \in Slots, NEW kind \in Kinds, Arrive(s, kind) PROVE LoginsInv'
  BY <1>3, <1>u DEF Arrive, limitVars, loginVars, LoginsInv, LoginsTyped
<1>4. ASSUME NEW s \in Slots, NEW n \in Chunks, ReadChunk(s, n) PROVE LoginsInv'
  BY <1>4, <1>u DEF ReadChunk, limitVars, loginVars, LoginsInv, LoginsTyped
<1>5. ASSUME NEW s \in Slots, \/ Refuse(s) \/ HandleProfile(s) \/ HandleOrder(s)
                              \/ HandleProduct(s) \/ HandlePet(s) \/ HandleUpload(s)
      PROVE LoginsInv'
  BY <1>5, <1>u DEF Refuse, HandleProfile, HandleOrder, HandleProduct, HandlePet, HandleUpload,
                    limitVars, loginVars, LoginsInv, LoginsTyped
<1>6. ASSUME NEW s \in Slots, HandleEvents(s) PROVE LoginsInv'
  BY <1>6, <1>u DEF HandleEvents, AcceptBatch, loginVars, LoginsInv, LoginsTyped
<1>7. ASSUME NEW s \in Slots, HandleLogin(s) PROVE LoginsInv'
  <2>1. Checking' = Checking
    BY <1>7 DEF HandleLogin, BeginLogin, Checking, LoginsInv, LoginsTyped
  <2> QED
    BY <1>7, <2>1, UncheckedKeeps DEF HandleLogin, BeginLogin, LoginsInv, LoginsTyped
<1>8. ASSUME NEW s \in Slots, HandleReset(s) PROVE LoginsInv'
  <2>1. Checking' = Checking
    BY <1>8 DEF HandleReset, ForgetFailures, Checking
  <2> QED
    BY <1>8, <2>1, UncheckedKeeps DEF HandleReset, ForgetFailures, NoAttempts, LoginsInv, LoginsTyped
<1>9. ASSUME NEW s \in Slots, Login(s) PROVE LoginsInv'
  <2>1. CASE RefuseLogin(s)
    <3>1. Checking' = Checking
      BY <2>1 DEF RefuseLogin, Checking, LoginsInv, LoginsTyped
    <3> QED
      BY <2>1, <3>1, UncheckedKeeps DEF RefuseLogin, LoginsInv, LoginsTyped
  <2> QED
    BY <1>9, <2>1, AdmitKeeps, FailKeeps, PassKeeps DEF Login
<1> QED
  BY <1>1, <1>2, <1>3, <1>4, <1>5, <1>6, <1>7, <1>8, <1>9 DEF Next

-----------------------------------------------------------------------------
(* Batches of events *)

BatchesTyped ==
    /\ clock \in Nat /\ window \in Nat /\ count \in Nat
    /\ batches \in Seq(Nat)

\* How many batches came before the window.
Earlier == Len(batches) - count

\* The batches of this window are the last ones; those before were accepted by
\* the time it began, and all but MaxBatches of them a window earlier.
BatchesInv ==
    /\ BatchesTyped
    /\ window <= clock
    /\ count <= MaxBatches
    /\ Earlier \in Nat
    /\ \A i \in 1 .. Len(batches) : batches[i] <= clock
    /\ \A i \in 1 .. Earlier : batches[i] <= window
    /\ \A i \in 1 .. Earlier : i <= Earlier - MaxBatches => batches[i] + BatchWindow <= window
    /\ \A i \in 1 .. Len(batches) :
          i + 2 * MaxBatches <= Len(batches)
              => batches[i] + BatchWindow <= batches[i + 2 * MaxBatches]

\* The invariant says what LimitsHold says of batches.
LEMMA BatchesInvBounds == BatchesInv => BatchesBounded
<1> SUFFICES ASSUME BatchesInv, NEW i \in DOMAIN batches, i + 2 * MaxBatches \in DOMAIN batches
             PROVE  batches[i + 2 * MaxBatches] - batches[i] >= BatchWindow
  BY DEF BatchesBounded
<1>1. DOMAIN batches = 1 .. Len(batches) /\ Len(batches) \in Nat
  BY DEF BatchesInv, BatchesTyped
<1>2. batches[i] \in Nat /\ batches[i + 2 * MaxBatches] \in Nat
  BY DEF BatchesInv, BatchesTyped
<1>3. batches[i] + BatchWindow <= batches[i + 2 * MaxBatches]
  BY <1>1 DEF BatchesInv
<1> QED
  BY <1>2, <1>3, LimitsAssumption

\* A batch that is accepted at the clock, in a window that holds count of
\* them, keeps the history as the limit wants it.
LEMMA AppendKeeps ==
    ASSUME BatchesInv, AcceptBatch
    PROVE  BatchesInv'
<1> DEFINE n == Len(batches)
<1>c. /\ MaxBatches \in Nat /\ MaxBatches >= 1 /\ BatchWindow \in Nat /\ BatchWindow >= 1
      /\ n \in Nat /\ clock \in Nat /\ window \in Nat /\ count \in Nat /\ clock' = clock
  BY LimitsAssumption DEF BatchesInv, BatchesTyped, AcceptBatch
<1>1. /\ batches' \in Seq(Nat) /\ Len(batches') = n + 1
      /\ \A i \in 1 .. n : batches'[i] = batches[i] /\ batches[i] \in Nat
      /\ batches'[n + 1] = clock
  BY DEF AcceptBatch, BatchesInv, BatchesTyped
<1>2. \/ clock - window < BatchWindow /\ count < MaxBatches /\ window' = window /\ count' = count + 1
      \/ clock - window >= BatchWindow /\ window' = clock /\ count' = 1
  BY <1>c DEF AcceptBatch, CurrentWindow
<1>3. Earlier \in Nat /\ Earlier = n - count /\ count <= MaxBatches /\ window <= clock
  BY DEF BatchesInv, Earlier
<1>e. Earlier' = (n + 1) - count'
  <2>1. Earlier' = Len(batches') - count'
    BY DEF Earlier
  <2> QED
    BY <1>1, <2>1
<1>4. /\ \A i \in 1 .. n : batches[i] <= clock
      /\ \A i \in 1 .. Earlier : batches[i] <= window
      /\ \A i \in 1 .. Earlier : i <= Earlier - MaxBatches => batches[i] + BatchWindow <= window
      /\ \A i \in 1 .. n : i + 2 * MaxBatches <= n
                              => batches[i] + BatchWindow <= batches[i + 2 * MaxBatches]
  BY DEF BatchesInv
<1>5. BatchesTyped'
  BY <1>c, <1>1, <1>2 DEF BatchesTyped
<1> HIDE DEF n
<1>6. window' <= clock /\ count' <= MaxBatches /\ Earlier' \in Nat
  BY <1>c, <1>2, <1>3, <1>e
<1>7. \A i \in 1 .. n + 1 : batches'[i] <= clock
  BY <1>c, <1>1, <1>4
<1>8. \A i \in 1 .. Earlier' : batches'[i] <= window'
  BY <1>c, <1>1, <1>2, <1>3, <1>4, <1>e
<1>9. \A i \in 1 .. Earlier' : i <= Earlier' - MaxBatches => batches'[i] + BatchWindow <= window'
  <2>1. CASE clock - window < BatchWindow /\ window' = window /\ count' = count + 1
    BY <2>1, <1>c, <1>1, <1>3, <1>4, <1>e
  <2>2. CASE clock - window >= BatchWindow /\ window' = clock /\ count' = 1
    <3> SUFFICES ASSUME NEW i \in 1 .. n, i <= n - MaxBatches
                 PROVE  batches'[i] + BatchWindow <= clock
      BY <2>2, <1>c, <1>3, <1>e
    <3>1. i \in 1 .. Earlier /\ batches'[i] = batches[i] /\ batches[i] \in Nat
      BY <1>c, <1>1, <1>3
    <3>2. batches[i] <= window
      BY <3>1, <1>4
    <3> QED
      BY <2>2, <3>1, <3>2, <1>c
  <2> QED
    BY <2>1, <2>2, <1>2
<1>10. ASSUME NEW i \in 1 .. n + 1, i + 2 * MaxBatches <= n + 1
       PROVE  batches'[i] + BatchWindow <= batches'[i + 2 * MaxBatches]
  <2>1. i \in 1 .. n /\ i + 2 * MaxBatches \in 1 .. n + 1
    BY <1>c, <1>10
  <2>2. CASE i + 2 * MaxBatches <= n
    <3>1. i + 2 * MaxBatches \in 1 .. n
      BY <2>1, <2>2, <1>c
    <3> QED
      BY <2>1, <2>2, <3>1, <1>1, <1>4
  <2>3. CASE i + 2 * MaxBatches = n + 1
    <3>0. batches'[i] = batches[i] /\ batches[i] \in Nat /\ batches'[i + 2 * MaxBatches] = clock
      BY <2>1, <2>3, <1>1
    <3>1. CASE clock - window < BatchWindow /\ count < MaxBatches
      <4>1. i \in 1 .. Earlier /\ i <= Earlier - MaxBatches
        BY <1>c, <1>3, <2>1, <2>3, <3>1
      <4>2. batches[i] + BatchWindow <= window
        BY <4>1, <1>4
      <4> QED
        BY <4>2, <3>0, <1>c, <1>3
    <3>2. CASE clock - window >= BatchWindow
      <4>1. i \in 1 .. Earlier
        BY <1>c, <1>3, <2>1, <2>3
      <4>2. batches[i] <= window
        BY <4>1, <1>4
      <4> QED
        BY <4>2, <3>2, <3>0, <1>c
    <3> QED
      BY <3>1, <3>2, <1>2
  <2> QED
    BY <2>1, <2>2, <2>3, <1>c
<1> QED
  BY <1>c, <1>1, <1>5, <1>6, <1>7, <1>8, <1>9, <1>10 DEF BatchesInv

\* BatchesInv holds at first and is kept by every step.
LEMMA BatchesKept ==
    /\ LimitsInit => BatchesInv
    /\ BatchesInv /\ [Next]_vars => BatchesInv'
<1>1. LimitsInit => BatchesInv
  BY LimitsAssumption DEF LimitsInit, BatchesInv, BatchesTyped, Earlier
<1>2. ASSUME BatchesInv, UNCHANGED batchVars, clock' \in {clock, clock + 1} PROVE BatchesInv'
  <2>1. clock' \in Nat /\ clock' >= clock
    BY <1>2 DEF BatchesInv, BatchesTyped
  <2>2. Earlier' = Earlier
    BY <1>2 DEF Earlier, batchVars
  <2>3. BatchesTyped' /\ window' <= clock'
    BY <1>2, <2>1 DEF BatchesInv, BatchesTyped, batchVars
  <2>4. \A i \in 1 .. Len(batches) : batches[i] \in Nat /\ batches[i] <= clock'
    BY <1>2, <2>1 DEF BatchesInv, BatchesTyped
  <2> QED
    BY <1>2, <2>2, <2>3, <2>4 DEF BatchesInv, batchVars
<1>3. ASSUME BatchesInv, [Next]_vars PROVE BatchesInv'
  <2>1. CASE UNCHANGED vars
    BY <1>2, <1>3, <2>1 DEF vars, limitVars
  <2>2. CASE Clock
    BY <1>2, <1>3, <2>2 DEF Clock, Tick
  <2>3. ASSUME NEW s \in Slots, HandleEvents(s) PROVE BatchesInv'
    BY <1>3, <2>3, AppendKeeps DEF HandleEvents
  <2>4. ASSUME NEW s \in Slots,
               \/ \E kind \in Kinds : Arrive(s, kind)
               \/ \E n \in Chunks : ReadChunk(s, n)
               \/ Refuse(s) \/ HandleProfile(s) \/ HandleOrder(s) \/ HandleProduct(s)
               \/ HandlePet(s) \/ HandleUpload(s)
        PROVE  BatchesInv'
    BY <1>2, <1>3, <2>4 DEF Arrive, ReadChunk, Refuse, HandleProfile, HandleOrder, HandleProduct,
                            HandlePet, HandleUpload, limitVars
  <2>5. ASSUME NEW s \in Slots, HandleLogin(s) \/ HandleReset(s) \/ Login(s) PROVE BatchesInv'
    BY <1>2, <1>3, <2>5 DEF HandleLogin, HandleReset, Login, BeginLogin, ForgetFailures, AdmitLogin,
                            RefuseLogin, FailLogin, PassLogin
  <2> QED
    BY <1>3, <2>1, <2>2, <2>3, <2>4, <2>5 DEF Next
<1> QED
  BY <1>1, <1>3

\* What an instance counts in memory stays within its limits, for any number
\* of requests at a time, any limits and any clock.
THEOREM LimitsInvariant == Spec => []LimitsHold
<1>1. Init => LoginsInv /\ BatchesInv
  BY LoginsInitially, BatchesKept DEF Init
<1>2. LoginsInv /\ BatchesInv /\ [Next]_vars => (LoginsInv /\ BatchesInv)'
  BY LoginsKept, BatchesKept
<1>3. LoginsInv /\ BatchesInv => LimitsHold
  BY BatchesInvBounds DEF LoginsInv, LimitsHold
<1> QED
  BY <1>1, <1>2, <1>3, PTL DEF Spec

-----------------------------------------------------------------------------
(* Deliveries *)

\* The address of a profile is one of those sent, whole, or none.
ProfilesInv ==
    /\ \/ profile.address = NoAddress
       \/ /\ ValidAddress(profile.address)
          /\ profile.address \in sent
    /\ delivery = [o \in Deliveries |-> delivery[o]]
    /\ DeliveryIsOneAddress

\* What an accepted request leaves in the columns of the address.
LEMMA SaveKeeps ==
    ASSUME ProfilesInv, NEW r, ValidProfile(r), NEW row, Save(row, r),
           \/ row.address \in {NoAddress, profile.address}
           \/ row.address = r.address /\ r.address # Absent
    PROVE  ProfilesInv'
<1>1. /\ profile' = row /\ sent' = sent \cup {r.address} /\ delivery' = delivery
  BY DEF Save
<1>2. r.address \in {Absent, NoAddress} \/ ValidAddress(r.address)
  BY DEF ValidProfile
<1>3. \/ profile'.address = NoAddress
      \/ /\ ValidAddress(profile'.address)
         /\ profile'.address \in sent'
  <2>1. CASE row.address = NoAddress
    BY <2>1, <1>1
  <2>2. CASE row.address = profile.address
    BY <2>2, <1>1 DEF ProfilesInv
  <2>3. CASE row.address = r.address /\ r.address # Absent
    BY <2>3, <1>1, <1>2
  <2> QED
    BY <2>1, <2>2, <2>3
<1>4. DeliveryIsOneAddress'
  BY <1>1 DEF ProfilesInv, DeliveryIsOneAddress
<1>5. delivery' = [o \in Deliveries |-> delivery'[o]]
  BY <1>1 DEF ProfilesInv
<1> QED
  BY <1>3, <1>4, <1>5 DEF ProfilesInv

\* An order copies the profile, whose address it has found complete.
LEMMA PlaceKeeps ==
    ASSUME ProfilesInv, NEW o \in Deliveries, NEW kind, Place(o, kind)
    PROVE  ProfilesInv'
<1>1. /\ profile' = profile /\ sent' = sent
      /\ delivery' = [delivery EXCEPT ![o] = profile]
      /\ profile.address.street # Null
  BY DEF Place, Complete
<1>2. ValidAddress(profile.address) /\ profile.address \in sent
  BY <1>1 DEF ProfilesInv, NoAddress
<1>3. \A x \in Deliveries : delivery'[x] = IF x = o THEN profile ELSE delivery[x]
  BY <1>1 DEF ProfilesInv
<1>4. DeliveryIsOneAddress'
  BY <1>1, <1>2, <1>3 DEF ProfilesInv, DeliveryIsOneAddress, ValidAddress
<1>5. delivery' = [x \in Deliveries |-> delivery'[x]]
  BY <1>1 DEF ProfilesInv
<1> QED
  BY <1>1, <1>2, <1>4, <1>5 DEF ProfilesInv, ValidAddress

\* Nothing else writes what ProfilesInv is about.
LEMMA ProfilesUnchanged == ProfilesInv /\ UNCHANGED profileVars => ProfilesInv'
  BY DEF ProfilesInv, profileVars, DeliveryIsOneAddress, ValidAddress, OptionalText

\* ProfilesInv is kept by every request.
LEMMA ProfilesKept == ProfilesInv /\ [Next]_vars => ProfilesInv'
<1> SUFFICES ASSUME ProfilesInv, [Next]_vars PROVE ProfilesInv'
  OBVIOUS
<1>1. ASSUME NEW s \in Slots, HandleProfile(s) PROVE ProfilesInv'
  <2> PICK r \in Sent : Register(r) \/ UpdateUser(r) \/ EditProfile(r)
    BY <1>1 DEF HandleProfile
  <2>1. CASE Register(r)
    BY <2>1, SaveKeeps DEF Register, Stored
  <2>2. CASE UpdateUser(r)
    BY <2>2, SaveKeeps DEF UpdateUser, ValidUpdate, Merged
  <2>3. CASE EditProfile(r)
    BY <2>3, SaveKeeps DEF EditProfile, ValidEdit, Stored
  <2> QED
    BY <2>1, <2>2, <2>3
<1>2. ASSUME NEW s \in Slots, HandleOrder(s) PROVE ProfilesInv'
  BY <1>2, PlaceKeeps DEF HandleOrder
<1>3. CASE UNCHANGED profileVars
  BY <1>3, ProfilesUnchanged
<1>4. ASSUME NEW s \in Slots,
             \/ \E kind \in Kinds : Arrive(s, kind)
             \/ \E n \in Chunks : ReadChunk(s, n)
             \/ Refuse(s) \/ HandleLogin(s) \/ HandleReset(s) \/ HandleEvents(s)
             \/ HandleProduct(s) \/ HandlePet(s) \/ HandleUpload(s) \/ Login(s)
      PROVE  UNCHANGED profileVars
  BY <1>4 DEF Arrive, ReadChunk, Refuse, HandleLogin, HandleReset, HandleEvents, HandleProduct,
              HandlePet, HandleUpload, Login
<1>5. CASE UNCHANGED vars
  BY <1>5, <1>3 DEF vars
<1>6. CASE Clock
  BY <1>6, <1>3 DEF Clock
<1> QED
  BY <1>1, <1>2, <1>3, <1>4, <1>5, <1>6 DEF Next

\* Whatever profiles are sent, merged and edited, an order goes to an address
\* that somebody has sent as a whole.
THEOREM DeliveryInvariant == Spec => []DeliveryIsOneAddress
<1>1. Init => ProfilesInv
  <2> SUFFICES ASSUME Init PROVE ProfilesInv
    OBVIOUS
  <2>1. profile.address = NoAddress
    BY DEF Init, ProfilesInit, NoProfile
  <2>2. delivery = [o \in Deliveries |-> delivery[o]] /\ \A o \in Deliveries : delivery[o] = NoProfile
    BY DEF Init, ProfilesInit
  <2>3. DeliveryIsOneAddress
    BY <2>2 DEF DeliveryIsOneAddress
  <2> QED
    BY <2>1, <2>2, <2>3 DEF ProfilesInv
<1>2. ProfilesInv => DeliveryIsOneAddress
  BY DEF ProfilesInv
<1> QED
  BY <1>1, <1>2, ProfilesKept, PTL DEF Spec

-----------------------------------------------------------------------------
(* Cards *)

CardsTyped ==
    /\ product \in [state : Publication \cup {"none"}, card : ProductCommand]
    /\ pet \in [state : Publication \cup {"none"}, card : PetCardCommand,
                urls : BOOLEAN, tags : SUBSET Tag]

CardsInv == CardsTyped /\ CardsStayValid

\* Both interfaces leave rows that the publication accepts.
LEMMA ProductKeeps == ASSUME CardsInv, ProductCard PROVE CardsInv'
<1>1. ASSUME NEW c \in ProductCommands, SaveProduct(c) PROVE CardsInv'
  <2>1. CardsTyped'
    BY <1>1, CardsAssumption DEF CardsInv, CardsTyped, SaveProduct, Publication
  <2> QED
    BY <1>1, <2>1 DEF CardsInv, CardsStayValid, SaveProduct, MaySave, Public, ProductComplete
<1>2. ASSUME NEW target \in Publication, PublishProduct(target) PROVE CardsInv'
  BY <1>2 DEF CardsInv, CardsTyped, CardsStayValid, PublishProduct, Public, ProductComplete
<1> QED
  BY <1>1, <1>2 DEF ProductCard

\* No tag is added that neither the directory nor the pet has.
LEMMA PetKeeps == ASSUME CardsInv, PetCard PROVE CardsInv'
<1>0. 1 \notin {Undefined, 0} /\ 1 \in Price
  BY CardsAssumption DEF Price
<1>1. ASSUME NEW c \in PetCommands, SavePet(c) PROVE CardsInv'
  <2>1. CardsTyped'
    BY <1>1, CardsAssumption DEF CardsInv, CardsTyped, SavePet, Publication
  <2> QED
    BY <1>1, <2>1 DEF CardsInv, CardsTyped, CardsStayValid, SavePet, Public, PetComplete, ProductComplete
<1>2. ASSUME NEW target \in Publication, PublishPet(target) PROVE CardsInv'
  BY <1>2 DEF CardsInv, CardsTyped, CardsStayValid, PublishPet, Public, PetComplete, ProductComplete
<1>3. ASSUME NEW urls \in BOOLEAN, NEW tags \in SUBSET Tag, CreatePet(urls, tags) PROVE CardsInv'
  <2>1. pet' = [state |-> "PUBLISHED", card |-> [price |-> 1, basics |-> FALSE, images |-> FALSE],
                urls |-> urls, tags |-> tags]
    BY <1>3 DEF CreatePet, NoPet
  <2>2. product' = product /\ Unknown(tags) = {}
    BY <1>3 DEF CreatePet
  <2>3. [price |-> 1, basics |-> FALSE, images |-> FALSE] \in PetCardCommand
    BY <1>0 DEF PetCardCommand
  <2>4. CardsTyped'
    BY <2>1, <2>2, <2>3 DEF CardsInv, CardsTyped, Publication
  <2> QED
    BY <1>0, <2>1, <2>2, <2>4 DEF CardsInv, CardsStayValid, Public, ProductComplete
<1>4. ASSUME NEW urls \in BOOLEAN, NEW tags \in SUBSET Tag, UpdatePet(urls, tags) PROVE CardsInv'
  <2>1. /\ pet'.state = pet.state /\ pet'.card.price = 1 /\ pet'.tags = tags /\ product' = product
        /\ CardsTyped'
    BY <1>0, <1>4 DEF CardsInv, CardsTyped, UpdatePet, PetCardCommand
  <2>2. Unknown(tags) \subseteq Historical
    BY <1>4 DEF CardsInv, CardsStayValid, UpdatePet, KeepsTags, Unknown
  <2> QED
    BY <1>0, <2>1, <2>2 DEF CardsInv, CardsStayValid, Public, ProductComplete
<1>5. ASSUME DeletePet PROVE CardsInv'
  <2>1. pet' = [state |-> "none", card |-> [price |-> Undefined, basics |-> FALSE, images |-> FALSE],
                urls |-> FALSE, tags |-> {}]
    BY <1>5 DEF DeletePet, NoPet
  <2> QED
    BY <1>5, <2>1 DEF CardsInv, CardsTyped, CardsStayValid, DeletePet, Public, ProductComplete, Unknown,
                      Publication, PetCardCommand, Price
<1> QED
  BY <1>1, <1>2, <1>3, <1>4, <1>5 DEF PetCard

\* CardsInv is kept by every request.
LEMMA CardsKept == CardsInv /\ [Next]_vars => CardsInv'
<1> SUFFICES ASSUME CardsInv, [Next]_vars PROVE CardsInv'
  OBVIOUS
<1>1. ASSUME NEW s \in Slots, HandleProduct(s) \/ HandlePet(s) PROVE CardsInv'
  BY <1>1, ProductKeeps, PetKeeps DEF HandleProduct, HandlePet
<1>2. CASE UNCHANGED cardVars
  BY <1>2 DEF cardVars, CardsInv, CardsTyped, CardsStayValid, Public, ProductComplete
<1>3. ASSUME NEW s \in Slots,
             \/ \E kind \in Kinds : Arrive(s, kind)
             \/ \E n \in Chunks : ReadChunk(s, n)
             \/ Refuse(s) \/ HandleLogin(s) \/ HandleReset(s) \/ HandleEvents(s)
             \/ HandleProfile(s) \/ HandleOrder(s) \/ HandleUpload(s) \/ Login(s)
      PROVE  UNCHANGED cardVars
  BY <1>3 DEF Arrive, ReadChunk, Refuse, HandleLogin, HandleReset, HandleEvents, HandleProfile,
              HandleOrder, HandleUpload, Login
<1>4. CASE UNCHANGED vars
  BY <1>4, <1>2 DEF vars
<1>5. CASE Clock
  BY <1>5, <1>2 DEF Clock
<1> QED
  BY <1>1, <1>2, <1>3, <1>4, <1>5 DEF Next

\* Public cards stay complete and no new tag comes from outside the directory,
\* for any commands, identifiers and old tags.
THEOREM CardsInvariant == Spec => []CardsStayValid
<1>1. Init => CardsInv
  <2> SUFFICES ASSUME Init PROVE CardsInv
    OBVIOUS
  <2>1. product = [state |-> "none", card |-> [type |-> Undefined, price |-> Undefined,
                     basics |-> FALSE, feed |-> FALSE, images |-> FALSE]]
    BY DEF Init, CardsInit, NoProduct
  <2>2. \/ pet = [state |-> "none", urls |-> FALSE, tags |-> {},
                  card |-> [price |-> Undefined, basics |-> FALSE, images |-> FALSE]]
        \/ pet = [state |-> "PUBLISHED", urls |-> TRUE, tags |-> Historical,
                  card |-> [price |-> 1, basics |-> FALSE, images |-> FALSE]]
    BY DEF Init, CardsInit, NoPet, Migrated
  <2>3. 1 \notin {Undefined, 0} /\ Historical \subseteq Tag /\ Unknown({}) = {}
        /\ Unknown(Historical) \subseteq Historical
    BY CardsAssumption DEF Unknown
  <2>4. /\ [price |-> Undefined, basics |-> FALSE, images |-> FALSE] \in PetCardCommand
        /\ [price |-> 1, basics |-> FALSE, images |-> FALSE] \in PetCardCommand
    BY DEF Price, PetCardCommand
  <2>5. [type |-> Undefined, price |-> Undefined, basics |-> FALSE, feed |-> FALSE, images |-> FALSE]
          \in ProductCommand
    BY DEF Price, ProductCommand
  <2>6. product \in [state : Publication \cup {"none"}, card : ProductCommand]
    BY <2>1, <2>5
  <2>7. pet \in [state : Publication \cup {"none"}, card : PetCardCommand,
                 urls : BOOLEAN, tags : SUBSET Tag]
    <3>1. {"none", "PUBLISHED"} \subseteq Publication \cup {"none"} /\ {} \in SUBSET Tag
      BY DEF Publication
    <3>2. CASE pet = [state |-> "none", urls |-> FALSE, tags |-> {},
                      card |-> [price |-> Undefined, basics |-> FALSE, images |-> FALSE]]
      BY <3>1, <3>2, <2>4
    <3>3. CASE pet = [state |-> "PUBLISHED", urls |-> TRUE, tags |-> Historical,
                      card |-> [price |-> 1, basics |-> FALSE, images |-> FALSE]]
      BY <3>1, <3>3, <2>3, <2>4
    <3> QED
      BY <2>2, <3>2, <3>3
  <2>8. CardsTyped
    BY <2>6, <2>7 DEF CardsTyped
  <2>9. CardsStayValid
    BY <2>1, <2>2, <2>3 DEF CardsStayValid, Public
  <2> QED
    BY <2>8, <2>9 DEF CardsInv
<1>2. CardsInv => CardsStayValid
  BY DEF CardsInv
<1> QED
  BY <1>1, <1>2, CardsKept, PTL DEF Spec

=============================================================================
