---------------------------- MODULE SeedingProofs ----------------------------
(***************************************************************************)
(* The demonstration catalogue is created once and whole, for any package  *)
(* and any number of instances: SeededOnce, CardsKeepTheirFiles and        *)
(* CompletedIsWhole.                                                       *)
(***************************************************************************)
EXTENDS Seeding, Integers, TLAPS

USE SeedingAssumption

State == [completed : BOOLEAN, entries : [Entries -> Ids \cup {NoId}], pending : SUBSET Ids]
Steps == {"off", "waiting", "loading", "uploaded", "committed", "failed", "serving"}

TypeInv ==
    /\ note \in [Ids -> Entries \cup {NoId}]
    /\ rows \subseteq Ids /\ files \subseteq Ids
    /\ cards \subseteq rows /\ shown \subseteq cards
    /\ journal \in State
    /\ lock \in Instances \cup {NoInstance}
    /\ pc \in [Instances -> Steps]
    /\ state \in [Instances -> State]
    /\ next \in [Instances -> 1 .. Len(Package) + 1]
    /\ created \in [Instances -> SUBSET Ids]

\* The lock belongs to the instance whose transaction is open, and to nobody else.
LockInv == \A p \in Instances : pc[p] \in {"loading", "uploaded"} <=> lock = p

\* Every picture was chosen once, for an entry of the package, by one instance.
NoteInv ==
    /\ \A i \in rows : note[i] # NoId
    /\ \A p \in Instances : \A i \in created[p] : note[i] # NoId
    /\ \A p, q \in Instances : p # q => created[p] \cap created[q] = {}

\* Cards whose picture no administrator has touched: all of them show it.
Untouched == cards \ changed
CardInv == Untouched \subseteq shown

\* The pictures of the open transaction: each for an entry already passed, none for an
\* entry with an untouched card, one for an entry; all but the last are in its journal.
Passed(p, e) == \E m \in 1 .. Len(Package) :
                    /\ Package[m] = e
                    /\ m < next[p] \/ (pc[p] = "uploaded" /\ m = next[p])
RunInv ==
    \A p \in Instances : lock = p =>
        /\ ~state[p].completed
        /\ pc[p] = "uploaded" => next[p] <= Len(Package)
        /\ \A i \in created[p] : Passed(p, note[i])
        /\ \A i \in created[p], j \in Untouched : note[i] # note[j]
        /\ \A i, j \in created[p] : note[i] = note[j] => i = j
        /\ \A i \in created[p] \ state[p].pending :
              pc[p] = "uploaded" /\ note[i] = Package[next[p]]

\* What memory says about entries already passed is true, or will be with the commit.
EntryInv ==
    \A p \in Instances : lock = p =>
        \A m \in 1 .. Len(Package) : m < next[p] =>
            /\ state[p].entries[Package[m]] \in rows \cup created[p]
            /\ note[state[p].entries[Package[m]]] = Package[m]

Whole(entries) == \A e \in Entries : entries[e] \in rows /\ note[entries[e]] = e
WholeInv == \A p \in Instances : pc[p] = "committed" => Whole(state[p].entries)

SeedInv == /\ TypeInv /\ LockInv /\ NoteInv /\ CardInv /\ RunInv /\ EntryInv /\ WholeInv
           /\ SeededOnce /\ CardsKeepTheirFiles /\ CompletedIsWhole

USE DEF cardVars, dbVars, runVars

LEMMA NothingIsState == Nothing \in State
  BY DEF Nothing, State

LEMMA SeedInit == Init => SeedInv
<1> SUFFICES ASSUME Init PROVE SeedInv
  OBVIOUS
<1>1. 1 \in 1 .. Len(Package) + 1
  <2>1. Len(Package) \in Nat
    OBVIOUS
  <2> QED BY <2>1
<1>2. TypeInv
  BY <1>1, NothingIsState DEF Init, TypeInv, Steps
<1>3. LockInv /\ NoteInv /\ CardInv /\ RunInv /\ EntryInv /\ WholeInv
  BY DEF Init, LockInv, NoteInv, CardInv, Untouched, RunInv, EntryInv, WholeInv
<1>4. SeededOnce /\ CardsKeepTheirFiles /\ CompletedIsWhole
  BY DEF Init, SeededOnce, CardsKeepTheirFiles, CompletedIsWhole, Nothing
<1> QED BY <1>2, <1>3, <1>4 DEF SeedInv

-----------------------------------------------------------------------------
(* Types *)

LEMMA TypeNext ==
  ASSUME SeedInv, [Next]_vars
  PROVE  TypeInv'
<1>0. TypeInv /\ LockInv /\ RunInv
  BY DEF SeedInv
<1> USE <1>0 DEF TypeInv
<1>n. Len(Package) \in Nat
  OBVIOUS
<1>1. CASE UNCHANGED vars
  BY <1>1 DEF vars
<1>2. ASSUME NEW p \in Instances, Start(p) PROVE TypeInv'
  BY <1>2 DEF Start, Steps
<1>3. ASSUME NEW p \in Instances, TakeLock(p) PROVE TypeInv'
  <2>1. [journal EXCEPT !.pending = {}] \in State
    BY DEF State
  <2>2. 1 \in 1 .. Len(Package) + 1
    BY <1>n
  <2> QED BY <1>3, <2>1, <2>2 DEF TakeLock, Steps
<1>4. ASSUME NEW p \in Instances, Recover(p) PROVE TypeInv'
  <2>1. next[p] \in 1 .. Len(Package)
    BY <1>4, <1>n DEF Recover, Loading
  <2>2. Entry(p) \in Entries /\ next[p] + 1 \in 1 .. Len(Package) + 1
    BY <1>n, <2>1 DEF Entry
  <2>3. PICK i \in Recovered(Entry(p)) : state' = [state EXCEPT ![p].entries[Entry(p)] = i]
    BY <1>4 DEF Recover
  <2>4. i \in Ids
    BY DEF Recovered
  <2>5. [state[p] EXCEPT !.entries = [state[p].entries EXCEPT ![Entry(p)] = i]] \in State
    BY <2>2, <2>4 DEF State
  <2>6. state' = [state EXCEPT ![p] = [state[p] EXCEPT !.entries =
                                         [state[p].entries EXCEPT ![Entry(p)] = i]]]
    BY <2>3
  <2> QED BY <1>4, <2>2, <2>5, <2>6 DEF Recover
<1>5. ASSUME NEW p \in Instances, NEW i \in Ids, Upload(p, i) PROVE TypeInv'
  <2>1. next[p] \in 1 .. Len(Package)
    BY <1>5, <1>n DEF Upload, Loading
  <2>2. Entry(p) \in Entries
    BY <1>n, <2>1 DEF Entry
  <2> QED BY <1>5, <2>2 DEF Upload, Steps
<1>6. ASSUME NEW p \in Instances, CreateCard(p) PROVE TypeInv'
  <2>1. next[p] \in 1 .. Len(Package)
    BY <1>6, <1>n DEF CreateCard, LockInv, RunInv
  <2>2. Entry(p) \in Entries /\ next[p] + 1 \in 1 .. Len(Package) + 1
    BY <1>n, <2>1 DEF Entry
  <2>3. PICK i \in created[p] \ state[p].pending :
           LET known == [state[p] EXCEPT !.pending = @ \cup {i}]
           IN /\ journal' = known
              /\ state' = [state EXCEPT ![p] = [known EXCEPT !.entries[Entry(p)] = i]]
    BY <1>6 DEF CreateCard
  <2> DEFINE known == [state[p] EXCEPT !.pending = state[p].pending \cup {i}]
  <2>4. i \in Ids /\ state[p] \in State
    OBVIOUS
  <2>5. known \in State
    BY <2>4 DEF State
  <2>6. journal' = known /\ state' = [state EXCEPT ![p] = [known EXCEPT !.entries[Entry(p)] = i]]
    BY <2>3
  <2> HIDE DEF known
  <2>7. [known EXCEPT !.entries = [known.entries EXCEPT ![Entry(p)] = i]] \in State
    BY <2>2, <2>4, <2>5 DEF State
  <2>8. state' = [state EXCEPT ![p] = [known EXCEPT !.entries =
                                         [known.entries EXCEPT ![Entry(p)] = i]]]
    BY <2>6
  <2>9. state' \in [Instances -> State]
    BY <2>7, <2>8
  <2>10. pc' \in [Instances -> Steps] /\ next' \in [Instances -> 1 .. Len(Package) + 1]
    BY <1>6, <2>2 DEF CreateCard, Steps
  <2> QED BY <1>6, <2>5, <2>6, <2>9, <2>10 DEF CreateCard
<1>7. ASSUME NEW p \in Instances, Commit(p) PROVE TypeInv'
  <2>1. lock' \in Instances \cup {NoInstance}
    BY <1>7 DEF Commit, Unlocked
  <2>2. pc' \in [Instances -> Steps]
    <3>1. PICK step \in Steps : pc' = [pc EXCEPT ![p] = step]
      BY <1>7 DEF Commit, Steps
    <3> QED BY <3>1
  <2>3. rows' \subseteq Ids /\ cards' \subseteq rows' /\ shown' \subseteq cards'
    BY <1>7 DEF Commit
  <2>4. UNCHANGED <<note, files, journal, state, next, created>>
    BY <1>7 DEF Commit
  <2> QED BY <2>1, <2>2, <2>3, <2>4
<1>8. ASSUME NEW p \in Instances, Finish(p) PROVE TypeInv'
  <2>1. [state[p] EXCEPT !.completed = TRUE, !.pending = {}] \in State
    BY DEF State
  <2> QED BY <1>8, <2>1 DEF Finish, Steps
<1>9. ASSUME NEW p \in Instances, Fail(p) PROVE TypeInv'
  BY <1>9 DEF Fail, Unlocked, Steps
<1>10. ASSUME NEW p \in Instances, CleanUp(p) \/ Stop(p) PROVE TypeInv'
  <2>1. 1 \in 1 .. Len(Package) + 1
    BY <1>n
  <2>2. Forgotten(p)
    BY <1>10 DEF CleanUp, Stop
  <2>3. /\ pc' \in [Instances -> Steps] /\ next' \in [Instances -> 1 .. Len(Package) + 1]
        /\ created' \in [Instances -> SUBSET Ids] /\ state' \in [Instances -> State]
    BY <2>1, <2>2, NothingIsState DEF Forgotten, Steps
  <2>4. lock' \in Instances \cup {NoInstance} /\ files' \subseteq Ids /\ UNCHANGED <<dbVars, journal>>
    BY <1>10 DEF CleanUp, Stop, Unlocked
  <2> QED BY <2>3, <2>4
<1>11. ASSUME NEW p \in Instances, NEW i \in Ids, Edit(p, i) PROVE TypeInv'
  BY <1>11 DEF Edit, TakePicture, PutPicture, DeletePet
<1> QED BY <1>1, <1>2, <1>3, <1>4, <1>5, <1>6, <1>7, <1>8, <1>9, <1>10, <1>11 DEF Next

-----------------------------------------------------------------------------
(* The lock *)

LEMMA LockNext ==
  ASSUME SeedInv, [Next]_vars
  PROVE  LockInv'
<1> USE DEF SeedInv, TypeInv, LockInv
<1>1. CASE UNCHANGED vars
  BY <1>1 DEF vars
<1>2. ASSUME NEW p \in Instances,
             \/ Start(p) \/ Recover(p) \/ CreateCard(p) \/ Finish(p)
             \/ \E i \in Ids : Upload(p, i) \/ Edit(p, i)
      PROVE  LockInv'
  <2>1. /\ UNCHANGED lock
        /\ \A q \in Instances \ {p} : pc'[q] = pc[q]
    BY <1>2 DEF Start, Recover, CreateCard, Finish, Upload, Edit, TakePicture, PutPicture, DeletePet
  <2>2. pc'[p] \in {"loading", "uploaded"} <=> pc[p] \in {"loading", "uploaded"}
    <3>1. CASE Start(p) \/ Recover(p) \/ Finish(p)
      BY <3>1 DEF Start, Recover, Finish
    <3>2. CASE CreateCard(p)
      BY <3>2 DEF CreateCard
    <3>3. CASE \E i \in Ids : Upload(p, i) \/ Edit(p, i)
      BY <3>3 DEF Upload, Edit, TakePicture, PutPicture, DeletePet, Loading
    <3> QED BY <1>2, <3>1, <3>2, <3>3
  <2> QED BY <2>1, <2>2
<1>3. ASSUME NEW p \in Instances, TakeLock(p) PROVE LockInv'
  BY <1>3 DEF TakeLock
<1>4. ASSUME NEW p \in Instances, Commit(p) \/ Fail(p) PROVE LockInv'
  <2>1. /\ lock' = Unlocked(p)
        /\ pc'[p] \in {"committed", "failed"}
        /\ \A q \in Instances \ {p} : pc'[q] = pc[q]
    BY <1>4 DEF Commit, Fail
  <2> QED BY <2>1 DEF Unlocked
<1>5. ASSUME NEW p \in Instances, CleanUp(p) \/ Stop(p) PROVE LockInv'
  <2>1. /\ lock' = Unlocked(p)
        /\ pc'[p] = "off"
        /\ \A q \in Instances \ {p} : pc'[q] = pc[q]
    BY <1>5 DEF CleanUp, Stop, Forgotten, Unlocked
  <2> QED BY <2>1 DEF Unlocked
<1> QED BY <1>1, <1>2, <1>3, <1>4, <1>5 DEF Next

\* What ends for p leaves what q has done and holds.
Frame(q) == /\ (lock' = q <=> lock = q)
            /\ pc'[q] = pc[q] /\ state'[q] = state[q]
            /\ next'[q] = next[q] /\ created'[q] = created[q]

LEMMA OthersKept ==
  ASSUME SeedInv, NEW p \in Instances,
         \/ Start(p) \/ TakeLock(p) \/ Recover(p) \/ CreateCard(p) \/ Commit(p)
         \/ Finish(p) \/ Fail(p) \/ CleanUp(p) \/ Stop(p)
         \/ \E i \in Ids : Upload(p, i) \/ Edit(p, i)
  PROVE  \A q \in Instances \ {p} : Frame(q)
<1> USE DEF SeedInv, TypeInv, Frame
<1>1. CASE Start(p) \/ Recover(p) \/ Finish(p)
  BY <1>1 DEF Start, Recover, Finish
<1>2. CASE TakeLock(p)
  BY <1>2 DEF TakeLock
<1>3. CASE CreateCard(p)
  BY <1>3 DEF CreateCard
<1>4. CASE Commit(p) \/ Fail(p)
  BY <1>4 DEF Commit, Fail, Unlocked
<1>5. CASE CleanUp(p) \/ Stop(p)
  BY <1>5 DEF CleanUp, Stop, Forgotten, Unlocked
<1>6. CASE \E i \in Ids : Upload(p, i) \/ Edit(p, i)
  BY <1>6 DEF Upload, Edit, TakePicture, PutPicture, DeletePet
<1> QED BY <1>1, <1>2, <1>3, <1>4, <1>5, <1>6

-----------------------------------------------------------------------------
(* Pictures are chosen once *)

\* What has an entry keeps it, and rows are only added, by a commit.
LEMMA NotesStay ==
  ASSUME SeedInv, [Next]_vars
  PROVE  /\ \A i \in Ids : note[i] # NoId => note'[i] = note[i]
         /\ rows \subseteq rows'
<1> USE DEF SeedInv, TypeInv
<1>1. ASSUME NEW p \in Instances, NEW i \in Ids, Upload(p, i)
      PROVE  /\ \A j \in Ids : note[j] # NoId => note'[j] = note[j]
             /\ rows \subseteq rows'
  BY <1>1 DEF Upload
<1>2. ASSUME NEW p \in Instances, Commit(p)
      PROVE  /\ \A j \in Ids : note[j] # NoId => note'[j] = note[j]
             /\ rows \subseteq rows'
  BY <1>2 DEF Commit
<1>3. ASSUME NEW p \in Instances,
             \/ Start(p) \/ TakeLock(p) \/ Recover(p) \/ CreateCard(p)
             \/ Finish(p) \/ Fail(p) \/ CleanUp(p) \/ Stop(p)
             \/ \E i \in Ids : Edit(p, i)
      PROVE  UNCHANGED <<note, rows>>
  BY <1>3 DEF Start, TakeLock, Recover, CreateCard, Finish, Fail, CleanUp, Stop,
              Edit, TakePicture, PutPicture, DeletePet
<1>4. CASE UNCHANGED vars
  BY <1>4 DEF vars
<1> QED BY <1>1, <1>2, <1>3, <1>4 DEF Next

LEMMA NoteNext ==
  ASSUME SeedInv, [Next]_vars
  PROVE  NoteInv'
<1> USE DEF SeedInv, TypeInv
<1>1. CASE UNCHANGED <<note, rows, created>>
  BY <1>1 DEF NoteInv
<1>2. ASSUME NEW p \in Instances, NEW i \in Ids, Upload(p, i) PROVE NoteInv'
  <2>1. /\ note[i] = NoId /\ Entry(p) \in Entries
        /\ note' = [note EXCEPT ![i] = Entry(p)]
        /\ created' = [created EXCEPT ![p] = created[p] \cup {i}]
        /\ UNCHANGED rows
    BY <1>2 DEF Upload, Loading, Entry
  <2>2. note'[i] # NoId /\ \A j \in Ids : note[j] # NoId => note'[j] # NoId
    BY <2>1
  <2>3. \A q \in Instances : i \notin created[q]
    BY <2>1 DEF NoteInv
  <2>4. /\ created'[p] = created[p] \cup {i}
        /\ \A q \in Instances \ {p} : created'[q] = created[q]
    BY <2>1
  <2> QED BY <2>1, <2>2, <2>3, <2>4 DEF NoteInv
<1>3. ASSUME NEW p \in Instances, Commit(p) PROVE NoteInv'
  BY <1>3 DEF Commit, NoteInv
<1>4. ASSUME NEW p \in Instances, TakeLock(p) \/ CleanUp(p) \/ Stop(p) PROVE NoteInv'
  <2>1. /\ created'[p] = {}
        /\ \A q \in Instances \ {p} : created'[q] = created[q]
        /\ UNCHANGED <<note, rows>>
    BY <1>4 DEF TakeLock, CleanUp, Stop, Forgotten
  <2> QED BY <2>1 DEF NoteInv
<1>5. ASSUME NEW p \in Instances,
             \/ Start(p) \/ Recover(p) \/ CreateCard(p) \/ Finish(p) \/ Fail(p)
             \/ \E i \in Ids : Edit(p, i)
      PROVE  UNCHANGED <<note, rows, created>>
  BY <1>5 DEF Start, Recover, CreateCard, Finish, Fail, Edit, TakePicture, PutPicture, DeletePet
<1>6. CASE UNCHANGED vars
  BY <1>1, <1>6 DEF vars
<1> QED BY <1>1, <1>2, <1>3, <1>4, <1>5, <1>6 DEF Next

\* A card that is not shown has been changed.
LEMMA CardNext ==
  ASSUME SeedInv, [Next]_vars
  PROVE  CardInv'
<1> USE DEF SeedInv, TypeInv, CardInv, Untouched
<1>1. ASSUME NEW p \in Instances, Commit(p) PROVE CardInv'
  BY <1>1 DEF Commit
<1>2. ASSUME NEW p \in Instances, NEW i \in Ids, Edit(p, i) PROVE CardInv'
  BY <1>2 DEF Edit, TakePicture, PutPicture, DeletePet
<1>3. ASSUME NEW p \in Instances,
             \/ Start(p) \/ TakeLock(p) \/ Recover(p) \/ CreateCard(p)
             \/ Finish(p) \/ Fail(p) \/ CleanUp(p) \/ Stop(p)
             \/ \E i \in Ids : Upload(p, i)
      PROVE  UNCHANGED cardVars
  BY <1>3 DEF Start, TakeLock, Recover, CreateCard, Finish, Fail, CleanUp, Stop, Upload
<1>4. CASE UNCHANGED vars
  BY <1>4 DEF vars
<1> QED BY <1>1, <1>2, <1>3, <1>4 DEF Next

-----------------------------------------------------------------------------
(* The open transaction *)

\* While q holds the lock, no other instance adds a card or chooses a picture.
LEMMA OthersAddNothing ==
  ASSUME SeedInv, NEW q \in Instances, lock = q, NEW p \in Instances \ {q},
         \/ Start(p) \/ TakeLock(p) \/ Recover(p) \/ CreateCard(p) \/ Commit(p)
         \/ Finish(p) \/ Fail(p) \/ CleanUp(p) \/ Stop(p)
         \/ \E i \in Ids : Upload(p, i) \/ Edit(p, i)
  PROVE  UNCHANGED <<note, rows>> /\ Untouched' \subseteq Untouched
<1>1. pc[p] \notin {"loading", "uploaded"} /\ lock # NoInstance
  BY DEF SeedInv, LockInv
<1>2. \/ Start(p) \/ Finish(p) \/ Fail(p) \/ CleanUp(p) \/ Stop(p)
      \/ \E i \in Ids : Edit(p, i)
  BY <1>1 DEF TakeLock, Recover, CreateCard, Commit, Upload, Loading
<1> QED BY <1>2 DEF Start, Finish, Fail, CleanUp, Stop, Edit, TakePicture, PutPicture, DeletePet,
                    Untouched

\* RunInv and EntryInv of one instance.
RunOK(p) ==
    /\ ~state[p].completed
    /\ pc[p] = "uploaded" => next[p] <= Len(Package)
    /\ \A i \in created[p] : Passed(p, note[i])
    /\ \A i \in created[p], j \in Untouched : note[i] # note[j]
    /\ \A i, j \in created[p] : note[i] = note[j] => i = j
    /\ \A i \in created[p] \ state[p].pending :
          pc[p] = "uploaded" /\ note[i] = Package[next[p]]

EntryOK(p) ==
    \A m \in 1 .. Len(Package) : m < next[p] =>
        /\ state[p].entries[Package[m]] \in rows \cup created[p]
        /\ note[state[p].entries[Package[m]]] = Package[m]

\* What comes before an entry of the package is another entry.
LEMMA EarlierDiffers ==
  ASSUME NEW n \in 1 .. Len(Package)
  PROVE  /\ Package[n] \in Entries
         /\ \A m \in 1 .. Len(Package) :
               m < n => Package[m] \in Entries /\ Package[m] # Package[n]
<1>1. \A m \in 1 .. Len(Package) : m < n => Package[m] # Package[n]
  <2> SUFFICES ASSUME NEW m \in 1 .. Len(Package), Package[m] = Package[n] PROVE ~(m < n)
    OBVIOUS
  <2>1. m = n
    OBVIOUS
  <2> QED BY <2>1
<1> QED BY <1>1

\* The positions passed, one further.
LEMMA OneFurther ==
  ASSUME NEW n \in 1 .. Len(Package), NEW m \in 1 .. Len(Package)
  PROVE  m < n + 1 <=> m < n \/ m = n
<1>1. Len(Package) \in Nat
  OBVIOUS
<1>2. m \in Int /\ n \in Int
  BY <1>1
<1> QED BY <1>2

LEMMA PassedFurther ==
  ASSUME NEW p \in Instances, next[p] \in 1 .. Len(Package), next'[p] = next[p] + 1,
         NEW e, Passed(p, e)
  PROVE  \E m \in 1 .. Len(Package) : Package[m] = e /\ m < next'[p]
<1>1. PICK m \in 1 .. Len(Package) : Package[m] = e /\ (m < next[p] \/ m = next[p])
  BY DEF Passed
<1>2. m < next[p] + 1
  BY <1>1, OneFurther
<1> QED BY <1>1, <1>2

\* The step to the next card of the package.
LEMMA OwnStep ==
  ASSUME SeedInv, NEW p \in Instances, RunOK(p), EntryOK(p),
         Recover(p) \/ CreateCard(p) \/ \E i \in Ids : Upload(p, i)
  PROVE  RunOK(p)' /\ EntryOK(p)'
<1> USE DEF SeedInv, TypeInv
<1>n. /\ Len(Package) \in Nat
      /\ next[p] \in 1 .. Len(Package) + 1
      /\ created[p] \subseteq Ids /\ state[p] \in State /\ rows \subseteq Ids
  OBVIOUS
<1>1. CASE Recover(p)
  <2>1. /\ pc[p] = "loading" /\ next[p] <= Len(Package)
        /\ next'[p] = next[p] + 1
        /\ UNCHANGED <<note, rows, cards, changed, pc, created>>
    BY <1>1 DEF Recover, Loading
  <2>2. PICK i \in Recovered(Entry(p)) : state' = [state EXCEPT ![p].entries[Entry(p)] = i]
    BY <1>1 DEF Recover
  <2>3. i \in rows /\ note[i] = Package[next[p]]
    BY <2>2 DEF Recovered, Entry
  <2>4. Entry(p) \in Entries /\ Entry(p) = Package[next[p]]
    BY <1>n, <2>1 DEF Entry
  <2>5. state'[p] = [state[p] EXCEPT !.entries = [state[p].entries EXCEPT ![Entry(p)] = i]]
    BY <2>2
  <2>6. /\ state'[p].completed = state[p].completed /\ state'[p].pending = state[p].pending
        /\ state'[p].entries = [state[p].entries EXCEPT ![Entry(p)] = i]
    BY <1>n, <2>5 DEF State
  <2>7. next[p] \in 1 .. Len(Package) /\ state[p].entries \in [Entries -> Ids \cup {NoId}]
    BY <1>n, <2>1 DEF State
  <2>8. /\ state'[p].entries[Package[next[p]]] = i
        /\ \A m \in 1 .. Len(Package) : m < next[p] =>
              state'[p].entries[Package[m]] = state[p].entries[Package[m]]
    <3>1. state'[p].entries = [state[p].entries EXCEPT ![Package[next[p]]] = i]
      BY <2>4, <2>6
    <3> HIDE DEF SeedInv, TypeInv
    <3>2. /\ Package[next[p]] \in Entries
          /\ \A m \in 1 .. Len(Package) :
                m < next[p] => Package[m] \in Entries /\ Package[m] # Package[next[p]]
      BY <2>7, EarlierDiffers
    <3> QED BY <2>7, <3>1, <3>2
  <2>9. RunOK(p)'
    <3>1. \A e : Passed(p, e) => \E m \in 1 .. Len(Package) : Package[m] = e /\ m < next'[p]
      BY <2>1, <2>7, PassedFurther
    <3>2. \A j \in created[p] : Passed(p, note[j])'
      BY <2>1, <3>1 DEF RunOK, Passed
    <3> QED BY <2>1, <2>6, <3>2 DEF RunOK, Untouched
  <2>10. EntryOK(p)'
    <3> SUFFICES ASSUME NEW m \in 1 .. Len(Package), m < next'[p]
                 PROVE  /\ state'[p].entries[Package[m]] \in rows \cup created[p]
                        /\ note[state'[p].entries[Package[m]]] = Package[m]
      BY <2>1 DEF EntryOK
    <3>1. m < next[p] \/ m = next[p]
      BY <2>1, <2>7, OneFurther
    <3> QED BY <2>3, <2>8, <3>1 DEF EntryOK
  <2> QED BY <2>9, <2>10
<1>2. ASSUME NEW i \in Ids, Upload(p, i) PROVE RunOK(p)' /\ EntryOK(p)'
  <2>1. /\ pc[p] = "loading" /\ next[p] <= Len(Package) /\ pc'[p] = "uploaded"
        /\ note[i] = NoId
        /\ note' = [note EXCEPT ![i] = Entry(p)]
        /\ created'[p] = created[p] \cup {i}
        /\ \A j \in Untouched : note[j] # Entry(p)
        /\ UNCHANGED <<rows, cards, changed, state, next>>
    BY <1>2 DEF Upload, Loading, Recovered, CardInv
  <2>2. Entry(p) = Package[next[p]]
    BY DEF Entry
  <2>3. /\ \A j \in created[p] \cup rows : j # i /\ note'[j] = note[j]
        /\ note'[i] = Entry(p)
    BY <1>n, <2>1 DEF NoteInv
  <2>4. \A j \in created[p] : note[j] # Entry(p)
    <3> SUFFICES ASSUME NEW j \in created[p] PROVE note[j] # Entry(p)
      OBVIOUS
    <3>1. PICK m \in 1 .. Len(Package) : Package[m] = note[j] /\ m < next[p]
      BY <2>1 DEF RunOK, Passed
    <3> QED BY <1>n, <2>1, <2>2, <3>1
  <2>5. created[p] \subseteq state[p].pending
    BY <2>1 DEF RunOK
  <2>6. \A j \in created'[p] : Passed(p, note[j])'
    <3>1. \A e : Passed(p, e) => Passed(p, e)'
      BY <2>1 DEF Passed
    <3>2. Passed(p, note[i])'
      BY <1>n, <2>1, <2>2, <2>3 DEF Passed
    <3>3. \A j \in created[p] : Passed(p, note[j])'
      <4> SUFFICES ASSUME NEW j \in created[p]
                   PROVE  \E m \in 1 .. Len(Package) :
                             /\ Package[m] = note'[j]
                             /\ m < next'[p] \/ (pc'[p] = "uploaded" /\ m = next'[p])
        BY DEF Passed
      <4>1. PICK m \in 1 .. Len(Package) : Package[m] = note[j] /\ m < next[p]
        BY <2>1 DEF RunOK, Passed
      <4> QED BY <2>1, <2>3, <4>1
    <3> QED BY <2>1, <3>2, <3>3
  <2>7. RunOK(p)'
    <3>1. \A j \in created'[p], k \in Untouched' : note'[j] # note'[k]
      <4>1. Untouched' = Untouched /\ Untouched \subseteq rows
        BY <2>1 DEF Untouched
      <4> QED BY <2>1, <2>3, <2>4, <4>1 DEF RunOK
    <3>2. \A j, k \in created'[p] : note'[j] = note'[k] => j = k
      BY <2>1, <2>3, <2>4 DEF RunOK
    <3>3. \A j \in created'[p] \ state'[p].pending :
             pc'[p] = "uploaded" /\ note'[j] = Package[next'[p]]
      BY <2>1, <2>2, <2>3, <2>5
    <3> QED BY <2>1, <2>6, <3>1, <3>2, <3>3 DEF RunOK
  <2>8. EntryOK(p)'
    BY <2>1, <2>3 DEF EntryOK
  <2> QED BY <2>7, <2>8
<1>3. CASE CreateCard(p)
  <2>1. /\ pc[p] = "uploaded" /\ pc'[p] = "loading" /\ next[p] <= Len(Package)
        /\ next'[p] = next[p] + 1
        /\ UNCHANGED <<note, rows, cards, changed, created>>
    <3>1. pc[p] = "uploaded"
      BY <1>3 DEF CreateCard
    <3>2. next[p] <= Len(Package)
      BY <3>1 DEF RunOK
    <3> QED BY <1>3, <3>1, <3>2 DEF CreateCard
  <2>2. PICK i \in created[p] \ state[p].pending :
          state'[p] = [[state[p] EXCEPT !.pending = @ \cup {i}] EXCEPT !.entries[Entry(p)] = i]
    BY <1>3 DEF CreateCard
  <2>3. note[i] = Package[next[p]] /\ i \in Ids
    BY <1>n DEF RunOK
  <2>4. Entry(p) \in Entries /\ Entry(p) = Package[next[p]]
    BY <1>n, <2>1 DEF Entry
  <2>5. state'[p] = [state[p] EXCEPT !.pending = state[p].pending \cup {i},
                                     !.entries = [state[p].entries EXCEPT ![Entry(p)] = i]]
    BY <1>n, <2>2 DEF State
  <2>6. /\ state'[p].completed = state[p].completed
        /\ state'[p].pending = state[p].pending \cup {i}
        /\ state'[p].entries = [state[p].entries EXCEPT ![Entry(p)] = i]
    BY <1>n, <2>5 DEF State
  <2>7. next[p] \in 1 .. Len(Package) /\ state[p].entries \in [Entries -> Ids \cup {NoId}]
    BY <1>n, <2>1 DEF State
  <2>8. /\ state'[p].entries[Package[next[p]]] = i
        /\ \A m \in 1 .. Len(Package) : m < next[p] =>
              state'[p].entries[Package[m]] = state[p].entries[Package[m]]
    <3>1. state'[p].entries = [state[p].entries EXCEPT ![Package[next[p]]] = i]
      BY <2>4, <2>6
    <3> HIDE DEF SeedInv, TypeInv
    <3>2. /\ Package[next[p]] \in Entries
          /\ \A m \in 1 .. Len(Package) :
                m < next[p] => Package[m] \in Entries /\ Package[m] # Package[next[p]]
      BY <2>7, EarlierDiffers
    <3> QED BY <2>7, <3>1, <3>2
  <2>9. created'[p] \ state'[p].pending = {}
    BY <2>1, <2>3, <2>6 DEF RunOK
  <2>10. RunOK(p)'
    <3>1. \A e : Passed(p, e) => \E m \in 1 .. Len(Package) : Package[m] = e /\ m < next'[p]
      BY <2>1, <2>7, PassedFurther
    <3>2. \A j \in created[p] : Passed(p, note[j])'
      BY <2>1, <3>1 DEF RunOK, Passed
    <3> QED BY <2>1, <2>6, <2>9, <3>2 DEF RunOK, Untouched
  <2>11. EntryOK(p)'
    <3> SUFFICES ASSUME NEW m \in 1 .. Len(Package), m < next'[p]
                 PROVE  /\ state'[p].entries[Package[m]] \in rows \cup created[p]
                        /\ note[state'[p].entries[Package[m]]] = Package[m]
      BY <2>1 DEF EntryOK
    <3>1. m < next[p] \/ m = next[p]
      BY <2>1, <2>7, OneFurther
    <3> QED BY <2>2, <2>3, <2>8, <3>1 DEF EntryOK
  <2> QED BY <2>10, <2>11
<1> QED BY <1>1, <1>2, <1>3

LEMMA RunNext ==
  ASSUME SeedInv, [Next]_vars
  PROVE  RunInv' /\ EntryInv'
<1> SUFFICES ASSUME NEW q \in Instances, lock' = q PROVE RunOK(q)' /\ EntryOK(q)'
  BY DEF RunInv, EntryInv, RunOK, EntryOK
<1> USE DEF SeedInv, TypeInv
<1>1. lock = q => RunOK(q) /\ EntryOK(q)
  BY DEF RunInv, EntryInv, RunOK, EntryOK
<1>2. CASE UNCHANGED vars
  BY <1>1, <1>2 DEF vars, RunOK, EntryOK, Passed, Untouched
<1>3. ASSUME NEW p \in Instances \ {q},
             \/ Start(p) \/ TakeLock(p) \/ Recover(p) \/ CreateCard(p) \/ Commit(p)
             \/ Finish(p) \/ Fail(p) \/ CleanUp(p) \/ Stop(p)
             \/ \E i \in Ids : Upload(p, i) \/ Edit(p, i)
      PROVE  RunOK(q)' /\ EntryOK(q)'
  <2>1. Frame(q) /\ lock = q
    <3>1. \A g \in Instances \ {p} : Frame(g)
      BY <1>3, OthersKept
    <3> QED BY <3>1 DEF Frame
  <2>2. UNCHANGED <<note, rows>> /\ Untouched' \subseteq Untouched
    BY <1>3, <2>1, OthersAddNothing
  <2>3. RunOK(q)'
    <3>1. \A e : Passed(q, e)' <=> Passed(q, e)
      BY <2>1 DEF Passed, Frame
    <3>2. \A j \in created[q] : Passed(q, note[j])'
      BY <1>1, <2>1, <2>2, <3>1 DEF RunOK, Passed, Frame
    <3> QED BY <1>1, <2>1, <2>2, <3>2 DEF RunOK, Frame
  <2>4. EntryOK(q)'
    BY <1>1, <2>1, <2>2 DEF EntryOK, Frame
  <2> QED BY <2>3, <2>4
<1>4. CASE Recover(q) \/ CreateCard(q) \/ \E i \in Ids : Upload(q, i)
  <2>1. lock = q
    BY <1>4 DEF Recover, CreateCard, Upload
  <2> QED BY <1>1, <1>4, <2>1, OwnStep
<1>5. CASE TakeLock(q)
  <2>1. ~journal.completed
    BY <1>5 DEF TakeLock
  <2>2. /\ state'[q] = [journal EXCEPT !.pending = {}]
        /\ next'[q] = 1 /\ created'[q] = {} /\ pc'[q] = "loading"
    BY <1>5, <2>1 DEF TakeLock
  <2>3. ~state'[q].completed
    BY <2>1, <2>2 DEF State
  <2> QED BY <2>2, <2>3 DEF RunOK, EntryOK
<1>6. CASE \/ Start(q) \/ Commit(q) \/ Finish(q) \/ Fail(q) \/ CleanUp(q) \/ Stop(q)
           \/ \E i \in Ids : Edit(q, i)
  <2>1. pc'[q] \notin {"loading", "uploaded"}
    BY <1>6 DEF Start, Commit, Finish, Fail, CleanUp, Stop, Forgotten,
                Edit, TakePicture, PutPicture, DeletePet
  <2> QED BY <2>1, LockNext DEF LockInv
<1>7. CASE Next
  <2> PICK p \in Instances :
        \/ Start(p) \/ TakeLock(p) \/ Recover(p) \/ CreateCard(p) \/ Commit(p)
        \/ Finish(p) \/ Fail(p) \/ CleanUp(p) \/ Stop(p)
        \/ \E i \in Ids : Upload(p, i) \/ Edit(p, i)
    BY <1>7 DEF Next
  <2>1. CASE p # q
    BY <1>3, <2>1
  <2>2. CASE p = q
    BY <1>4, <1>5, <1>6, <2>2
  <2> QED BY <2>1, <2>2
<1> QED BY <1>2, <1>7

-----------------------------------------------------------------------------
(* The journal and the files *)

LEMMA WholeStays ==
  ASSUME SeedInv, [Next]_vars, NEW entries, Whole(entries)
  PROVE  Whole(entries)'
<1>1. \A e \in Entries : entries[e] \in rows /\ note[entries[e]] = e
  BY DEF Whole
<1>2. \A e \in Entries : entries[e] \in rows' /\ note'[entries[e]] = e
  BY <1>1, NotesStay DEF SeedInv, TypeInv, NoteInv
<1> QED BY <1>2 DEF Whole

LEMMA WholeNext ==
  ASSUME SeedInv, [Next]_vars
  PROVE  WholeInv'
<1> SUFFICES ASSUME NEW q \in Instances, pc'[q] = "committed"
             PROVE  \A e \in Entries : /\ state'[q].entries[e] \in rows'
                                       /\ note'[state'[q].entries[e]] = e
  BY DEF WholeInv, Whole
<1> USE DEF SeedInv, TypeInv
<1>1. CASE pc[q] = "committed" /\ state'[q] = state[q]
  <2>1. \A e \in Entries : state[q].entries[e] \in rows /\ note[state[q].entries[e]] = e
    BY <1>1 DEF WholeInv, Whole
  <2>2. rows \subseteq Ids /\ \A i \in rows : note[i] # NoId
    BY DEF NoteInv
  <2> HIDE DEF SeedInv, TypeInv
  <2> QED BY <1>1, <2>1, <2>2, NotesStay
<1>2. CASE Commit(q)
  <2>1. /\ lock = q /\ next[q] > Len(Package)
        /\ rows' = rows \cup created[q] /\ UNCHANGED <<note, state>>
    BY <1>2 DEF Commit, LockInv
  <2> SUFFICES ASSUME NEW e \in Entries
               PROVE  state[q].entries[e] \in rows \cup created[q] /\ note[state[q].entries[e]] = e
    BY <2>1
  <2>2. PICK m \in 1 .. Len(Package) : Package[m] = e
    OBVIOUS
  <2>3. m < next[q]
    BY <2>1
  <2> QED BY <2>1, <2>2, <2>3 DEF EntryInv
<1>3. CASE UNCHANGED vars
  BY <1>1, <1>3 DEF vars
<1>4. ASSUME NEW p \in Instances \ {q},
             \/ Start(p) \/ TakeLock(p) \/ Recover(p) \/ CreateCard(p) \/ Commit(p)
             \/ Finish(p) \/ Fail(p) \/ CleanUp(p) \/ Stop(p)
             \/ \E i \in Ids : Upload(p, i) \/ Edit(p, i)
      PROVE  pc[q] = "committed" /\ state'[q] = state[q]
  BY <1>4, OthersKept DEF Frame
<1>5. CASE \/ Start(q) \/ TakeLock(q) \/ Recover(q) \/ CreateCard(q)
           \/ Finish(q) \/ Fail(q) \/ CleanUp(q) \/ Stop(q)
           \/ \E i \in Ids : Upload(q, i) \/ Edit(q, i)
  <2>1. pc \in [Instances -> Steps]
    OBVIOUS
  <2> HIDE DEF SeedInv, TypeInv
  <2>2. CASE Start(q) \/ Finish(q) \/ Fail(q) \/ CreateCard(q) \/ \E i \in Ids : Upload(q, i)
    BY <2>1, <2>2 DEF Start, Finish, Fail, CreateCard, Upload
  <2>3. CASE TakeLock(q) \/ CleanUp(q) \/ Stop(q)
    BY <2>1, <2>3 DEF TakeLock, CleanUp, Stop, Forgotten
  <2>4. CASE Recover(q) \/ \E i \in Ids : Edit(q, i)
    BY <2>4 DEF Recover, Loading, Edit, TakePicture, PutPicture, DeletePet, runVars
  <2> QED BY <1>5, <2>2, <2>3, <2>4
<1>6. CASE Next
  <2> PICK p \in Instances :
        \/ Start(p) \/ TakeLock(p) \/ Recover(p) \/ CreateCard(p) \/ Commit(p)
        \/ Finish(p) \/ Fail(p) \/ CleanUp(p) \/ Stop(p)
        \/ \E i \in Ids : Upload(p, i) \/ Edit(p, i)
    BY <1>6 DEF Next
  <2>1. CASE p # q
    BY <1>1, <1>4, <2>1
  <2>2. CASE p = q
    BY <1>2, <1>5, <2>2
  <2> QED BY <2>1, <2>2
<1> QED BY <1>3, <1>6

LEMMA CompletedNext ==
  ASSUME SeedInv, [Next]_vars
  PROVE  CompletedIsWhole'
<1> SUFFICES ASSUME journal'.completed
             PROVE  \A e \in Entries : /\ journal'.entries[e] \in rows'
                                       /\ note'[journal'.entries[e]] = e
  BY DEF CompletedIsWhole
<1> USE DEF SeedInv, TypeInv
<1>1. CASE journal' = journal
  BY <1>1, NotesStay DEF CompletedIsWhole, NoteInv
<1>2. ASSUME NEW p \in Instances, Finish(p)
      PROVE  \A e \in Entries : /\ journal'.entries[e] \in rows'
                                /\ note'[journal'.entries[e]] = e
  <2>1. /\ journal' = [state[p] EXCEPT !.completed = TRUE, !.pending = {}]
        /\ UNCHANGED <<note, rows>> /\ pc[p] = "committed"
    BY <1>2 DEF Finish
  <2>2. journal'.entries = state[p].entries
    BY <2>1 DEF State
  <2> QED BY <2>1, <2>2 DEF WholeInv, Whole
<1>3. ASSUME NEW p \in Instances, CreateCard(p) PROVE FALSE
  <2>1. PICK i : journal' = [state[p] EXCEPT !.pending = @ \cup {i}]
    BY <1>3 DEF CreateCard
  <2>2. journal'.completed = state[p].completed
    BY <2>1 DEF State
  <2>3. lock = p
    BY <1>3 DEF CreateCard, LockInv
  <2> QED BY <2>2, <2>3 DEF RunInv
<1>4. CASE UNCHANGED vars
  BY <1>1, <1>4 DEF vars
<1>5. ASSUME NEW p \in Instances,
             \/ Start(p) \/ TakeLock(p) \/ Recover(p) \/ Commit(p)
             \/ Fail(p) \/ CleanUp(p) \/ Stop(p)
             \/ \E i \in Ids : Upload(p, i) \/ Edit(p, i)
      PROVE  journal' = journal
  BY <1>5 DEF Start, TakeLock, Recover, Commit, Fail, CleanUp, Stop, Upload,
              Edit, TakePicture, PutPicture, DeletePet
<1> QED BY <1>1, <1>2, <1>3, <1>4, <1>5 DEF Next

LEMMA OnceNext ==
  ASSUME SeedInv, [Next]_vars
  PROVE  SeededOnce'
<1> USE DEF SeedInv, TypeInv
<1>1. CASE Untouched' \subseteq Untouched
  <2>1. \A i, j \in Untouched' : /\ i \in Untouched /\ note'[i] = note[i]
                                /\ j \in Untouched /\ note'[j] = note[j]
    BY <1>1, NotesStay DEF NoteInv, Untouched
  <2> QED BY <2>1 DEF SeededOnce, Untouched
<1>2. ASSUME NEW p \in Instances, Commit(p) PROVE SeededOnce'
  <2>1. lock = p /\ Untouched' \subseteq Untouched \cup created[p] /\ UNCHANGED note
    BY <1>2 DEF Commit, LockInv, Untouched
  <2>2. /\ \A i \in created[p], j \in Untouched : note[i] # note[j]
        /\ \A i, j \in created[p] : note[i] = note[j] => i = j
    BY <2>1 DEF RunInv
  <2> QED BY <2>1, <2>2 DEF SeededOnce, Untouched
<1>3. ASSUME NEW p \in Instances,
             \/ Start(p) \/ TakeLock(p) \/ Recover(p) \/ CreateCard(p)
             \/ Finish(p) \/ Fail(p) \/ CleanUp(p) \/ Stop(p)
             \/ \E i \in Ids : Upload(p, i) \/ Edit(p, i)
      PROVE  Untouched' \subseteq Untouched
  BY <1>3 DEF Start, TakeLock, Recover, CreateCard, Finish, Fail, CleanUp, Stop, Upload,
              Edit, TakePicture, PutPicture, DeletePet, Untouched
<1>4. CASE UNCHANGED vars
  BY <1>1, <1>4 DEF vars, Untouched
<1> QED BY <1>1, <1>2, <1>3, <1>4 DEF Next

LEMMA FilesNext ==
  ASSUME SeedInv, [Next]_vars
  PROVE  CardsKeepTheirFiles'
<1> USE DEF SeedInv, TypeInv, CardsKeepTheirFiles
<1>1. CASE UNCHANGED vars
  BY <1>1 DEF vars
<1>2. ASSUME NEW p \in Instances, TakeLock(p) PROVE CardsKeepTheirFiles'
  <2>1. files' = files \ (journal.pending \ rows) /\ UNCHANGED rows
    BY <1>2 DEF TakeLock, RolledBack
  <2>2. \A q \in Instances : lock' = q => created'[q] = {}
    BY <1>2 DEF TakeLock
  <2> QED BY <2>1, <2>2
<1>3. ASSUME NEW p \in Instances, NEW i \in Ids, Upload(p, i) PROVE CardsKeepTheirFiles'
  <2>1. /\ files' = files \cup {i} /\ UNCHANGED <<rows, lock>>
        /\ \A q \in Instances : created'[q] \subseteq created[q] \cup {i}
    BY <1>3 DEF Upload
  <2> QED BY <2>1
<1>4. ASSUME NEW p \in Instances, Commit(p) PROVE CardsKeepTheirFiles'
  <2>1. lock = p /\ rows' = rows \cup created[p] /\ UNCHANGED <<files, created>>
    BY <1>4 DEF Commit, LockInv
  <2>2. lock' = NoInstance
    BY <1>4, <2>1 DEF Commit, Unlocked
  <2> QED BY <2>1, <2>2
<1>5. ASSUME NEW p \in Instances, CleanUp(p) PROVE CardsKeepTheirFiles'
  <2>1. /\ files' = files \ (created[p] \ rows) /\ UNCHANGED <<rows, lock>>
        /\ lock # p
        /\ \A q \in Instances \ {p} : created'[q] = created[q]
    BY <1>5 DEF CleanUp, RolledBack, Forgotten, LockInv
  <2>2. \A q \in Instances \ {p} : created[q] \cap created[p] = {}
    BY DEF NoteInv
  <2> QED BY <2>1, <2>2
<1>6. ASSUME NEW p \in Instances, Stop(p) \/ Fail(p) PROVE CardsKeepTheirFiles'
  <2>1. /\ UNCHANGED <<rows, files>>
        /\ lock' = Unlocked(p)
        /\ \A q \in Instances \ {p} : created'[q] = created[q]
    BY <1>6 DEF Stop, Fail, Forgotten
  <2> QED BY <2>1 DEF Unlocked
<1>7. ASSUME NEW p \in Instances,
             \/ Start(p) \/ Recover(p) \/ CreateCard(p) \/ Finish(p)
             \/ \E i \in Ids : Edit(p, i)
      PROVE  CardsKeepTheirFiles'
  <2>1. UNCHANGED <<rows, files, lock, created>>
    BY <1>7 DEF Start, Recover, CreateCard, Finish, Edit, TakePicture, PutPicture, DeletePet
  <2> QED BY <2>1
<1> QED BY <1>1, <1>2, <1>3, <1>4, <1>5, <1>6, <1>7 DEF Next

LEMMA SeedInvariant == Spec => []SeedInv
<1>1. SeedInv /\ [Next]_vars => SeedInv'
  <2> SUFFICES ASSUME SeedInv, [Next]_vars PROVE SeedInv'
    OBVIOUS
  <2>1. TypeInv' /\ LockInv' /\ NoteInv' /\ CardInv' /\ RunInv' /\ EntryInv'
    BY TypeNext, LockNext, NoteNext, CardNext, RunNext
  <2>2. WholeInv' /\ SeededOnce' /\ CardsKeepTheirFiles' /\ CompletedIsWhole'
    BY WholeNext, OnceNext, FilesNext, CompletedNext
  <2> QED BY <2>1, <2>2 DEF SeedInv
<1> QED BY <1>1, SeedInit, PTL DEF Spec

\* Whatever starts, failures, lost commits and stops there are, an entry of the package
\* never has two cards whose picture nobody has taken away.
THEOREM SeededOnceInvariant == Spec => []SeededOnce
<1>1. SeedInv => SeededOnce
  BY DEF SeedInv
<1> QED BY <1>1, SeedInvariant, PTL

\* No cleanup takes the file of a committed card, or of the open transaction.
THEOREM SeedFilesInvariant == Spec => []CardsKeepTheirFiles
<1>1. SeedInv => CardsKeepTheirFiles
  BY DEF SeedInv
<1> QED BY <1>1, SeedInvariant, PTL

\* A completed journal names a committed card for every entry.
THEOREM CompletedInvariant == Spec => []CompletedIsWhole
<1>1. SeedInv => CompletedIsWhole
  BY DEF SeedInv
<1> QED BY <1>1, SeedInvariant, PTL

=============================================================================
