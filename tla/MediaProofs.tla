------------------------------ MODULE MediaProofs ------------------------------
(***************************************************************************)
(* Pictures stay, for any sets of images, cards and orders: the proofs of  *)
(* LinkedIsServed, PublishedHasImage and PublishedUnderActive.             *)
(***************************************************************************)
EXTENDS Media, FiniteSetTheorems, TLAPS

USE MediaAssumption DEF Cards

-----------------------------------------------------------------------------
(* Types *)

RowsT == /\ row \in [Images -> {"none", "live", "deleted", "removed"}]
         /\ files \in [Images -> SUBSET Both]
         /\ old \in [Images -> BOOLEAN]
         /\ upload \in [Images -> UploadSteps]
         /\ removers \in [Images -> SUBSET (Both \cup {"row"})]
         /\ candidates \subseteq Images

CardsT == /\ active \in [Categories -> BOOLEAN]
          /\ card \in [Cards -> Card]
          /\ saving \in [Cards -> SaveCommand \cup {NoSave}]

OrdersT == /\ order \in [Orders -> Snapshot]
           /\ ordering \in [Orders -> Snapshot]

\* The uploads that decode hold the permits that are out.
Decoding == {i \in Images : upload[i] = "decoding"}
SlotsT == /\ slots \in Nat
          /\ IsFiniteSet(Decoding)
          /\ slots + Cardinality(Decoding) = ImageWorkers

TypeInv == RowsT /\ CardsT /\ OrdersT /\ SlotsT

LEMMA TypeParts == TypeInv => MediaTypeOK
<1> SUFFICES ASSUME TypeInv PROVE MediaTypeOK
  OBVIOUS
<1>1. Cardinality(Decoding) \in Nat
  BY FS_CardinalityType DEF TypeInv, SlotsT
<1>2. /\ slots \in 0 .. ImageWorkers
      /\ slots + Cardinality({i \in Images : upload[i] = "decoding"}) = ImageWorkers
  BY <1>1 DEF TypeInv, SlotsT, Decoding
<1> QED BY <1>2 DEF TypeInv, RowsT, CardsT, OrdersT, MediaTypeOK

LEMMA TypeInit == Init => TypeInv
<1> SUFFICES ASSUME Init PROVE TypeInv
  OBVIOUS
<1>1. Decoding = {}
  BY DEF Init, Decoding
<1>2. SlotsT
  BY <1>1, FS_EmptySet DEF Init, SlotsT
<1>3. RowsT /\ CardsT /\ OrdersT
  BY DEF Init, RowsT, CardsT, OrdersT, UploadSteps, NoCard, Card, NoLines, Snapshot
<1> QED BY <1>2, <1>3 DEF TypeInv

\* Only BeginUpload and Normalize take and return a permit.
LEMMA SlotsNext == TypeInv /\ [Next]_vars => SlotsT'
<1> SUFFICES ASSUME TypeInv, [Next]_vars PROVE SlotsT'
  OBVIOUS
<1>1. IsFiniteSet(Decoding) /\ slots \in Nat /\ slots + Cardinality(Decoding) = ImageWorkers
  BY DEF TypeInv, SlotsT
<1>2. Cardinality(Decoding) \in Nat
  BY <1>1, FS_CardinalityType
<1>3. ASSUME NEW i \in Images, BeginUpload(i) PROVE SlotsT'
  <2>1. Decoding' = Decoding \cup {i} /\ i \notin Decoding
    BY <1>3 DEF BeginUpload, Decoding, TypeInv, RowsT
  <2>2. Cardinality(Decoding') = Cardinality(Decoding) + 1 /\ IsFiniteSet(Decoding')
    BY <1>1, <2>1, FS_AddElement
  <2>3. slots > 0 /\ slots' = slots - 1
    BY <1>3 DEF BeginUpload
  <2> QED BY <1>1, <1>2, <2>2, <2>3 DEF SlotsT
<1>4. ASSUME NEW i \in Images, Normalize(i) PROVE SlotsT'
  <2>1. Decoding' = Decoding \ {i} /\ i \in Decoding
    BY <1>4 DEF Normalize, Decoding, TypeInv, RowsT
  <2>2. Cardinality(Decoding') = Cardinality(Decoding) - 1 /\ IsFiniteSet(Decoding')
    BY <1>1, <2>1, FS_RemoveElement
  <2>3. slots' = slots + 1
    BY <1>4 DEF Normalize, Released
  <2> QED BY <1>1, <1>2, <2>2, <2>3 DEF SlotsT
<1>5. ASSUME UNCHANGED slots, Decoding' = Decoding PROVE SlotsT'
  BY <1>1, <1>5 DEF SlotsT
<1>6. ASSUME NEW i \in Images,
             WriteFile(i) \/ InsertMedia(i) \/ UndoUpload(i) \/ CrashUpload(i)
      PROVE  SlotsT'
  <2>1. Decoding' = Decoding /\ UNCHANGED slots
    BY <1>6 DEF WriteFile, InsertMedia, UndoUpload, CrashUpload, Decoding, InProgress, Both,
                TypeInv, RowsT
  <2> QED BY <2>1, <1>5
<1>7. CASE UNCHANGED <<slots, upload>>
  BY <1>5, <1>7 DEF Decoding
<1>8. CASE MediaNext
  <2>1. CASE Day \/ FindCandidates \/ Claim \/ AbortCleanup
    BY <1>7, <2>1 DEF Day, FindCandidates, Claim, AbortCleanup
  <2>2. ASSUME NEW i \in Images,
               \/ DeleteMedia(i) \/ MarkRemoved(i)
               \/ \E file \in Both : Unlink(i, file) \/ RemoveOrphan(i, file)
               \/ \E step \in Both \cup {"row"} : GiveUp(i, step)
        PROVE  SlotsT'
    BY <1>7, <2>2 DEF DeleteMedia, MarkRemoved, Unlink, RemoveOrphan, GiveUp
  <2> QED BY <1>3, <1>4, <1>6, <1>8, <2>1, <2>2 DEF MediaNext, UploadStep
<1>9. CASE CatalogNext
  BY <1>7, <1>9 DEF CatalogNext, BeginSave, CommitSave, AbortSave, Publish, SaveCategory,
                    CreatePet, DeletePet, mediaVars
<1>10. CASE OrderNext
  BY <1>7, <1>10 DEF OrderNext, BeginOrder, CommitOrder, AbortOrder, DeleteOrder, mediaVars
<1>11. CASE UNCHANGED vars
  BY <1>7, <1>11 DEF vars, mediaVars
<1> QED BY <1>8, <1>9, <1>10, <1>11 DEF Next

LEMMA RowsNext == TypeInv /\ [Next]_vars => RowsT'
<1> SUFFICES ASSUME TypeInv, [Next]_vars PROVE RowsT'
  OBVIOUS
<1> USE DEF TypeInv, RowsT, Both
<1>1. CASE UNCHANGED mediaVars
  BY <1>1 DEF mediaVars
<1>2. CASE Day \/ FindCandidates \/ Claim \/ AbortCleanup
  <2>1. CASE Day
    BY <2>1 DEF Day
  <2>2. CASE FindCandidates \/ AbortCleanup
    BY <2>2 DEF FindCandidates, AbortCleanup
  <2>3. CASE Claim
    BY <2>3 DEF Claim
  <2> QED BY <1>2, <2>1, <2>2, <2>3
<1>3. ASSUME NEW i \in Images,
             \/ BeginUpload(i) \/ Normalize(i) \/ WriteFile(i) \/ InsertMedia(i)
             \/ UndoUpload(i) \/ CrashUpload(i)
      PROVE  RowsT'
  <2> USE DEF UploadSteps
  <2>1. CASE BeginUpload(i) \/ Normalize(i) \/ CrashUpload(i)
    BY <2>1 DEF BeginUpload, Normalize, CrashUpload
  <2>2. CASE WriteFile(i)
    BY <2>2 DEF WriteFile
  <2>3. CASE InsertMedia(i)
    BY <2>3 DEF InsertMedia
  <2>4. CASE UndoUpload(i)
    BY <2>4 DEF UndoUpload
  <2> QED BY <1>3, <2>1, <2>2, <2>3, <2>4
<1>4. ASSUME NEW i \in Images, DeleteMedia(i) \/ MarkRemoved(i) PROVE RowsT'
  BY <1>4 DEF DeleteMedia, MarkRemoved
<1>5. ASSUME NEW i \in Images, NEW file \in Both, Unlink(i, file) \/ RemoveOrphan(i, file)
      PROVE  RowsT'
  BY <1>5 DEF Unlink, RemoveOrphan
<1>6. ASSUME NEW i \in Images, NEW step \in Both \cup {"row"}, GiveUp(i, step) PROVE RowsT'
  BY <1>6 DEF GiveUp
<1>7. CASE MediaNext
  BY <1>2, <1>3, <1>4, <1>5, <1>6, <1>7 DEF MediaNext, UploadStep
<1>8. CASE CatalogNext
  BY <1>1, <1>8 DEF CatalogNext, BeginSave, CommitSave, AbortSave, Publish, SaveCategory,
                    CreatePet, DeletePet
<1>9. CASE OrderNext
  BY <1>1, <1>9 DEF OrderNext, BeginOrder, CommitOrder, AbortOrder, DeleteOrder
<1> QED BY <1>1, <1>7, <1>8, <1>9 DEF Next, vars

LEMMA CardsNext == TypeInv /\ [Next]_vars => CardsT'
<1> SUFFICES ASSUME TypeInv, [Next]_vars PROVE CardsT'
  OBVIOUS
<1> USE DEF TypeInv, CardsT
<1>1. CASE UNCHANGED cardVars
  BY <1>1 DEF cardVars
<1>2. CASE CatalogNext
  <2>1. ASSUME NEW c \in Cards, NEW command \in SaveCommand, BeginSave(c, command)
        PROVE  CardsT'
    BY <2>1 DEF BeginSave
  <2>2. ASSUME NEW c \in Cards, CommitSave(c) PROVE CardsT'
    <3>1. saving[c] \in SaveCommand /\ card[c] \in Card
      BY <2>2 DEF CommitSave
    <3>2. [status |-> IF card[c].status = "absent" THEN "DRAFT" ELSE card[c].status,
           images |-> saving[c].images, category |-> saving[c].category] \in Card
      BY <3>1 DEF SaveCommand, Card, Publication
    <3> QED BY <2>2, <3>2 DEF CommitSave
  <2>3. ASSUME NEW c \in Cards, AbortSave(c) PROVE CardsT'
    BY <2>3 DEF AbortSave
  <2>4. ASSUME NEW c \in Cards, NEW target \in Publication, Publish(c, target) PROVE CardsT'
    <3>1. [card[c] EXCEPT !.status = target] \in Card
      BY DEF Card
    <3>2. card' = [card EXCEPT ![c] = [card[c] EXCEPT !.status = target]]
      BY <2>4 DEF Publish
    <3> QED BY <2>4, <3>1, <3>2 DEF Publish
  <2>5. ASSUME NEW k \in Categories, SaveCategory(k) PROVE CardsT'
    BY <2>5 DEF SaveCategory
  <2>6. ASSUME NEW p \in Pets, CreatePet(p) PROVE CardsT'
    <3>1. [card[p] EXCEPT !.status = "PUBLISHED"] \in Card
      BY DEF Card, Publication
    <3>2. card' = [card EXCEPT ![p] = [card[p] EXCEPT !.status = "PUBLISHED"]]
      BY <2>6 DEF CreatePet
    <3> QED BY <2>6, <3>1, <3>2 DEF CreatePet
  <2>7. ASSUME NEW p \in Pets, DeletePet(p) PROVE CardsT'
    <3>1. NoCard \in Card
      BY DEF NoCard, Card
    <3> QED BY <2>7, <3>1 DEF DeletePet
  <2> QED BY <1>2, <2>1, <2>2, <2>3, <2>4, <2>5, <2>6, <2>7 DEF CatalogNext
<1>3. CASE MediaNext \/ OrderNext
  <2>1. UNCHANGED cardVars
    BY <1>3 DEF MediaNext, UploadStep, OrderNext, Day, FindCandidates, Claim, AbortCleanup,
                BeginUpload, Normalize, WriteFile, InsertMedia, UndoUpload, CrashUpload,
                DeleteMedia, Unlink, RemoveOrphan, MarkRemoved, GiveUp, BeginOrder, CommitOrder,
                AbortOrder, DeleteOrder
  <2> QED BY <1>1, <2>1
<1> QED BY <1>1, <1>2, <1>3 DEF Next, vars

LEMMA OrdersNext == TypeInv /\ [Next]_vars => OrdersT'
<1> SUFFICES ASSUME TypeInv, [Next]_vars PROVE OrdersT'
  OBVIOUS
<1> USE DEF TypeInv, OrdersT
<1>1. CASE UNCHANGED orderVars
  BY <1>1 DEF orderVars
<1>2. CASE OrderNext
  <2>1. ASSUME NEW o \in Orders, NEW cards \in SUBSET Cards, NEW covers \in SUBSET Images,
               BeginOrder(o, cards, covers)
        PROVE  OrdersT'
    <3>1. [cards |-> cards, covers |-> covers] \in Snapshot
      BY DEF Snapshot
    <3> QED BY <2>1, <3>1 DEF BeginOrder
  <2>2. NoLines \in Snapshot
    BY DEF NoLines, Snapshot
  <2>3. ASSUME NEW o \in Orders, CommitOrder(o) \/ AbortOrder(o) \/ DeleteOrder(o)
        PROVE  OrdersT'
    BY <2>2, <2>3 DEF CommitOrder, AbortOrder, DeleteOrder
  <2> QED BY <1>2, <2>1, <2>3 DEF OrderNext
<1>3. CASE MediaNext \/ CatalogNext
  <2>1. UNCHANGED orderVars
    BY <1>3 DEF MediaNext, UploadStep, CatalogNext, Day, FindCandidates, Claim, AbortCleanup,
                BeginUpload, Normalize, WriteFile, InsertMedia, UndoUpload, CrashUpload,
                DeleteMedia, Unlink, RemoveOrphan, MarkRemoved, GiveUp, BeginSave, CommitSave,
                AbortSave, Publish, SaveCategory, CreatePet, DeletePet
  <2> QED BY <1>1, <2>1
<1> QED BY <1>1, <1>2, <1>3 DEF Next, vars

LEMMA TypeNext == TypeInv /\ [Next]_vars => TypeInv'
  BY RowsNext, CardsNext, OrdersNext, SlotsNext DEF TypeInv

\* Rows, files and transactions have their types, and every permit of IMAGE_WORKERS is
\* either left or held by one upload that decodes.
THEOREM MediaTypeInvariant == Spec => []MediaTypeOK
  BY TypeInit, TypeNext, TypeParts, PTL DEF Spec

-----------------------------------------------------------------------------
(* Pictures that are linked, or about to be *)

\* A picture the server can deliver, of an upload that has answered.
Served(i) == row[i] = "live" /\ files[i] = Both /\ upload[i] = "told"

\* Transactions keep what they have checked: the row stays locked until they link it.
HeldServed == \A i \in Images : Linked(i) \/ Locked(i) => Served(i)

\* Why the two files of a live row are there.
FilesInv ==
    \A i \in Images :
        /\ upload[i] \in InProgress \cup {"unused"} => ~old[i]
        /\ upload[i] \in {"unused", "decoding", "image", "thumb", "insert"} => row[i] = "none"
        /\ upload[i] = "told" => row[i] # "none"
        /\ upload[i] = "thumb" => "image" \in files[i]
        /\ upload[i] = "insert" => files[i] = Both
        /\ upload[i] = "told" /\ row[i] = "live" => files[i] = Both
        /\ removers[i] # {} => row[i] \in {"deleted", "removed"}

\* Of the picture i, nothing changes.
Same(i) == /\ row'[i] = row[i] /\ files'[i] = files[i] /\ old'[i] = old[i]
           /\ upload'[i] = upload[i] /\ removers'[i] = removers[i]

\* FilesInv of one picture.
FileInv(r, f, o, u, m) ==
    /\ u \in InProgress \cup {"unused"} => ~o
    /\ u \in {"unused", "decoding", "image", "thumb", "insert"} => r = "none"
    /\ u = "told" => r # "none"
    /\ u = "thumb" => "image" \in f
    /\ u = "insert" => f = Both
    /\ u = "told" /\ r = "live" => f = Both
    /\ m # {} => r \in {"deleted", "removed"}

LEMMA FilesInit == Init => FilesInv /\ HeldServed
  BY DEF Init, FilesInv, HeldServed, Linked, Locked, InProgress, NoCard, NoSave, NoLines

\* What a step may do to the picture i: grow it older, claim it, or act for it.
Aged(i) == /\ upload[i] \notin InProgress /\ old'[i] = (upload[i] # "unused")
           /\ UNCHANGED <<row, files, upload, removers>>

Claimed(i) == /\ row[i] \in {"live", "deleted"} /\ row'[i] = "deleted"
              /\ removers'[i] = removers[i] \cup {"image"}
              /\ i \in candidates
              /\ UNCHANGED <<files, old, upload>>

OwnStep(i) ==
    \/ BeginUpload(i) \/ Normalize(i) \/ WriteFile(i) \/ InsertMedia(i) \/ UndoUpload(i)
    \/ CrashUpload(i) \/ DeleteMedia(i) \/ MarkRemoved(i)
    \/ \E file \in Both : Unlink(i, file) \/ RemoveOrphan(i, file)
    \/ \E step \in Both \cup {"row"} : GiveUp(i, step)

LEMMA OtherStep ==
  ASSUME TypeInv, NEW i \in Images, NEW j \in Images, j # i, OwnStep(j) PROVE Same(i)
<1> USE DEF TypeInv, RowsT
<1>1. CASE BeginUpload(j) \/ CrashUpload(j) \/ DeleteMedia(j) \/ MarkRemoved(j)
  BY <1>1 DEF BeginUpload, CrashUpload, DeleteMedia, MarkRemoved, Same
<1>2. CASE Normalize(j) \/ WriteFile(j)
  BY <1>2 DEF Normalize, WriteFile, Same
<1>3. CASE InsertMedia(j)
  BY <1>3 DEF InsertMedia, Same
<1>4. CASE UndoUpload(j)
  BY <1>4 DEF UndoUpload, Same
<1>5. CASE \/ \E file \in Both : Unlink(j, file) \/ RemoveOrphan(j, file)
           \/ \E step \in Both \cup {"row"} : GiveUp(j, step)
  BY <1>5 DEF Unlink, RemoveOrphan, GiveUp, Same
<1> QED BY <1>1, <1>2, <1>3, <1>4, <1>5 DEF OwnStep

LEMMA ImageStep ==
  ASSUME TypeInv, [Next]_vars, NEW i \in Images
  PROVE  Same(i) \/ Aged(i) \/ Claimed(i) \/ OwnStep(i)
<1> USE DEF TypeInv, RowsT
<1>1. CASE UNCHANGED mediaVars
  BY <1>1 DEF mediaVars, Same
<1>2. CASE Day
  BY <1>2 DEF Day, Aged
<1>3. CASE FindCandidates \/ AbortCleanup
  BY <1>3 DEF FindCandidates, AbortCleanup, Same
<1>4. CASE Claim
  BY <1>4 DEF Claim, Same, Claimed
<1>5. ASSUME NEW j \in Images, OwnStep(j) PROVE Same(i) \/ OwnStep(i)
  BY <1>5, OtherStep
<1>6. CASE MediaNext
  BY <1>2, <1>3, <1>4, <1>5, <1>6 DEF MediaNext, UploadStep, OwnStep
<1>7. CASE CatalogNext \/ OrderNext
  BY <1>1, <1>7 DEF CatalogNext, OrderNext, BeginSave, CommitSave, AbortSave, Publish,
                    SaveCategory, CreatePet, DeletePet, BeginOrder, CommitOrder, AbortOrder,
                    DeleteOrder
<1> QED BY <1>1, <1>6, <1>7 DEF Next, vars

LEMMA FilesNext ==
  ASSUME TypeInv, FilesInv, [Next]_vars
  PROVE  FilesInv'
<1> DEFINE Kept(i) == FileInv(row'[i], files'[i], old'[i], upload'[i], removers'[i])
<1> SUFFICES ASSUME NEW i \in Images PROVE Kept(i)
  BY DEF FilesInv, FileInv
<1>1. FileInv(row[i], files[i], old[i], upload[i], removers[i])
  BY DEF FilesInv, FileInv
<1>2. /\ row[i] \in {"none", "live", "deleted", "removed"}
      /\ files[i] \in SUBSET Both
      /\ old[i] \in BOOLEAN
      /\ upload[i] \in UploadSteps
  BY DEF TypeInv, RowsT
<1>3. CASE Same(i)
  BY <1>1, <1>3 DEF Same
<1> HIDE DEF Kept
<1> USE DEF TypeInv, RowsT
<1>4. CASE Aged(i)
  <2>1. upload[i] \in InProgress \cup {"unused"} => ~old'[i]
    BY <1>4 DEF Aged
  <2> QED BY <1>1, <1>4, <2>1 DEF Aged, FileInv, Kept
<1>5. CASE Claimed(i)
  BY <1>1, <1>5 DEF Claimed, FileInv, Kept
<1>6. CASE BeginUpload(i)
  BY <1>1, <1>6 DEF BeginUpload, FileInv, Kept, InProgress, Both
<1>7. CASE Normalize(i)
  BY <1>1, <1>7 DEF Normalize, FileInv, Kept, InProgress, Both
<1>8. CASE WriteFile(i)
  <2>1. UNCHANGED <<row, old, removers>> /\ upload[i] \in Both
    BY <1>8 DEF WriteFile
  <2>2. \/ /\ files'[i] = files[i] \cup {upload[i]}
           /\ upload'[i] = IF upload[i] = "image" THEN "thumb" ELSE "insert"
        \/ upload'[i] = "undo"
    BY <1>8 DEF WriteFile
  <2> QED BY <1>1, <1>2, <2>1, <2>2 DEF FileInv, Kept, InProgress, Both
<1>9. CASE InsertMedia(i)
  <2>1. UNCHANGED <<files, old, removers>> /\ upload[i] = "insert"
    BY <1>9 DEF InsertMedia
  <2>2. \/ row'[i] = "live" /\ upload'[i] \in {"told", "over", "undo"}
        \/ row'[i] = row[i] /\ upload'[i] = "undo"
    BY <1>9 DEF InsertMedia
  <2> QED BY <1>1, <2>1, <2>2 DEF FileInv, Kept, InProgress
<1>10. CASE UndoUpload(i)
  BY <1>1, <1>10 DEF UndoUpload, FileInv, Kept, InProgress, Both
<1>11. CASE CrashUpload(i)
  BY <1>1, <1>11 DEF CrashUpload, FileInv, Kept, InProgress, Both
<1>12. CASE DeleteMedia(i)
  BY <1>1, <1>12 DEF DeleteMedia, FileInv, Kept, InProgress, Known
<1>13. ASSUME NEW file \in Both, Unlink(i, file) PROVE Kept(i)
  <2>1. removers[i] # {} /\ UNCHANGED <<row, old, upload>>
    BY <1>13 DEF Unlink
  <2> QED BY <1>1, <2>1 DEF FileInv, Kept
<1>14. ASSUME NEW file \in Both, RemoveOrphan(i, file) PROVE Kept(i)
  <2>1. row[i] = "none" /\ old[i] /\ UNCHANGED <<row, old, upload, removers>>
    BY <1>14 DEF RemoveOrphan
  <2> QED BY <1>1, <2>1 DEF FileInv, Kept, InProgress
<1>15. CASE MarkRemoved(i)
  BY <1>1, <1>15 DEF MarkRemoved, FileInv, Kept
<1>16. ASSUME NEW step \in Both \cup {"row"}, GiveUp(i, step) PROVE Kept(i)
  BY <1>1, <1>16 DEF GiveUp, FileInv, Kept
<1>17. CASE OwnStep(i)
  BY <1>6, <1>7, <1>8, <1>9, <1>10, <1>11, <1>12, <1>13, <1>14, <1>15, <1>16, <1>17
     DEF OwnStep
<1> QED BY <1>3, <1>4, <1>5, <1>17, ImageStep

\* A step of the media service leaves what is linked or locked as it is.
LEMMA MediaKeepsServed ==
  ASSUME TypeInv, FilesInv, HeldServed, MediaNext
  PROVE  HeldServed'
<1>1. \A i \in Images : /\ Linked(i)' <=> Linked(i)
                        /\ Locked(i)' <=> Locked(i)
  <2>1. UNCHANGED <<card, order, saving, ordering>>
    BY DEF MediaNext, UploadStep, cardVars, orderVars, Day, FindCandidates, Claim, AbortCleanup,
           BeginUpload, Normalize, WriteFile, InsertMedia, UndoUpload, CrashUpload, DeleteMedia,
           Unlink, RemoveOrphan, MarkRemoved, GiveUp
  <2> QED BY <2>1 DEF Linked, Locked
<1>2. ASSUME NEW i \in Images, Linked(i) \/ Locked(i), Served(i)
      PROVE  row'[i] = row[i] /\ files'[i] = files[i] /\ upload'[i] = upload[i]
  <2> USE DEF TypeInv, RowsT
  <2>1. removers[i] = {}
    BY <1>2 DEF FilesInv, Served
  <2>2. CASE Day \/ FindCandidates \/ AbortCleanup
    BY <2>2 DEF Day, FindCandidates, AbortCleanup
  <2>3. CASE Claim
    BY <1>2, <2>3 DEF Claim, Unlinked
  <2>4. ASSUME NEW j \in Images,
               BeginUpload(j) \/ CrashUpload(j) \/ DeleteMedia(j) \/ MarkRemoved(j)
        PROVE  row'[i] = row[i] /\ files'[i] = files[i] /\ upload'[i] = upload[i]
    BY <1>2, <2>1, <2>4 DEF BeginUpload, CrashUpload, DeleteMedia, MarkRemoved, Served, InProgress
  <2>5. ASSUME NEW j \in Images, Normalize(j) \/ WriteFile(j)
        PROVE  row'[i] = row[i] /\ files'[i] = files[i] /\ upload'[i] = upload[i]
    BY <1>2, <2>5 DEF Normalize, WriteFile, Served, Both
  <2>6. ASSUME NEW j \in Images, InsertMedia(j) \/ UndoUpload(j)
        PROVE  row'[i] = row[i] /\ files'[i] = files[i] /\ upload'[i] = upload[i]
    BY <1>2, <2>6 DEF InsertMedia, UndoUpload, Served
  <2>7. ASSUME NEW j \in Images, NEW file \in Both, Unlink(j, file) \/ RemoveOrphan(j, file)
        PROVE  row'[i] = row[i] /\ files'[i] = files[i] /\ upload'[i] = upload[i]
    BY <1>2, <2>1, <2>7 DEF Unlink, RemoveOrphan, Served
  <2>8. ASSUME NEW j \in Images, NEW step \in Both \cup {"row"}, GiveUp(j, step)
        PROVE  row'[i] = row[i] /\ files'[i] = files[i] /\ upload'[i] = upload[i]
    BY <2>8 DEF GiveUp
  <2> QED BY <2>2, <2>3, <2>4, <2>5, <2>6, <2>7, <2>8 DEF MediaNext, UploadStep
<1> QED BY <1>1, <1>2 DEF HeldServed, Served

\* Cards and orders link or lock only what was linked, locked or live before.
LEMMA ShopKeepsServed ==
  ASSUME TypeInv, FilesInv, HeldServed, CatalogNext \/ OrderNext
  PROVE  HeldServed'
<1>1. UNCHANGED mediaVars
  BY DEF CatalogNext, OrderNext, BeginSave, CommitSave, AbortSave, Publish, SaveCategory,
         CreatePet, DeletePet, BeginOrder, CommitOrder, AbortOrder, DeleteOrder
<1> SUFFICES ASSUME NEW i \in Images, Linked(i)' \/ Locked(i)'
             PROVE  Linked(i) \/ Locked(i) \/ Served(i)
  BY <1>1 DEF HeldServed, Served, mediaVars
<1> USE DEF TypeInv, CardsT, OrdersT
<1>2. ASSUME NEW c \in Cards, NEW command \in SaveCommand, BeginSave(c, command)
      PROVE  Linked(i) \/ Locked(i) \/ Served(i)
  <2>1. CASE i \in command.images
    <3>1. Known(i) /\ row[i] = "live"
      BY <1>2, <2>1 DEF BeginSave
    <3> QED BY <3>1 DEF FilesInv, Known, Served
  <2>2. CASE i \notin command.images
    BY <1>2, <2>2 DEF BeginSave, orderVars, Linked, Locked
  <2> QED BY <2>1, <2>2
<1>3. ASSUME NEW c \in Cards, CommitSave(c) PROVE Linked(i) \/ Locked(i) \/ Served(i)
  <2>1. /\ card'[c].images = saving[c].images
        /\ saving'[c].images = {}
        /\ \A d \in Cards \ {c} : card'[d] = card[d] /\ saving'[d] = saving[d]
        /\ UNCHANGED orderVars
    BY <1>3 DEF CommitSave, NoSave
  <2> QED BY <2>1 DEF Linked, Locked, orderVars
<1>4. ASSUME NEW c \in Cards, AbortSave(c) PROVE Linked(i) \/ Locked(i) \/ Served(i)
  <2>1. /\ saving'[c].images = {}
        /\ \A d \in Cards \ {c} : saving'[d] = saving[d]
        /\ UNCHANGED <<card, orderVars>>
    BY <1>4 DEF AbortSave, NoSave
  <2> QED BY <2>1 DEF Linked, Locked, orderVars
<1>5. ASSUME NEW c \in Cards, NEW target \in Publication, Publish(c, target)
      PROVE  Linked(i) \/ Locked(i) \/ Served(i)
  <2>1. card' = [card EXCEPT ![c] = [card[c] EXCEPT !.status = target]]
    BY <1>5 DEF Publish
  <2>2. [card[c] EXCEPT !.status = target].images = card[c].images
    BY DEF Card
  <2>3. \A d \in Cards : card'[d].images = card[d].images
    BY <2>1, <2>2
  <2> QED BY <1>5, <2>3 DEF Publish, Linked, Locked, orderVars
<1>6. ASSUME NEW k \in Categories, SaveCategory(k)
      PROVE  Linked(i) \/ Locked(i) \/ Served(i)
  BY <1>6 DEF SaveCategory, Linked, Locked, orderVars
<1>7. ASSUME NEW p \in Pets, CreatePet(p) PROVE Linked(i) \/ Locked(i) \/ Served(i)
  <2>1. card' = [card EXCEPT ![p] = [card[p] EXCEPT !.status = "PUBLISHED"]]
    BY <1>7 DEF CreatePet
  <2>2. [card[p] EXCEPT !.status = "PUBLISHED"].images = card[p].images
    BY DEF Card
  <2>3. \A d \in Cards : card'[d].images = card[d].images
    BY <2>1, <2>2
  <2> QED BY <1>7, <2>3 DEF CreatePet, Linked, Locked, orderVars
<1>8. ASSUME NEW p \in Pets, DeletePet(p) PROVE Linked(i) \/ Locked(i) \/ Served(i)
  <2>1. /\ card'[p].images = {}
        /\ \A d \in Cards \ {p} : card'[d] = card[d]
        /\ UNCHANGED <<saving, orderVars>>
    BY <1>8 DEF DeletePet, NoCard
  <2> QED BY <2>1 DEF Linked, Locked, orderVars
<1>9. ASSUME NEW o \in Orders, NEW cards \in SUBSET Cards, NEW covers \in SUBSET Images,
             BeginOrder(o, cards, covers)
      PROVE  Linked(i) \/ Locked(i) \/ Served(i)
  <2>1. /\ covers \subseteq UNION {card[c].images : c \in cards}
        /\ ordering' = [ordering EXCEPT ![o] = [cards |-> cards, covers |-> covers]]
        /\ UNCHANGED <<cardVars, order>>
    BY <1>9 DEF BeginOrder
  <2>2. CASE i \in covers
    BY <2>1, <2>2 DEF Linked
  <2>3. CASE i \notin covers
    BY <2>1, <2>3 DEF Linked, Locked, cardVars
  <2> QED BY <2>2, <2>3
<1>10. ASSUME NEW o \in Orders, CommitOrder(o) PROVE Linked(i) \/ Locked(i) \/ Served(i)
  <2>1. /\ order'[o].covers = ordering[o].covers
        /\ ordering'[o].covers = {}
        /\ \A x \in Orders \ {o} : order'[x] = order[x] /\ ordering'[x] = ordering[x]
        /\ UNCHANGED cardVars
    BY <1>10 DEF CommitOrder, NoLines
  <2> QED BY <2>1 DEF Linked, Locked, cardVars
<1>11. ASSUME NEW o \in Orders, AbortOrder(o) \/ DeleteOrder(o)
       PROVE  Linked(i) \/ Locked(i) \/ Served(i)
  <2>1. /\ \A x \in Orders : \/ order'[x].covers = order[x].covers
                             \/ order'[x].covers = {}
        /\ \A x \in Orders : \/ ordering'[x].covers = ordering[x].covers
                             \/ ordering'[x].covers = {}
        /\ UNCHANGED cardVars
    BY <1>11 DEF AbortOrder, DeleteOrder, NoLines
  <2> QED BY <2>1 DEF Linked, Locked, cardVars
<1> QED BY <1>2, <1>3, <1>4, <1>5, <1>6, <1>7, <1>8, <1>9, <1>10, <1>11
        DEF CatalogNext, OrderNext

MediaInv == TypeInv /\ FilesInv /\ HeldServed

LEMMA MediaInvariant == Spec => []MediaInv
<1>1. Init => MediaInv
  BY TypeInit, FilesInit DEF MediaInv
<1>2. MediaInv /\ [Next]_vars => MediaInv'
  <2> SUFFICES ASSUME MediaInv, [Next]_vars PROVE MediaInv'
    OBVIOUS
  <2>1. TypeInv' /\ FilesInv'
    BY TypeNext, FilesNext DEF MediaInv
  <2>2. CASE Next
    BY <2>1, <2>2, MediaKeepsServed, ShopKeepsServed DEF MediaInv, Next
  <2>3. CASE UNCHANGED vars
    BY <2>1, <2>3 DEF MediaInv, HeldServed, Served, Linked, Locked, vars, mediaVars, cardVars,
                      orderVars
  <2> QED BY <2>1, <2>2, <2>3
<1> QED BY <1>1, <1>2, PTL DEF Spec

\* A picture in a gallery or on an order can be delivered, for any number of uploads,
\* deletions, cleanups, edits and orders at a time.
THEOREM LinkedInvariant == Spec => []LinkedIsServed
<1>1. MediaInv => LinkedIsServed
  BY DEF MediaInv, HeldServed, Served, LinkedIsServed
<1> QED BY <1>1, MediaInvariant, PTL

-----------------------------------------------------------------------------
(* Published cards *)

\* What a transaction has checked holds until it commits: the category it shares stays
\* active, and a published card stays one that may be published.
SavesInv ==
    \A c \in Cards : saving[c] # NoSave =>
        /\ saving[c].category # NoCategory => active[saving[c].category]
        /\ card[c].status = "PUBLISHED" =>
              saving[c].images # {} /\ saving[c].category # NoCategory

LEMMA SavesNext ==
  ASSUME TypeInv, SavesInv, PublishedHasImage, [Next]_vars
  PROVE  SavesInv' /\ PublishedHasImage'
<1> USE DEF TypeInv, CardsT
<1>1. CASE UNCHANGED cardVars
  BY <1>1 DEF cardVars, SavesInv, PublishedHasImage
<1>2. ASSUME NEW c \in Cards, NEW command \in SaveCommand, BeginSave(c, command)
      PROVE  SavesInv' /\ PublishedHasImage'
  <2>1. /\ saving' = [saving EXCEPT ![c] = command]
        /\ command.category # NoCategory => active[command.category]
        /\ card[c].status = "PUBLISHED" => command.images # {} /\ command.category # NoCategory
        /\ UNCHANGED <<active, card>>
    BY <1>2 DEF BeginSave
  <2> QED BY <2>1 DEF SavesInv, PublishedHasImage
<1>3. ASSUME NEW c \in Cards, CommitSave(c) PROVE SavesInv' /\ PublishedHasImage'
  <2>1. /\ saving[c] # NoSave
        /\ card'[c].images = saving[c].images
        /\ card'[c].status = "PUBLISHED" => card[c].status = "PUBLISHED"
        /\ saving'[c] = NoSave
        /\ \A d \in Cards \ {c} : card'[d] = card[d] /\ saving'[d] = saving[d]
        /\ UNCHANGED active
    BY <1>3 DEF CommitSave
  <2> QED BY <2>1 DEF SavesInv, PublishedHasImage
<1>4. ASSUME NEW c \in Cards, AbortSave(c) PROVE SavesInv' /\ PublishedHasImage'
  BY <1>4 DEF AbortSave, SavesInv, PublishedHasImage
<1>5. ASSUME NEW c \in Cards, NEW target \in Publication, Publish(c, target)
      PROVE  SavesInv' /\ PublishedHasImage'
  <2>1. card' = [card EXCEPT ![c] = [card[c] EXCEPT !.status = target]]
    BY <1>5 DEF Publish
  <2>2. card'[c].images = card[c].images /\ card'[c].status = target
    BY <2>1 DEF Card
  <2>3. saving[c] = NoSave /\ UNCHANGED <<active, saving>>
    BY <1>5 DEF Publish, CardFree, CardLocked
  <2>4. target = "PUBLISHED" /\ c \in Products => card[c].images # {}
    BY <1>5 DEF Publish, Publishable
  <2>5. \A d \in Cards \ {c} : card'[d] = card[d]
    BY <2>1
  <2> QED BY <2>2, <2>3, <2>4, <2>5 DEF SavesInv, PublishedHasImage
<1>6. ASSUME NEW k \in Categories, SaveCategory(k) PROVE SavesInv' /\ PublishedHasImage'
  <2>1. /\ \A c \in Cards : saving[c].category # k
        /\ \A j \in Categories \ {k} : active'[j] = active[j]
        /\ UNCHANGED <<card, saving>>
    BY <1>6 DEF SaveCategory, CategoryShared
  <2>2. \A c \in Cards : saving[c] # NoSave /\ saving[c].category # NoCategory
                           => saving[c].category \in Categories \ {k}
    BY <2>1 DEF SaveCommand
  <2> QED BY <2>1, <2>2 DEF SavesInv, PublishedHasImage
<1>7. ASSUME NEW p \in Pets, CreatePet(p) \/ DeletePet(p)
      PROVE  SavesInv' /\ PublishedHasImage'
  <2>1. /\ saving[p] = NoSave
        /\ \A d \in Cards \ {p} : card'[d] = card[d]
        /\ UNCHANGED <<active, saving>>
    BY <1>7 DEF CreatePet, DeletePet, CardLocked
  <2> QED BY <2>1 DEF SavesInv, PublishedHasImage
<1>8. CASE CatalogNext
  BY <1>2, <1>3, <1>4, <1>5, <1>6, <1>7, <1>8 DEF CatalogNext
<1>9. CASE MediaNext \/ OrderNext
  <2>1. UNCHANGED cardVars
    BY <1>9 DEF MediaNext, UploadStep, OrderNext, Day, FindCandidates, Claim, AbortCleanup,
                BeginUpload, Normalize, WriteFile, InsertMedia, UndoUpload, CrashUpload,
                DeleteMedia, Unlink, RemoveOrphan, MarkRemoved, GiveUp, BeginOrder, CommitOrder,
                AbortOrder, DeleteOrder
  <2> QED BY <1>1, <2>1
<1> QED BY <1>1, <1>8, <1>9 DEF Next, vars

LEMMA SavesInvariant == Spec => [](TypeInv /\ SavesInv /\ PublishedHasImage)
<1>1. Init => TypeInv /\ SavesInv /\ PublishedHasImage
  BY TypeInit DEF Init, SavesInv, PublishedHasImage, NoCard
<1>2. TypeInv /\ SavesInv /\ PublishedHasImage /\ [Next]_vars
        => (TypeInv /\ SavesInv /\ PublishedHasImage)'
  BY TypeNext, SavesNext
<1> QED BY <1>1, <1>2, PTL DEF Spec

\* A product is published with a picture, however saving and publishing interleave.
THEOREM PublishedInvariant == Spec => []PublishedHasImage
  BY SavesInvariant, PTL

\* Of the card c: unchanged, not published, new, or under an active category.
Orderly(c) == \/ card'[c] = card[c]
              \/ card'[c].status # "PUBLISHED"
              \/ card[c] = NoCard
              \/ card'[c].category # NoCategory /\ active'[card'[c].category]

LEMMA CategoryStep ==
  ASSUME TypeInv, SavesInv, [Next]_vars, NEW c \in Cards
  PROVE  Orderly(c)
<1> USE DEF TypeInv, CardsT
<1>1. CASE card' = card
  BY <1>1 DEF Orderly
<1>2. ASSUME NEW d \in Cards, NEW target \in Publication, Publish(d, target)
      PROVE  Orderly(c)
  <2>1. card' = [card EXCEPT ![d] = [card[d] EXCEPT !.status = target]]
    BY <1>2 DEF Publish
  <2>2. CASE c # d
    BY <2>1, <2>2 DEF Orderly
  <2>3. CASE c = d
    <3>1. card'[c].status = target /\ card'[c].category = card[c].category
      BY <2>1, <2>3 DEF Card
    <3>2. target = "PUBLISHED" => card[c].category # NoCategory /\ active[card[c].category]
      BY <1>2, <2>3 DEF Publish
    <3>3. UNCHANGED active
      BY <1>2 DEF Publish
    <3> QED BY <3>1, <3>2, <3>3 DEF Orderly
  <2> QED BY <2>2, <2>3
<1>3. ASSUME NEW d \in Cards, CommitSave(d) PROVE Orderly(c)
  <2>1. CASE c # d
    BY <1>3, <2>1 DEF CommitSave, Orderly
  <2>2. CASE c = d
    <3>1. /\ saving[c] # NoSave /\ UNCHANGED active
          /\ card'[c].category = saving[c].category
          /\ card'[c].status = "PUBLISHED" => card[c].status = "PUBLISHED"
      BY <1>3, <2>2 DEF CommitSave
    <3> QED BY <3>1 DEF SavesInv, Orderly
  <2> QED BY <2>1, <2>2
<1>4. ASSUME NEW p \in Pets, CreatePet(p) \/ DeletePet(p) PROVE Orderly(c)
  <2>1. CASE c # p
    BY <1>4, <2>1 DEF CreatePet, DeletePet, Orderly
  <2>2. CASE c = p /\ CreatePet(p)
    BY <2>2 DEF CreatePet, Orderly
  <2>3. CASE c = p /\ DeletePet(p)
    <3>1. card'[c] = NoCard
      BY <2>3 DEF DeletePet
    <3> QED BY <3>1 DEF NoCard, Orderly
  <2> QED BY <1>4, <2>1, <2>2, <2>3
<1>5. CASE CatalogNext
  BY <1>1, <1>2, <1>3, <1>4, <1>5 DEF CatalogNext, BeginSave, AbortSave, SaveCategory
<1>6. CASE MediaNext \/ OrderNext
  <2>1. UNCHANGED cardVars
    BY <1>6 DEF MediaNext, UploadStep, OrderNext, Day, FindCandidates, Claim, AbortCleanup,
                BeginUpload, Normalize, WriteFile, InsertMedia, UndoUpload, CrashUpload,
                DeleteMedia, Unlink, RemoveOrphan, MarkRemoved, GiveUp, BeginOrder, CommitOrder,
                AbortOrder, DeleteOrder
  <2> QED BY <1>1, <2>1 DEF cardVars
<1> QED BY <1>1, <1>5, <1>6 DEF Next, vars, cardVars

\* Whatever is saved and published at the same time as categories are switched off, a
\* card changes to a published state under an active category only.
THEOREM CategoryProperty == Spec => PublishedUnderActive
<1>1. TypeInv /\ SavesInv /\ [Next]_vars
        => [\A c \in Cards : \/ card'[c] = card[c]
                             \/ card'[c].status # "PUBLISHED"
                             \/ card[c] = NoCard
                             \/ /\ card'[c].category # NoCategory
                                /\ active'[card'[c].category]]_vars
  BY CategoryStep DEF Orderly
<1> QED BY <1>1, SavesInvariant, PTL DEF Spec, PublishedUnderActive

-----------------------------------------------------------------------------
(* Nothing leaks *)

Settled(i) == upload[i] \in {"told", "over"}

\* How far a removal has come: whoever is to mark the row has removed both files, and
\* only uploads that have ended have rows that are found or deleted.
RemovalInv ==
    \A i \in Images :
        /\ row[i] \in {"deleted", "removed"} \/ i \in candidates => Settled(i)
        /\ "thumb" \in removers[i] => "image" \notin files[i]
        /\ "row" \in removers[i] \/ row[i] = "removed" => files[i] = {}

LEMMA SettledStep ==
  ASSUME TypeInv, [Next]_vars, NEW i \in Images, Settled(i)
  PROVE  /\ upload'[i] = upload[i]
         /\ row'[i] = "live" => row[i] = "live"
         /\ files'[i] \subseteq files[i]
         /\ old[i] => old'[i]
<1> USE DEF TypeInv, RowsT, Settled
<1>1. CASE Same(i) \/ Claimed(i)
  BY <1>1 DEF Same, Claimed
<1>2. CASE Aged(i)
  BY <1>2 DEF Aged
<1>3. CASE OwnStep(i)
  <2>1. ~(BeginUpload(i) \/ Normalize(i) \/ WriteFile(i) \/ InsertMedia(i) \/ UndoUpload(i)
            \/ CrashUpload(i))
    BY DEF BeginUpload, Normalize, WriteFile, InsertMedia, UndoUpload, CrashUpload, Both,
           InProgress
  <2>2. CASE DeleteMedia(i) \/ MarkRemoved(i)
    BY <2>2 DEF DeleteMedia, MarkRemoved
  <2>3. CASE \/ \E file \in Both : Unlink(i, file) \/ RemoveOrphan(i, file)
             \/ \E step \in Both \cup {"row"} : GiveUp(i, step)
    BY <2>3 DEF Unlink, RemoveOrphan, GiveUp
  <2> QED BY <1>3, <2>1, <2>2, <2>3 DEF OwnStep
<1> QED BY <1>1, <1>2, <1>3, ImageStep

\* Rows are deleted, and candidates found, of uploads that have ended.
LEMMA OnlySettled ==
  ASSUME TypeInv, FilesInv, RemovalInv, [Next]_vars, NEW i \in Images,
         row'[i] \in {"deleted", "removed"} \/ i \in candidates'
  PROVE  Settled(i)
<1> USE DEF TypeInv, RowsT
<1>1. old[i] => Settled(i)
  BY DEF FilesInv, Settled, UploadSteps, InProgress
<1>2. row[i] \in {"deleted", "removed"} \/ i \in candidates => Settled(i)
  BY DEF RemovalInv
<1>3. CASE i \in candidates'
  <2>1. CASE FindCandidates
    BY <1>1, <1>2, <1>3, <2>1 DEF FindCandidates, Abandonable
  <2>2. CASE ~FindCandidates
    <3>1. candidates' \subseteq candidates
      BY <2>2 DEF Next, vars, mediaVars, MediaNext, UploadStep, CatalogNext, OrderNext, Day,
                  Claim, AbortCleanup, BeginUpload, Normalize, WriteFile, InsertMedia,
                  UndoUpload, CrashUpload, DeleteMedia, Unlink, RemoveOrphan, MarkRemoved,
                  GiveUp, BeginSave, CommitSave, AbortSave, Publish, SaveCategory, CreatePet,
                  DeletePet, BeginOrder, CommitOrder, AbortOrder, DeleteOrder
    <3> QED BY <1>2, <1>3, <3>1
  <2> QED BY <2>1, <2>2
<1>4. CASE row'[i] \in {"deleted", "removed"}
  <2>1. CASE Same(i) \/ Aged(i)
    BY <1>2, <1>4, <2>1 DEF Same, Aged
  <2>2. CASE Claimed(i)
    BY <1>2, <2>2 DEF Claimed
  <2>3. CASE OwnStep(i)
    <3>1. row[i] \in {"deleted", "removed"} \/ DeleteMedia(i)
      BY <1>4, <2>3 DEF OwnStep, BeginUpload, Normalize, WriteFile, InsertMedia, UndoUpload,
                        CrashUpload, MarkRemoved, Unlink, RemoveOrphan, GiveUp
    <3> QED BY <1>2, <3>1 DEF DeleteMedia, Known, Settled
  <2> QED BY <2>1, <2>2, <2>3, ImageStep
<1> QED BY <1>3, <1>4

LEMMA RemovalNext ==
  ASSUME TypeInv, FilesInv, RemovalInv, [Next]_vars
  PROVE  RemovalInv'
<1> SUFFICES ASSUME NEW i \in Images
             PROVE  /\ row'[i] \in {"deleted", "removed"} \/ i \in candidates' => Settled(i)'
                    /\ "thumb" \in removers'[i] => "image" \notin files'[i]
                    /\ "row" \in removers'[i] \/ row'[i] = "removed" => files'[i] = {}
  BY DEF RemovalInv
<1> USE DEF TypeInv, RowsT
<1>1. row'[i] \in {"deleted", "removed"} \/ i \in candidates' => Settled(i)'
  BY OnlySettled, SettledStep DEF Settled
<1>2. CASE ~Settled(i)
  <2>1. removers[i] = {} /\ row[i] \notin {"deleted", "removed"} /\ i \notin candidates
    BY <1>2 DEF RemovalInv, FilesInv
  <2>2. row'[i] \notin {"deleted", "removed"}
    BY <1>2, OnlySettled
  <2>3. FilesInv'
    BY FilesNext
  <2>4. removers'[i] = {}
    BY <2>2, <2>3 DEF FilesInv
  <2> QED BY <1>1, <2>2, <2>4
<1>3. CASE Settled(i)
  <2>1. /\ files'[i] \subseteq files[i]
        /\ "thumb" \in removers[i] => "image" \notin files[i]
        /\ "row" \in removers[i] \/ row[i] = "removed" => files[i] = {}
    BY <1>3, SettledStep DEF RemovalInv
  <2>2. "thumb" \in removers'[i] => "thumb" \in removers[i] \/ Unlink(i, "image")
    <3>1. CASE Same(i) \/ Aged(i) \/ Claimed(i)
      BY <3>1 DEF Same, Aged, Claimed
    <3>2. CASE OwnStep(i)
      BY <3>2 DEF OwnStep, BeginUpload, Normalize, WriteFile, InsertMedia, UndoUpload, CrashUpload,
                  DeleteMedia, MarkRemoved, Unlink, RemoveOrphan, GiveUp, Both
    <3> QED BY <3>1, <3>2, ImageStep
  <2>3. "row" \in removers'[i] => "row" \in removers[i] \/ Unlink(i, "thumb")
    <3>1. CASE Same(i) \/ Aged(i) \/ Claimed(i)
      BY <3>1 DEF Same, Aged, Claimed
    <3>2. CASE OwnStep(i)
      BY <3>2 DEF OwnStep, BeginUpload, Normalize, WriteFile, InsertMedia, UndoUpload, CrashUpload,
                  DeleteMedia, MarkRemoved, Unlink, RemoveOrphan, GiveUp, Both
    <3> QED BY <3>1, <3>2, ImageStep
  <2>4. row'[i] = "removed" => row[i] = "removed" \/ "row" \in removers[i]
    <3>1. CASE Same(i) \/ Aged(i) \/ Claimed(i)
      BY <3>1 DEF Same, Aged, Claimed
    <3>2. CASE OwnStep(i)
      BY <3>2 DEF OwnStep, BeginUpload, Normalize, WriteFile, InsertMedia, UndoUpload, CrashUpload,
                  DeleteMedia, MarkRemoved, Unlink, RemoveOrphan, GiveUp
    <3> QED BY <3>1, <3>2, ImageStep
  <2>5. Unlink(i, "image") => "image" \notin files'[i]
    BY DEF Unlink
  <2>6. Unlink(i, "thumb") => files'[i] = {}
    BY <2>1 DEF Unlink, Both
  <2> QED BY <1>1, <2>1, <2>2, <2>3, <2>4, <2>5, <2>6
<1> QED BY <1>2, <1>3

RemovalsInv == MediaInv /\ RemovalInv

LEMMA RemovalsInvariant == Spec => []RemovalsInv
<1>1. Init => RemovalInv
  BY DEF Init, RemovalInv
<1>2. MediaInv /\ RemovalInv /\ [Next]_vars => RemovalInv'
  BY RemovalNext DEF MediaInv
<1> QED BY <1>1, <1>2, MediaInvariant, PTL DEF Spec, RemovalsInv

\* The worker has found a picture; a call of remove_files is at this step.
Found == candidates # {}
At(i, step) == step \in removers[i]

\* Fairness with the guards of the actions in place of ENABLED.  A day passes once an
\* upload has ended; the worker comes back as long as there is something to find, and is
\* not always stopped before it claims what it found; a removal that is tried again and
\* again succeeds some day.
DayPasses(i) == []<>~(Settled(i) /\ ~old[i]) \/ []<><<Day>>_vars
SomethingToFind == candidates = {} /\ \E j \in Images : Abandonable(j)
WorkerFinds == []<>~SomethingToFind \/ []<><<FindCandidates>>_vars
WorkerClaims == <>[]~Found \/ []<><<Claim>>_vars
Unlinks(i, file) == <>[]~At(i, file) \/ []<><<Unlink(i, file)>>_vars
Marks(i) == <>[]~At(i, "row") \/ []<><<MarkRemoved(i)>>_vars
Orphan(i, file) == file \in files[i] /\ old[i] /\ row[i] = "none"
OrphanGoes(i, file) == []<>~Orphan(i, file) \/ []<><<RemoveOrphan(i, file)>>_vars

WorkerFair(i) ==
    /\ DayPasses(i) /\ WorkerFinds /\ WorkerClaims
    /\ Unlinks(i, "image") /\ Unlinks(i, "thumb") /\ Marks(i)
    /\ OrphanGoes(i, "image") /\ OrphanGoes(i, "thumb")

Gone(i) == files[i] = {} /\ row[i] \in {"none", "removed"}

\* Cleanup will find the row, or has deleted it.
Waste(i) == \/ row[i] = "deleted"
            \/ row[i] = "live" /\ old[i] /\ upload[i] = "over"

\* The worker has found the picture, if it has found anything.
Listed(i) == candidates = {} \/ i \in candidates

\* A row goes one way, and only uploads insert it.
LEMMA RowStep ==
  ASSUME TypeInv, [Next]_vars, NEW i \in Images, Settled(i)
  PROVE  /\ row[i] = "none" => row'[i] = "none"
         /\ row[i] = "live" => row'[i] \in {"live", "deleted"}
         /\ row[i] = "deleted" => row'[i] \in {"deleted", "removed"}
<1> USE DEF TypeInv, RowsT
<1>1. CASE Same(i) \/ Aged(i) \/ Claimed(i)
  BY <1>1 DEF Same, Aged, Claimed
<1>2. CASE OwnStep(i)
  BY <1>2 DEF OwnStep, BeginUpload, Normalize, WriteFile, InsertMedia, UndoUpload, CrashUpload,
              DeleteMedia, MarkRemoved, Unlink, RemoveOrphan, GiveUp, Settled
<1> QED BY <1>1, <1>2, ImageStep

LEMMA WasteStays ==
  ASSUME RemovalsInv, RemovalsInv', [Next]_vars, NEW i \in Images, Waste(i)
  PROVE  Waste(i)' \/ Gone(i)'
<1>1. Settled(i)
  BY DEF RemovalsInv, RemovalInv, Waste, Settled
<1>2. row'[i] = "removed" => files'[i] = {}
  BY DEF RemovalsInv, RemovalInv
<1>3. /\ upload'[i] = upload[i]
      /\ old[i] => old'[i]
      /\ row[i] = "live" => row'[i] \in {"live", "deleted"}
      /\ row[i] = "deleted" => row'[i] \in {"deleted", "removed"}
  BY <1>1, RowStep, SettledStep DEF RemovalsInv, MediaInv
<1> QED BY <1>2, <1>3 DEF Waste, Gone

\* Nobody links to waste or locks it, so cleanup finds it and claims it.
LEMMA WasteIsFree ==
  ASSUME RemovalsInv, NEW i \in Images, Waste(i)
  PROVE  /\ ~Linked(i) /\ ~Locked(i)
         /\ Abandonable(i)
  BY DEF RemovalsInv, MediaInv, HeldServed, Served, Waste, Abandonable

LEMMA WasteListed ==
  ASSUME RemovalsInv, [Next]_vars, NEW i \in Images, Waste(i), Listed(i)
  PROVE  Listed(i)'
<1>1. CASE FindCandidates
  BY <1>1, WasteIsFree DEF FindCandidates, Listed
<1>2. CASE Claim \/ AbortCleanup
  BY <1>2 DEF Claim, AbortCleanup, Listed
<1>3. CASE UNCHANGED candidates
  BY <1>3 DEF Listed
<1> QED BY <1>1, <1>2, <1>3
        DEF Next, vars, mediaVars, MediaNext, UploadStep, CatalogNext, OrderNext, Day,
            BeginUpload, Normalize, WriteFile, InsertMedia, UndoUpload, CrashUpload,
            DeleteMedia, Unlink, RemoveOrphan, MarkRemoved, GiveUp, BeginSave, CommitSave,
            AbortSave, Publish, SaveCategory, CreatePet, DeletePet, BeginOrder, CommitOrder,
            AbortOrder, DeleteOrder

LEMMA WasteClaimed ==
  ASSUME RemovalsInv, NEW i \in Images, Waste(i), Listed(i), Claim
  PROVE  "image" \in removers'[i]
<1>1. i \in candidates /\ row[i] \in {"live", "deleted"}
  BY DEF Claim, Listed, Waste
<1> QED BY <1>1, WasteIsFree DEF Claim, Unlinked

LEMMA RemovalSteps ==
  ASSUME RemovalsInv, NEW i \in Images
  PROVE  /\ Unlink(i, "image") => "thumb" \in removers'[i]
         /\ Unlink(i, "thumb") => "row" \in removers'[i]
         /\ Waste(i) /\ MarkRemoved(i) => row'[i] = "removed"
<1> USE DEF RemovalsInv, MediaInv, TypeInv, RowsT
<1>1. MarkRemoved(i) => row[i] \in {"deleted", "removed"}
  BY DEF MarkRemoved, FilesInv
<1> QED BY <1>1 DEF Unlink, MarkRemoved, Waste

\* Waste is claimed again and again until a removal gets through to the end.
LEMMA WasteGoes ==
  ASSUME []RemovalsInv, [][Next]_vars, NEW i \in Images
  PROVE  WorkerFair(i) => (Waste(i) ~> Gone(i))
<1>1. RemovalsInv /\ RemovalsInv' /\ [Next]_vars /\ Waste(i) => Waste(i)' \/ Gone(i)'
  BY WasteStays
<1>2. RemovalsInv /\ [Next]_vars /\ Waste(i) /\ Listed(i) => Listed(i)'
  BY WasteListed
<1>3. <<Claim>>_vars => Listed(i)'
  BY DEF Claim, Listed
<1>4. RemovalsInv /\ Waste(i) /\ Listed(i) /\ <<Claim>>_vars => At(i, "image")'
  BY WasteClaimed DEF At
<1>5. RemovalsInv /\ Waste(i) /\ ~Found => SomethingToFind
  BY WasteIsFree DEF Found, SomethingToFind
<1>6. RemovalsInv /\ Waste(i) /\ <<FindCandidates>>_vars => Found'
  BY WasteIsFree DEF FindCandidates, Found
<1>7. RemovalsInv /\ <<Unlink(i, "image")>>_vars => At(i, "thumb")'
  BY RemovalSteps DEF At
<1>8. RemovalsInv /\ <<Unlink(i, "thumb")>>_vars => At(i, "row")'
  BY RemovalSteps DEF At
<1>9. RemovalsInv /\ RemovalsInv' /\ Waste(i) /\ <<MarkRemoved(i)>>_vars => Gone(i)'
  <2> SUFFICES ASSUME RemovalsInv, RemovalsInv', Waste(i), MarkRemoved(i) PROVE Gone(i)'
    OBVIOUS
  <2>1. row'[i] = "removed"
    BY RemovalSteps
  <2> QED BY <2>1 DEF RemovalsInv, RemovalInv, Gone
<1> QED BY <1>1, <1>2, <1>3, <1>4, <1>5, <1>6, <1>7, <1>8, <1>9, PTL
        DEF WorkerFair, WorkerFinds, WorkerClaims, Unlinks, Marks

\* An upload that failed left a row, or files only; a day later they are waste or orphans.
Lost(i) == upload[i] = "over" /\ row[i] = "live" /\ ~old[i]
Stray(i) == upload[i] = "over" /\ row[i] = "none"
OldStray(i) == Stray(i) /\ old[i]

LEMMA LostStep ==
  ASSUME RemovalsInv, [Next]_vars, NEW i \in Images, Lost(i)
  PROVE  Lost(i)' \/ Waste(i)'
<1>1. Settled(i)
  BY DEF Lost, Settled
<1>2. upload'[i] = upload[i] /\ row'[i] \in {"live", "deleted"}
  BY <1>1, RowStep, SettledStep DEF RemovalsInv, MediaInv, Lost
<1> QED BY <1>2 DEF Lost, Waste

LEMMA StrayStep ==
  ASSUME RemovalsInv, [Next]_vars, NEW i \in Images, Stray(i)
  PROVE  /\ Stray(i)'
         /\ OldStray(i) => OldStray(i)'
         /\ files'[i] \subseteq files[i]
<1>1. Settled(i)
  BY DEF Stray, Settled
<1> QED BY <1>1, RowStep, SettledStep DEF RemovalsInv, MediaInv, Stray, OldStray

LEMMA DayStep ==
  ASSUME RemovalsInv, NEW i \in Images, Day
  PROVE  /\ Lost(i) => Waste(i)'
         /\ Stray(i) => OldStray(i)'
  BY DEF Day, Lost, Waste, Stray, OldStray, RemovalsInv, MediaInv, TypeInv, RowsT

Has(i, file) == file \in files[i]

LEMMA LostGoes ==
  ASSUME []RemovalsInv, [][Next]_vars, NEW i \in Images
  PROVE  WorkerFair(i) => (Lost(i) ~> Gone(i))
<1>1. WorkerFair(i) => (Waste(i) ~> Gone(i))
  BY WasteGoes
<1>2. RemovalsInv /\ [Next]_vars /\ Lost(i) => Lost(i)' \/ Waste(i)'
  BY LostStep
<1>3. RemovalsInv /\ Lost(i) /\ <<Day>>_vars => Waste(i)'
  BY DayStep
<1>4. Lost(i) => Settled(i) /\ ~old[i]
  BY DEF Lost, Settled
<1> QED BY <1>1, <1>2, <1>3, <1>4, PTL DEF WorkerFair, DayPasses

\* One file of a stray upload goes, and does not come back.
Sheds(i, file) == OldStray(i) => <>[](OldStray(i) /\ ~Has(i, file))

LEMMA FileGoes ==
  ASSUME []RemovalsInv, [][Next]_vars, NEW i \in Images, NEW file \in Both
  PROVE  OrphanGoes(i, file) => Sheds(i, file)
<1>1. RemovalsInv /\ [Next]_vars /\ OldStray(i) => OldStray(i)'
  BY StrayStep DEF OldStray
<1>2. RemovalsInv /\ [Next]_vars /\ OldStray(i) /\ ~Has(i, file) => ~Has(i, file)'
  BY StrayStep DEF OldStray, Has
<1>3. OldStray(i) /\ Has(i, file) => Orphan(i, file)
  BY DEF OldStray, Stray, Has, Orphan
<1>4. RemovalsInv /\ <<RemoveOrphan(i, file)>>_vars => ~Has(i, file)'
  BY DEF RemoveOrphan, Has, RemovalsInv, MediaInv, TypeInv, RowsT
<1> QED BY <1>1, <1>2, <1>3, <1>4, PTL DEF OrphanGoes, Sheds

LEMMA StrayGoes ==
  ASSUME []RemovalsInv, [][Next]_vars, NEW i \in Images
  PROVE  WorkerFair(i) => (Stray(i) ~> Gone(i))
<1>1. RemovalsInv /\ [Next]_vars /\ Stray(i) => Stray(i)'
  BY StrayStep
<1>2. RemovalsInv /\ Stray(i) /\ <<Day>>_vars => OldStray(i)'
  BY DayStep
<1>3. Stray(i) /\ ~OldStray(i) => Settled(i) /\ ~old[i]
  BY DEF Stray, OldStray, Settled
<1>4. OrphanGoes(i, "image") => Sheds(i, "image")
  <2>1. "image" \in Both
    BY DEF Both
  <2> QED BY <2>1, FileGoes
<1>5. OrphanGoes(i, "thumb") => Sheds(i, "thumb")
  <2>1. "thumb" \in Both
    BY DEF Both
  <2> QED BY <2>1, FileGoes
<1>6. RemovalsInv /\ OldStray(i) /\ ~Has(i, "image") /\ ~Has(i, "thumb") => Gone(i)
  BY DEF RemovalsInv, MediaInv, TypeInv, RowsT, Both, OldStray, Stray, Has, Gone
<1>7. DayPasses(i) => (Stray(i) => <>OldStray(i))
  BY <1>1, <1>2, <1>3, PTL DEF DayPasses
<1>8. OrphanGoes(i, "image") /\ OrphanGoes(i, "thumb") => (OldStray(i) => <>Gone(i))
  BY <1>4, <1>5, <1>6, PTL DEF Sheds
<1> QED BY <1>7, <1>8, PTL DEF WorkerFair, DayPasses, OrphanGoes

LEMMA LeftoverGoes ==
  ASSUME []RemovalsInv, [][Next]_vars, NEW i \in Images
  PROVE  WorkerFair(i) => (Leftover(i) ~> Gone(i))
<1>1. RemovalsInv /\ Leftover(i) => Waste(i) \/ Lost(i) \/ Stray(i) \/ Gone(i)
  BY DEF RemovalsInv, MediaInv, TypeInv, RowsT, RemovalInv, Leftover, Waste, Lost, Stray, Gone
<1>2. WorkerFair(i) => (Waste(i) ~> Gone(i))
  BY WasteGoes
<1>3. WorkerFair(i) => (Lost(i) ~> Gone(i))
  BY LostGoes
<1>4. WorkerFair(i) => (Stray(i) ~> Gone(i))
  BY StrayGoes
<1> QED BY <1>1, <1>2, <1>3, <1>4, PTL

\* What failed, lost and deleted uploads leave behind is removed, whatever links, edits
\* and crashes come between, for any number of images: rows by a removal that gets
\* through, files without a row a day later (cleanup, cleanup_orphan_files).
THEOREM LeftoversGo == Spec /\ (\A i \in Images : WorkerFair(i)) => NothingLeaks
<1>1. Spec => []RemovalsInv /\ [][Next]_vars
  BY RemovalsInvariant DEF Spec
<1>2. ASSUME []RemovalsInv, [][Next]_vars, \A i \in Images : WorkerFair(i)
      PROVE  NothingLeaks
  BY <1>2, LeftoverGoes DEF NothingLeaks, Gone
<1> QED BY <1>1, <1>2

=============================================================================
