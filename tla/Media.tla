--------------------------------- MODULE Media ---------------------------------
(***************************************************************************)
(* Images: their files, their rows, and what links to them (MediaService,  *)
(* the galleries of CatalogService, the covers of CommerceOrderService).   *)
(* An upload writes two files and then a row; a deletion marks the row and *)
(* then removes the files; a worker repeats removals and collects what     *)
(* nobody came to use.  A gallery or an order may link to an image         *)
(* meanwhile.  Transactions that lock rows take a step to lock and check,  *)
(* and a step to commit; those that only need one row take one step.       *)
(***************************************************************************)
EXTENDS Naturals, FiniteSets

CONSTANTS
    Images,         \* the UUIDs uploads choose, each once
    Products, Pets, \* cards of the catalogue
    Categories,
    NoCategory,
    Idle,           \* no command is being saved
    Orders,
    ImageWorkers    \* IMAGE_WORKERS: images decoded at the same time

Cards == Products \cup Pets

ASSUME MediaAssumption ==
    /\ Products \cap Pets = {}
    /\ NoCategory \notin Categories
    /\ Idle \notin Categories \cup {NoCategory}
    /\ ImageWorkers \in Nat \ {0}

VARIABLES
    row,            \* media: "live", deleted, or deleted and files_removed
    files,          \* what is in the media directory for each UUID
    old,            \* row and files are older than 24 hours
    upload,         \* how far the upload of each UUID is
    slots,          \* permits left in IMAGE_WORKERS
    removers,       \* the calls of remove_files at work, by their next step
    candidates,     \* rows cleanup has found, and not yet locked
    active,         \* catalog_categories.active
    card,           \* products and pets, with catalog_images
    saving,         \* the open transaction of save, per card it has locked
    order,          \* store_orders with order_lines: the cards and their covers
    ordering        \* the open transaction of create, per order

mediaVars == <<row, files, old, upload, slots, removers, candidates>>
cardVars == <<active, card, saving>>
orderVars == <<order, ordering>>
vars == <<mediaVars, cardVars, orderVars>>

-----------------------------------------------------------------------------
Both == {"image", "thumb"}
UploadSteps == {"unused", "decoding", "image", "thumb", "insert", "undo", "told", "over"}
InProgress == {"decoding", "image", "thumb", "insert", "undo"}
Publication == {"DRAFT", "PUBLISHED", "ARCHIVED"}

Card == [status : Publication \cup {"absent"}, images : SUBSET Images,
         category : Categories \cup {NoCategory}]
NoCard == [status |-> "absent", images |-> {}, category |-> NoCategory]

\* An order that does not exist, or a create that does not run, has no cards.
Snapshot == [cards : SUBSET Cards, covers : SUBSET Images]
NoLines == [cards |-> {}, covers |-> {}]

SaveCommand == [images : SUBSET Images, category : Categories \cup {NoCategory}]
NoSave == [images |-> {}, category |-> Idle]

Init ==
    /\ row = [i \in Images |-> "none"]
    /\ files = [i \in Images |-> {}]
    /\ old = [i \in Images |-> FALSE]
    /\ upload = [i \in Images |-> "unused"]
    /\ slots = ImageWorkers
    /\ removers = [i \in Images |-> {}]
    /\ candidates = {}
    /\ active = [k \in Categories |-> TRUE]
    /\ card = [c \in Cards |-> NoCard]
    /\ saving = [c \in Cards |-> NoSave]
    /\ order = [o \in Orders |-> NoLines]
    /\ ordering = [o \in Orders |-> NoLines]

\* Clients can name an image only once its upload has answered.
Known(i) == upload[i] = "told"

\* The two EXISTS of delete and of cleanup.
Linked(i) == \/ \E c \in Cards : i \in card[c].images
             \/ \E o \in Orders : i \in order[o].covers

\* FOR UPDATE locks of media rows that outlive a step: lock_media, lock_cover.
Locked(i) == \/ \E c \in Cards : i \in saving[c].images
             \/ \E o \in Orders : i \in ordering[o].covers

CardLocked(c) == \/ saving[c] # NoSave
                 \/ \E o \in Orders : c \in ordering[o].cards

\* Mutant: the category is read without FOR SHARE.
CategoryRead(k) == FALSE

\* share_category
CategoryShared(k) == \E c \in Cards : saving[c].category = k

-----------------------------------------------------------------------------
(* MediaService.upload *)

BeginUpload(i) ==
    /\ upload[i] = "unused"
    /\ slots > 0                        \* otherwise the upload is refused
    /\ slots' = slots - 1
    /\ upload' = [upload EXCEPT ![i] = "decoding"]
    /\ UNCHANGED <<row, files, old, removers, candidates, cardVars, orderVars>>

\* Mutant: the permit is given back for good images only.
ReleasedOnSuccess(good) == IF good THEN slots + 1 ELSE slots

\* finally: IMAGE_WORKERS.release()
Released(good) == slots + 1

\* The image is decoded and turned, or found to be none, too large or animated.
Normalize(i) ==
    /\ upload[i] = "decoding"
    /\ \E good \in BOOLEAN :
          /\ upload' = [upload EXCEPT ![i] = IF good THEN "image" ELSE "over"]
          /\ slots' = Released(good)
    /\ UNCHANGED <<row, files, old, removers, candidates, cardVars, orderVars>>

\* The two files are created one after the other; a failed write may leave a file.
WriteFile(i) ==
    /\ upload[i] \in Both
    /\ \/ /\ files' = [files EXCEPT ![i] = @ \cup {upload[i]}]
          /\ upload' = [upload EXCEPT ![i] = IF @ = "image" THEN "thumb" ELSE "insert"]
       \/ /\ files' \in {files, [files EXCEPT ![i] = @ \cup {upload[i]}]}
          /\ upload' = [upload EXCEPT ![i] = "undo"]
    /\ UNCHANGED <<row, old, slots, removers, candidates, cardVars, orderVars>>

\* The row is committed or rolled back.  A commit may be taken for a failure, when
\* its answer is lost, and a success may never reach the client.
InsertMedia(i) ==
    /\ upload[i] = "insert"
    /\ \/ /\ row' = [row EXCEPT ![i] = "live"]
          /\ upload' \in {[upload EXCEPT ![i] = step] : step \in {"told", "over", "undo"}}
       \/ /\ upload' = [upload EXCEPT ![i] = "undo"]
          /\ UNCHANGED row
    /\ UNCHANGED <<files, old, slots, removers, candidates, cardVars, orderVars>>

\* except: both files are removed; an error on the way is ignored.
UndoUpload(i) ==
    /\ upload[i] = "undo"
    /\ upload' = [upload EXCEPT ![i] = "over"]
    /\ \E left \in SUBSET files[i] : files' = [files EXCEPT ![i] = left]
    /\ UNCHANGED <<row, old, slots, removers, candidates, cardVars, orderVars>>

\* The process stops between two steps of an upload.
CrashUpload(i) ==
    /\ upload[i] \in InProgress \ {"decoding"}
    /\ upload' = [upload EXCEPT ![i] = "over"]
    /\ UNCHANGED <<row, files, old, slots, removers, candidates, cardVars, orderVars>>

\* A day passes; no request and no transaction lasts that long.
Day ==
    /\ \A i \in Images : upload[i] \notin InProgress
    /\ old' = [i \in Images |-> upload[i] # "unused"]
    /\ UNCHANGED <<row, files, upload, slots, removers, candidates, cardVars, orderVars>>

-----------------------------------------------------------------------------
(* CatalogService and PetData *)

\* publication_fields: images; a pet may have photo URLs instead.
Publishable(c, images) == c \in Pets \/ images # {}

\* save: the card, its category and its images are locked and checked.
BeginSave(c, command) ==
    /\ ~CardLocked(c)
    /\ command.images \subseteq {i \in Images : Known(i) /\ row[i] = "live" /\ ~Locked(i)}
    /\ command.category # NoCategory => active[command.category]
    /\ card[c].status = "PUBLISHED" => command.images # {} /\ command.category # NoCategory
    /\ saving' = [saving EXCEPT ![c] = command]
    /\ UNCHANGED <<mediaVars, active, card, orderVars>>

\* set_gallery replaces the links; a new card is a draft.
CommitSave(c) ==
    /\ saving[c] # NoSave
    /\ card' = [card EXCEPT ![c] =
                   [status |-> IF @.status = "absent" THEN "DRAFT" ELSE @.status,
                    images |-> saving[c].images, category |-> saving[c].category]]
    /\ saving' = [saving EXCEPT ![c] = NoSave]
    /\ UNCHANGED <<mediaVars, active, orderVars>>

\* A repeated SKU, a blank name or a lost connection rolls it back.
AbortSave(c) ==
    /\ saving[c] # NoSave
    /\ saving' = [saving EXCEPT ![c] = NoSave]
    /\ UNCHANGED <<mediaVars, active, card, orderVars>>

\* Mutant: the card is read without its lock.
CardRead(c) == TRUE

CardFree(c) == ~CardLocked(c)

\* publish: the stored card is checked under its lock.
Publish(c, target) ==
    /\ CardFree(c)
    /\ card[c].status # "absent"
    /\ card[c].status = "ARCHIVED" => target = "ARCHIVED"
    /\ target = "PUBLISHED" => /\ Publishable(c, card[c].images)
                               /\ card[c].category # NoCategory
                               /\ active[card[c].category]
    /\ card' = [card EXCEPT ![c].status = target]
    /\ UNCHANGED <<mediaVars, active, saving, orderVars>>

\* save_category: cards keep an inactive category.
SaveCategory(k) ==
    /\ ~CategoryShared(k)
    /\ active' = [active EXCEPT ![k] = ~@]
    /\ UNCHANGED <<mediaVars, card, saving, orderVars>>

\* create_pet: the older interface publishes at once, without gallery or category.
CreatePet(p) ==
    /\ card[p] = NoCard
    /\ saving[p] = NoSave
    /\ card' = [card EXCEPT ![p].status = "PUBLISHED"]
    /\ UNCHANGED <<mediaVars, active, saving, orderVars>>

\* delete_pet_if_unused
DeletePet(p) ==
    /\ card[p].status # "absent"
    /\ ~CardLocked(p)
    /\ \A o \in Orders : p \notin order[o].cards
    /\ card' = [card EXCEPT ![p] = NoCard]
    /\ UNCHANGED <<mediaVars, active, saving, orderVars>>

-----------------------------------------------------------------------------
(* CommerceOrderService *)

\* create: the cards of the cart are locked, then the cover of each gallery.
BeginOrder(o, cards, covers) ==
    /\ order[o] = NoLines /\ ordering[o] = NoLines
    /\ cards # {}
    /\ \A c \in cards : /\ ~CardLocked(c)
                        /\ card[c].status = "PUBLISHED"
                        /\ card[c].images # {} => covers \cap card[c].images # {}
    /\ Cardinality(covers) <= Cardinality(cards)
    /\ covers \subseteq UNION {card[c].images : c \in cards}
    /\ \A i \in covers : ~Locked(i)
    /\ ordering' = [ordering EXCEPT ![o] = [cards |-> cards, covers |-> covers]]
    /\ UNCHANGED <<mediaVars, cardVars, order>>

CommitOrder(o) ==
    /\ ordering[o] # NoLines
    /\ order' = [order EXCEPT ![o] = ordering[o]]
    /\ ordering' = [ordering EXCEPT ![o] = NoLines]
    /\ UNCHANGED <<mediaVars, cardVars>>

\* A price that is missing or a lost connection rolls it back.
AbortOrder(o) ==
    /\ ordering[o] # NoLines
    /\ ordering' = [ordering EXCEPT ![o] = NoLines]
    /\ UNCHANGED <<mediaVars, cardVars, order>>

\* A draft or a finished order goes with its lines.
DeleteOrder(o) ==
    /\ order[o] # NoLines
    /\ order' = [order EXCEPT ![o] = NoLines]
    /\ UNCHANGED <<mediaVars, cardVars, ordering>>

-----------------------------------------------------------------------------
(* MediaService.delete, remove_files and cleanup *)

DeleteMedia(i) ==
    /\ row[i] = "live" /\ Known(i)
    /\ ~Locked(i)
    /\ ~Linked(i)
    /\ row' = [row EXCEPT ![i] = "deleted"]
    /\ removers' = [removers EXCEPT ![i] = @ \cup {"image"}]
    /\ UNCHANGED <<files, old, upload, slots, candidates, cardVars, orderVars>>

\* remove_files unlinks one file and goes on to the other, then to the row.
Unlink(i, file) ==
    /\ file \in removers[i]
    /\ files' = [files EXCEPT ![i] = @ \ {file}]
    /\ removers' = [removers EXCEPT ![i] =
                       (@ \ {file}) \cup {IF file = "image" THEN "thumb" ELSE "row"}]
    /\ UNCHANGED <<row, old, upload, slots, candidates, cardVars, orderVars>>

MarkRemoved(i) ==
    /\ "row" \in removers[i]
    /\ row' = [row EXCEPT ![i] = IF @ = "deleted" THEN "removed" ELSE @]
    /\ removers' = [removers EXCEPT ![i] = @ \ {"row"}]
    /\ UNCHANGED <<files, old, upload, slots, candidates, cardVars, orderVars>>

\* Mutant: an error is logged, and the removal goes on.
GoOn(i, step) ==
    /\ step \in Both \cap removers[i]
    /\ removers' = [removers EXCEPT ![i] =
                       (@ \ {step}) \cup {IF step = "image" THEN "thumb" ELSE "row"}]
    /\ UNCHANGED <<row, files, old, upload, slots, candidates, cardVars, orderVars>>

\* A file cannot be removed, the database is away, or the process stops.
GiveUp(i, step) ==
    /\ step \in removers[i]
    /\ removers' = [removers EXCEPT ![i] = @ \ {step}]
    /\ UNCHANGED <<row, files, old, upload, slots, candidates, cardVars, orderVars>>

Abandonable(i) == \/ row[i] = "deleted"
                  \/ row[i] = "live" /\ old[i] /\ ~Linked(i)

\* The SELECT of cleanup reads its snapshot ...
FindCandidates ==
    /\ candidates = {}
    /\ candidates' = {i \in Images : Abandonable(i)}
    /\ UNCHANGED <<row, files, old, upload, slots, removers, cardVars, orderVars>>

\* Mutant: links are not looked up again once the rows are locked.
Unchecked(i) == TRUE

Unlinked(i) == ~Linked(i)

\* ... and locks the rows in a later moment, without those that are locked; links
\* made in between are found by the second query.
Claim ==
    LET claimed == {i \in candidates : /\ ~Locked(i)
                                       /\ row[i] \in {"live", "deleted"}
                                       /\ Unlinked(i)}
    IN /\ candidates # {}
       /\ candidates' = {}
       /\ row' = [i \in Images |-> IF i \in claimed THEN "deleted" ELSE row[i]]
       /\ removers' = [i \in Images |-> IF i \in claimed THEN removers[i] \cup {"image"}
                                        ELSE removers[i]]
       /\ UNCHANGED <<files, old, upload, slots, cardVars, orderVars>>

AbortCleanup ==
    /\ candidates # {}
    /\ candidates' = {}
    /\ UNCHANGED <<row, files, old, upload, slots, removers, cardVars, orderVars>>

\* cleanup_orphan_files: old files of a UUID without a row.
RemoveOrphan(i, file) ==
    /\ file \in files[i]
    /\ old[i]
    /\ row[i] = "none"
    /\ files' = [files EXCEPT ![i] = @ \ {file}]
    /\ UNCHANGED <<row, old, upload, slots, removers, candidates, cardVars, orderVars>>

-----------------------------------------------------------------------------
UploadStep(i) == Normalize(i) \/ WriteFile(i) \/ InsertMedia(i) \/ UndoUpload(i)

MediaNext ==
    \/ Day \/ FindCandidates \/ Claim \/ AbortCleanup
    \/ \E i \in Images :
          \/ BeginUpload(i) \/ UploadStep(i) \/ CrashUpload(i) \/ DeleteMedia(i)
          \/ \E file \in Both : Unlink(i, file) \/ RemoveOrphan(i, file)
          \/ MarkRemoved(i)
          \/ \E step \in Both \cup {"row"} : GiveUp(i, step)

CatalogNext ==
    \/ \E c \in Cards :
          \/ \E command \in SaveCommand : BeginSave(c, command)
          \/ CommitSave(c) \/ AbortSave(c)
          \/ \E target \in Publication : Publish(c, target)
    \/ \E k \in Categories : SaveCategory(k)
    \/ \E p \in Pets : CreatePet(p) \/ DeletePet(p)

OrderNext ==
    \E o \in Orders :
        \/ \E cards \in SUBSET Cards, covers \in SUBSET Images : BeginOrder(o, cards, covers)
        \/ CommitOrder(o) \/ AbortOrder(o) \/ DeleteOrder(o)

Next == MediaNext \/ CatalogNext \/ OrderNext

Spec == Init /\ [][Next]_vars

\* Requests end, days pass, the worker comes back every hour, and files that cannot
\* be removed now can be removed some day.
Fairness ==
    /\ WF_vars(Day) /\ WF_vars(FindCandidates) /\ SF_vars(Claim)
    /\ \A i \in Images :
          /\ WF_vars(UploadStep(i))
          /\ \A file \in Both : SF_vars(Unlink(i, file)) /\ WF_vars(RemoveOrphan(i, file))
          /\ SF_vars(MarkRemoved(i))

FairSpec == Spec /\ Fairness

-----------------------------------------------------------------------------
(* Properties *)

\* Rows, files and transactions have their types; the permits of IMAGE_WORKERS and
\* the uploads that decode add up (normalize_image).
MediaTypeOK ==
    /\ row \in [Images -> {"none", "live", "deleted", "removed"}]
    /\ files \in [Images -> SUBSET Both]
    /\ old \in [Images -> BOOLEAN]
    /\ upload \in [Images -> UploadSteps]
    /\ slots \in 0 .. ImageWorkers
    /\ slots + Cardinality({i \in Images : upload[i] = "decoding"}) = ImageWorkers
    /\ removers \in [Images -> SUBSET (Both \cup {"row"})]
    /\ candidates \subseteq Images
    /\ active \in [Categories -> BOOLEAN]
    /\ card \in [Cards -> Card]
    /\ saving \in [Cards -> SaveCommand \cup {NoSave}]
    /\ order \in [Orders -> Snapshot]
    /\ ordering \in [Orders -> Snapshot]

\* An image in a gallery or on an order has its row and both files: customers are
\* never shown a picture the server cannot deliver (get), whatever uploads, deletions,
\* cleanups, edits and crashes happen at the same time.
LinkedIsServed == \A i \in Images : Linked(i) => row[i] = "live" /\ files[i] = Both

\* A published product has a picture, also when it is edited and published at the
\* same time (publication_fields).
PublishedHasImage ==
    \A c \in Products : card[c].status = "PUBLISHED" => card[c].images # {}

\* A card is published, and a published card saved, only under a category that is
\* active at that moment (category, save_category).
PublishedUnderActive ==
    [][\A c \in Cards : \/ card'[c] = card[c]
                        \/ card'[c].status # "PUBLISHED"
                        \/ card[c] = NoCard
                        \/ /\ card'[c].category # NoCategory
                           /\ active'[card'[c].category]]_vars

\* What a failed, lost or deleted upload leaves behind is removed in the end, however
\* often removals fail or the server stops (cleanup, cleanup_orphan_files).
Leftover(i) == /\ upload[i] \in {"told", "over"}
               /\ upload[i] = "told" => row[i] = "deleted"
NothingLeaks == \A i \in Images : Leftover(i) ~> files[i] = {} /\ row[i] \in {"none", "removed"}

=============================================================================
