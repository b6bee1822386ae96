-------------------------------- MODULE Cards --------------------------------
(***************************************************************************)
(* What the cards of a product and of a pet say, and the two interfaces    *)
(* that change the same row of pets: CatalogService (cards, publication)   *)
(* and the older PetData (whole pets, public at once).  Each operation is  *)
(* one transaction under the lock of the row; stock, status, versions and  *)
(* the images themselves are in Shop and Media.                            *)
(***************************************************************************)
EXTENDS Naturals, FiniteSets

CONSTANTS Undefined,           \* NULL
          ProductCommands,     \* bound: the bodies administrators send
          PetCommands,
          TagIds,
          Historical           \* tags of the migrated pet that the directory lacks

\* The directory of PetTagService, and names it lacks.
KnownTags == {"friendly"}
TagNames == KnownTags \cup {"old", "new"}
Tag == [id : TagIds, name : TagNames]
Unknown(tags) == {t \in tags : t.name \notin KnownTags}

\* Prices are NULL, 0 or positive.  "basics": SKU, category and animals are
\* given; "feed": brand, form, life stages and weight; names are never blank.
Price == {Undefined, 0, 1}
ProductCommand == [type : {Undefined, "FEED", "TOY"}, price : Price, basics : BOOLEAN,
                   feed : BOOLEAN, images : BOOLEAN]

\* "basics" of a pet: its category and animal.
PetCardCommand == [price : Price, basics : BOOLEAN, images : BOOLEAN]

Publication == {"DRAFT", "PUBLISHED", "ARCHIVED"}

ASSUME CardsAssumption == /\ Undefined \notin Nat
                          /\ ProductCommands \subseteq ProductCommand
                          /\ PetCommands \subseteq PetCardCommand
                          /\ Historical \subseteq Unknown(Tag)

VARIABLES product,     \* [state |-> publication_status or "none", card |-> its fields]
          pet          \* the same, with photo URLs and tags

cardVars == <<product, pet>>

NoProduct == [state |-> "none", card |-> [type |-> Undefined, price |-> Undefined,
                basics |-> FALSE, feed |-> FALSE, images |-> FALSE]]
NoPet == [state |-> "none", card |-> [price |-> Undefined, basics |-> FALSE, images |-> FALSE],
          urls |-> FALSE, tags |-> {}]
Migrated == [NoPet EXCEPT !.state = "PUBLISHED", !.card.price = 1, !.urls = TRUE,
                         !.tags = Historical]

CardsInit == product = NoProduct /\ pet \in {NoPet, Migrated}

Public(row) == row.state = "PUBLISHED"

-----------------------------------------------------------------------------
(* CatalogService *)

\* publication_fields
ProductComplete(c) ==
    /\ c.basics
    /\ c.price \notin {Undefined, 0}
    /\ c.type # Undefined
    /\ c.type = "FEED" => c.feed
    /\ c.images

PetComplete(c, images) == c.basics /\ c.price \notin {Undefined, 0} /\ images

\* Mutant: the card is checked as it was, not as it will be.
MaySaveOld(c) == Public(product) => ProductComplete(product.card)

\* A card that is public has to stay complete.
MaySave(c) == Public(product) => ProductComplete(c)

SaveProduct(c) ==
    /\ MaySave(c)
    /\ product' = [state |-> IF product.state = "none" THEN "DRAFT" ELSE product.state, card |-> c]
    /\ UNCHANGED pet

\* pets_price_positive refuses a price of 0 that the command allows.
SavePet(c) ==
    /\ Public(pet) => PetComplete(c, c.images)
    /\ c.price # 0
    /\ pet' = [pet EXCEPT !.state = IF @ = "none" THEN "DRAFT" ELSE @, !.card = c]
    /\ UNCHANGED product

MayBecome(row, target) == row.state # "none" /\ (row.state = "ARCHIVED" => target = "ARCHIVED")

PublishProduct(target) ==
    /\ MayBecome(product, target)
    /\ target = "PUBLISHED" => ProductComplete(product.card)
    /\ product' = [product EXCEPT !.state = target]
    /\ UNCHANGED pet

\* Photo URLs count as images of a pet.
PublishPet(target) ==
    /\ MayBecome(pet, target)
    /\ target = "PUBLISHED" => PetComplete(pet.card, pet.card.images \/ pet.urls)
    /\ pet' = [pet EXCEPT !.state = target]
    /\ UNCHANGED product

-----------------------------------------------------------------------------
(* PetData: validation asks for a price of at least a kopeck. *)

\* New tags come from the directory, the server numbers them.
CreatePet(urls, tags) ==
    /\ pet.state = "none"
    /\ Unknown(tags) = {}
    /\ pet' = [NoPet EXCEPT !.state = "PUBLISHED", !.card.price = 1, !.urls = urls, !.tags = tags]
    /\ UNCHANGED product

\* Mutant: a tag is known by its identifier.
KeepsIds(tags) == \A t \in Unknown(tags) : \E old \in pet.tags : old.id = t.id

\* validate_existing_tags: the same identifier with the same name.
KeepsTags(tags) == Unknown(tags) \subseteq pet.tags

\* Category, animal and gallery of the card stay as they are.
UpdatePet(urls, tags) ==
    /\ pet.state # "none"
    /\ KeepsTags(tags)
    /\ pet' = [pet EXCEPT !.card.price = 1, !.urls = urls, !.tags = tags]
    /\ UNCHANGED product

\* Orders that name the pet may forbid it; here it is always possible.
DeletePet ==
    /\ pet.state # "none"
    /\ pet' = NoPet
    /\ UNCHANGED product

-----------------------------------------------------------------------------
ProductCard == \/ \E c \in ProductCommands : SaveProduct(c)
               \/ \E target \in Publication : PublishProduct(target)

PetCard == \/ \E c \in PetCommands : SavePet(c)
           \/ \E target \in Publication : PublishPet(target)
           \/ \E urls \in BOOLEAN, tags \in SUBSET Tag : CreatePet(urls, tags) \/ UpdatePet(urls, tags)
           \/ DeletePet

\* Whichever interface changed it last, a public product has all that its
\* publication asked for, a public pet has a price, and tags outside the
\* directory are those that were there before it.
CardsStayValid ==
    /\ Public(product) => ProductComplete(product.card)
    /\ Public(pet) => pet.card.price \notin {Undefined, 0}
    /\ Unknown(pet.tags) \subseteq Historical

=============================================================================
