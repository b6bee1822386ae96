--------------------------- MODULE CatalogService ---------------------------
(***************************************************************************)
(* The administrator's changes of cards and of stock that orders can meet: *)
(* CatalogService.save, publish and adjust_stock, and PetData.update_pet.  *)
(***************************************************************************)
EXTENDS ShopState

\* adjust_stock: any new stock that covers the reserves and the cap.
AdjustStock(p, stock) ==
    /\ stock # product[p].stock
    /\ product[p].reserved <= stock
    /\ stock <= MaxStock
    /\ product' = [product EXCEPT ![p].stock = stock]
    /\ UNCHANGED <<orderVars, pet, payment, card, cartVars>>

\* save: the price of a card; a published card keeps a price.
SavePrice(i, price) ==
    /\ price # card[i].price
    /\ card[i].publication = "PUBLISHED" => price # NoPrice
    /\ card' = [card EXCEPT ![i].price = price]
    /\ UNCHANGED <<orderVars, stockVars, payment, cartVars>>

\* publish: an archived card stays archived, a published one needs a price.
Publish(i, target) ==
    /\ target # card[i].publication
    /\ card[i].publication # "ARCHIVED"
    /\ target = "PUBLISHED" => card[i].price # NoPrice
    /\ card' = [card EXCEPT ![i].publication = target]
    /\ UNCHANGED <<orderVars, stockVars, payment, cartVars>>

\* update_pet: a new price, and a new status only while no active order holds
\* the pet.  Validation demands a price and leaves "reserved" to orders.
UpdatePet(q, status, price) ==
    /\ <<status, price>> # <<pet[q], card[q].price>>
    /\ status = pet[q] \/ ~HasActiveOrder(q)
    /\ pet' = [pet EXCEPT ![q] = status]
    /\ card' = [card EXCEPT ![q].price = price]
    /\ UNCHANGED <<orderVars, product, payment, cartVars>>

CONSTANTS
    StockLevels,     \* bound: the stocks adjustments set
    Targets,         \* bound: the publications administrators choose
    Repriced,        \* bound: the items administrators reprice
    PetStatuses      \* bound: the statuses administrators set

CatalogNext ==
    \/ \E p \in Products, stock \in StockLevels : AdjustStock(p, stock)
    \/ \E i \in Repriced, price \in Prices \cup {NoPrice} : SavePrice(i, price)
    \/ \E i \in Items, target \in Targets : Publish(i, target)
    \/ \E q \in Pets : \E status \in PetStatuses \cup {pet[q]},
                          price \in IF q \in Repriced THEN Prices
                                    ELSE {card[q].price} : UpdatePet(q, status, price)

ASSUME CatalogAssumption ==
    /\ StockLevels \subseteq Nat
    /\ Targets \subseteq Publication
    /\ Repriced \subseteq Items
    /\ PetStatuses \subseteq PetStatus \ {"reserved"}

=============================================================================
