----------------------------- MODULE CartService -----------------------------
(***************************************************************************)
(* The server cart of a user: CartService.replace and the CartData rows it *)
(* writes.                                                                 *)
(***************************************************************************)
EXTENDS ShopState

CONSTANT MaxCartVersion     \* bound: replacements stop at this version

\* A requested basket: how many units of each item, one at most of a pet.
Baskets == {b \in [Items -> 0 .. MaxQuantity] : \A q \in Pets : b[q] <= 1}

\* A line keeps the current price of a published card; of a hidden card, the
\* price the previous line had, or none.
SnapshotPrice(u, i) ==
    IF card[i].publication = "PUBLISHED" THEN card[i].price
    ELSE cartLine[u][i].price

\* Mutant: a replacement that keeps the version.
ReplaceCartQuietly(u, basket) ==
    /\ cart[u] < MaxCartVersion
    /\ cartLine' = [cartLine EXCEPT ![u] = [i \in Items |->
          IF basket[i] = 0 THEN NoCartLine
          ELSE [quantity |-> basket[i], price |-> SnapshotPrice(u, i)]]]
    /\ UNCHANGED <<cart, orderVars, stockVars, payment, card>>

\* CartService.replace: the whole cart is cleared and written again.
ReplaceCart(u, basket) ==
    /\ cart[u] < MaxCartVersion
    /\ cartLine' = [cartLine EXCEPT ![u] = [i \in Items |->
          IF basket[i] = 0 THEN NoCartLine
          ELSE [quantity |-> basket[i], price |-> SnapshotPrice(u, i)]]]
    /\ cart' = [cart EXCEPT ![u] = @ + 1]
    /\ UNCHANGED <<orderVars, stockVars, payment, card>>

CartNext == \E u \in Users, basket \in Baskets : ReplaceCart(u, basket)

=============================================================================
