------------------------------ MODULE Warehouse ------------------------------
(***************************************************************************)
(* What orders promise about goods, without statuses, payments or rows:    *)
(* an order claims all it asks for or nothing, never more than is free,    *)
(* and then gives back exactly what it claimed, once, or sells it, once.   *)
(* Of a single item there is one, so it is free or claimed by one order.   *)
(***************************************************************************)
EXTENDS Naturals

CONSTANTS
    Orders,
    Items,
    Singles     \* the items of which there is only one

VARIABLES
    free,       \* units of each item anyone may claim
    claim,      \* units of each item each order claims
    sold        \* the orders that sold what they claimed

Nothing == [i \in Items |-> 0]

Unclaimed(i) == \A o \in Orders : claim[o][i] = 0

SinglesOK == \A i \in Singles :
    /\ free[i] <= 1
    /\ free[i] = 1 => Unclaimed(i)
    /\ \A o1, o2 \in Orders : claim[o1][i] > 0 /\ claim[o2][i] > 0 => o1 = o2

Init ==
    /\ free \in [Items -> Nat]
    /\ claim \in [Orders -> [Items -> Nat]]
    /\ sold = {}
    /\ SinglesOK

\* o claims its demand, out of a supply.
Claims(o, supply) ==
    /\ claim[o] = Nothing
    /\ o \notin sold
    /\ claim'[o] \in [Items -> Nat]
    /\ \A i \in Items : claim'[o][i] <= supply[i]
    /\ free' = [i \in Items |-> supply[i] - claim'[o][i]]
    /\ UNCHANGED sold

Returned(o) == [i \in Items |-> free[i] + claim[o][i]]

Acquire(o) == /\ Claims(o, free)
              /\ claim' = [claim EXCEPT ![o] = claim'[o]]

\* o claims, in the same step, also what x gives back.
TakeOver(x, o) == /\ x # o
                  /\ Claims(o, Returned(x))
                  /\ claim' = [claim EXCEPT ![o] = claim'[o], ![x] = Nothing]

GiveBack(o) == /\ free' = Returned(o)
               /\ claim' = [claim EXCEPT ![o] = Nothing]
               /\ UNCHANGED sold

Sell(o) == /\ o \notin sold
           /\ sold' = sold \cup {o}
           /\ claim' = [claim EXCEPT ![o] = Nothing]
           /\ UNCHANGED free

\* A sold order leaves the books.
Forget(o) == /\ sold' = sold \ {o}
             /\ UNCHANGED <<free, claim>>

\* Stock arrives or leaves, but never a single item an order claims.
Restock(i) == /\ free'[i] \in Nat
              /\ i \in Singles => Unclaimed(i) /\ free'[i] <= 1
              /\ free' = [free EXCEPT ![i] = free'[i]]
              /\ UNCHANGED <<claim, sold>>

Next ==
    \/ \E o \in Orders : Acquire(o) \/ GiveBack(o) \/ Sell(o) \/ Forget(o)
    \/ \E x, o \in Orders : TakeOver(x, o)
    \/ \E i \in Items : Restock(i)

Spec == Init /\ [][Next]_<<free, claim, sold>>

=============================================================================
