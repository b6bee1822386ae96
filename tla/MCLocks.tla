------------------------------- MODULE MCLocks -------------------------------
(***************************************************************************)
(* RowLocks on two small instances, with one user who owns all orders.     *)
(* Lent: two MIXED and a LEGACY order and a draft, a pet and a product;    *)
(* one connection works for nearly all handlers, and two others for those  *)
(* that meet it at each kind of lock, share the table of users with each   *)
(* other, and change the category that cards share.                        *)
(* Mixed: two connections that work for all, and orders within orders.     *)
(***************************************************************************)
EXTENDS RowLocks, TLC

CONSTANTS c1, c2, c3

MCOwner == [o \in Drafts \cup Placed |-> 1]

LentBasket == 1 :> [pets |-> {1}, products |-> {3}]
           @@ 2 :> [pets |-> {}, products |-> {3}]
           @@ 3 :> [pets |-> {1}, products |-> {}]
           @@ 4 :> [pets |-> {1}, products |-> {}]
LentServes == c1 :> Handlers \ {"place", "card", "confirm", "update", "category", "media"}
           @@ c2 :> {"place", "card", "update", "confirm", "media"}
           @@ c3 :> {"update", "category"}

MixedBasket == 1 :> [pets |-> {1, 2}, products |-> {3}]
            @@ 2 :> [pets |-> {2}, products |-> {}]
            @@ 3 :> [pets |-> {1}, products |-> {3}]
            @@ 4 :> [pets |-> {2}, products |-> {}]
MixedServes == [c \in Connections |-> Handlers]
=============================================================================
