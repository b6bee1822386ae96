----------------------------- MODULE MCRequests -----------------------------
(***************************************************************************)
(* Requests on a small instance.                                           *)
(***************************************************************************)
EXTENDS Requests, TLC

CONSTANTS s1, s2, f1

Card(type, price, basics, feed, images) ==
    [type |-> type, price |-> price, basics |-> basics, feed |-> feed, images |-> images]

SomeProducts == {Card("TOY", 1, TRUE, FALSE, TRUE), Card("FEED", 1, TRUE, FALSE, TRUE),
                 Card("FEED", 1, TRUE, TRUE, TRUE), Card("TOY", 0, TRUE, FALSE, TRUE)}

SomePets == {[price |-> 1, basics |-> TRUE, images |-> TRUE],
             [price |-> Undefined, basics |-> FALSE, images |-> FALSE]}

OldTag == {[id |-> 1, name |-> "old"]}

SomeProfiles ==
    {[name |-> "given", phone |-> "russian", address |-> [street |-> s1, flat |-> f1]],
     [name |-> Null, phone |-> "local", address |-> [street |-> s2, flat |-> Null]],
     [name |-> "given", phone |-> "blanks", address |-> Absent],
     [name |-> Null, phone |-> Null, address |-> NoAddress]}

SlotSymmetry == Permutations(Slots)

=============================================================================
