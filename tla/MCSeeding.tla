------------------------------ MODULE MCSeeding ------------------------------
(***************************************************************************)
(* Seeding with a package of a product and a pet, and two instances.       *)
(***************************************************************************)
EXTENDS Seeding, TLC

CONSTANTS product, pet

TwoCards == <<product, pet>>

\* Identifiers are chosen at random, and instances do not differ.
Alike == Permutations(Ids) \cup Permutations(Instances)

=============================================================================
