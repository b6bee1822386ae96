------------------------------- MODULE MCShop -------------------------------
(***************************************************************************)
(* Shop on small instances.                                                *)
(***************************************************************************)
EXTENDS Shop, TLC

PaymentSymmetry == Permutations(Orders) \cup Permutations(PaymentKeys)

=============================================================================
