------------------------------- MODULE MCMedia -------------------------------
(***************************************************************************)
(* Media on a small instance.                                              *)
(***************************************************************************)
EXTENDS Media
=============================================================================
