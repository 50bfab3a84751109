-------------------------- MODULE MCOptionsStorage --------------------------
(* OptionsStorage on a small instance with interchangeable handles and       *)
(* addresses.                                                                *)
EXTENDS OptionsStorage, TLC

Symmetry == Permutations(Handle) \cup Permutations(Object)
=============================================================================
