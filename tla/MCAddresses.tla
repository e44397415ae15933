----------------------------- MODULE MCAddresses -----------------------------
(***************************************************************************)
(* Symmetry for checking module Addresses with TLC.  Addresses are ordered *)
(* by age and not interchangeable.                                         *)
(***************************************************************************)
EXTENDS Addresses, TLC

MCSymmetry == Permutations(Users) \cup Permutations(Workers)
=============================================================================
