------------------------------- MODULE MCCart -------------------------------
(***************************************************************************)
(* Symmetry for checking module Cart with TLC.                             *)
(***************************************************************************)
EXTENDS Cart, TLC

MCSymmetry ==
  Permutations(Users) \cup Permutations(Variants) \cup Permutations(Lines)
    \cup Permutations(Workers)
=============================================================================
