----------------------------- MODULE MCSessions -----------------------------
(***************************************************************************)
(* Symmetry for checking module Sessions with TLC.                         *)
(***************************************************************************)
EXTENDS Sessions, TLC

MCSymmetry == Permutations(Tokens) \cup Permutations(Workers)
=============================================================================
