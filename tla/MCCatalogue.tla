----------------------------- MODULE MCCatalogue -----------------------------
(***************************************************************************)
(* Constants and symmetry for checking module Catalogue with TLC.  Every   *)
(* user has received every product.                                        *)
(***************************************************************************)
EXTENDS Catalogue, TLC

CONSTANTS u1, u2, p1

MCReceived == {<<u1, p1>>, <<u2, p1>>}
MCSymmetry ==
  Permutations(Users) \cup Permutations(Categories) \cup Permutations(Reviews)
    \cup Permutations(Workers)
=============================================================================
