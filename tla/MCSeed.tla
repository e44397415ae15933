------------------------------- MODULE MCSeed -------------------------------
(***************************************************************************)
(* Symmetry for checking module Seed with TLC.                             *)
(***************************************************************************)
EXTENDS Seed, TLC

MCSymmetry == Permutations(Runs)
=============================================================================
