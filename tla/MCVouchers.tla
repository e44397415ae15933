----------------------------- MODULE MCVouchers -----------------------------
(***************************************************************************)
(* Constants and symmetry for checking module Vouchers with TLC.  A basket *)
(* costs 50 rupiah: 33.33% of it is 16.6650, half a hundredth more than a  *)
(* column holds, and a fixed 120 is more than the basket.                   *)
(***************************************************************************)
EXTENDS Vouchers, TLC

MCUpper == [s \in {"hemat", "HEMAT", "gratis"} |-> IF s = "gratis" THEN "GRATIS" ELSE "HEMAT"]

Unset ==
  [code |-> Absent, type |-> Absent, value |-> Absent, min |-> Absent, max |-> Absent,
   quota |-> Absent, from |-> Absent, to |-> Absent, active |-> Absent]

MCNewVouchers ==
  {[Unset EXCEPT !.code = "hemat", !.type = "PERCENTAGE", !.value = 3333, !.quota = 1, !.to = 1],
   [Unset EXCEPT !.code = "gratis", !.type = "FIXED", !.value = 12000, !.quota = 1, !.from = 2,
                 !.to = 0]}
MCChanges ==
  {[Unset EXCEPT !.type = "PERCENTAGE"],
   [Unset EXCEPT !.max = 900, !.active = TRUE],
   [Unset EXCEPT !.code = "HEMAT", !.quota = 2, !.from = 0, !.to = 1]}

MCSymmetry == Permutations(Workers) \cup Permutations(Orders) \cup Permutations(Vouchers)
=============================================================================
