------------------------------ MODULE MCOrders ------------------------------
(***************************************************************************)
(* Values of the constants of module Orders for TLC.                       *)
(***************************************************************************)
EXTENDS Orders, TLC

CONSTANTS v1, v2

\* One variant with two pieces, asked for one at a time.
OneVariantBaskets == {[v \in {v1} |-> 1]}
OneVariantSupply == [v \in {v1} |-> 2]

\* Two variants, one of them too scarce for two big orders: three pieces of v1
\* and one of v2 for requests of <<2, 1>> and <<2, 0>>.
ScarceBaskets == {(v1 :> 2) @@ (v2 :> 1), (v1 :> 2) @@ (v2 :> 0)}
ScarceSupply == (v1 :> 3) @@ (v2 :> 1)

\* Workers, orders, users and keys are interchangeable.
MCSymmetry ==
  Permutations(Workers) \cup Permutations(Orders) \cup Permutations(Users)
    \cup Permutations(Keys)
=============================================================================
