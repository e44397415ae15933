--------------------------- MODULE OrderLifecycle ---------------------------
(***************************************************************************)
(* What the shop promises about an order, with no requests, transactions,  *)
(* locks or payments in sight.  An order takes its goods and its voucher   *)
(* use at the moment it is placed, walks PENDING, PAID, PACKED, SHIPPED,   *)
(* DELIVERED one step at a time, and may be cancelled only while PENDING   *)
(* or PAID.  Cancelling gives back exactly what the order took, once.      *)
(* Module Orders implements this specification.                            *)
(***************************************************************************)
EXTENDS OrderRules

CONSTANTS Orders,    \* identities of order rows
          Variants,  \* product variants, the things that have a stock
          Vouchers,  \* vouchers
          Baskets,   \* quantities an order may ask for, per variant
          Supply,    \* stock of each variant before any order
          None       \* the absent voucher

VARIABLES stage,     \* stage[o] is the status of order o
          goods,     \* goods[o][v] is how many of v the order o took
          voucher,   \* voucher[o] is the voucher o used, or None
          available, \* available[v] is what is left of v
          uses       \* uses[c] is how often voucher c is in use

vars == <<stage, goods, voucher, available, uses>>

Init ==
  /\ stage = [o \in Orders |-> "NONE"]
  /\ goods = [o \in Orders |-> [v \in Variants |-> 0]]
  /\ voucher = [o \in Orders |-> None]
  /\ available = Supply
  /\ uses = [c \in Vouchers |-> 0]

\* The order takes its whole basket or nothing.
Place(o, basket, c) ==
  /\ stage[o] = "NONE"
  /\ \A v \in Variants : basket[v] <= available[v]
  /\ stage' = [stage EXCEPT ![o] = "PENDING"]
  /\ goods' = [goods EXCEPT ![o] = basket]
  /\ voucher' = [voucher EXCEPT ![o] = c]
  /\ available' = [v \in Variants |-> available[v] - basket[v]]
  /\ uses' = [d \in Vouchers |-> IF d = c THEN uses[d] + 1 ELSE uses[d]]

\* Payment and fulfilment move the order one stage on, and move nothing else.
Advance(o) ==
  /\ stage[o] \in OrderStatuses
  /\ \E next \in AllowedTransitions[stage[o]] : stage' = [stage EXCEPT ![o] = next]
  /\ UNCHANGED <<goods, voucher, available, uses>>

Cancel(o) ==
  /\ stage[o] \in Cancellable
  /\ stage' = [stage EXCEPT ![o] = "CANCELLED"]
  /\ available' = [v \in Variants |-> available[v] + goods[o][v]]
  /\ uses' = [d \in Vouchers |-> IF d = voucher[o] THEN uses[d] - 1 ELSE uses[d]]
  /\ UNCHANGED <<goods, voucher>>

Next ==
  \E o \in Orders :
    \/ \E basket \in Baskets, c \in Vouchers \cup {None} : Place(o, basket, c)
    \/ Advance(o)
    \/ Cancel(o)

Spec == Init /\ [][Next]_vars
=============================================================================
