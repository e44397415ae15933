----------------------------- MODULE OrderRules -----------------------------
(***************************************************************************)
(* The enumerations of prisma/schema.prisma that the order and payment     *)
(* services share, the status graph of OrdersService.updateStatus, and the *)
(* translation of a Midtrans transaction status into a PaymentStatus.      *)
(* Everything here is a constant expression.                               *)
(***************************************************************************)
EXTENDS Integers

\* enum OrderStatus.  "NONE" stands for an order id that has no row yet.
OrderStatuses == {"PENDING", "PAID", "PACKED", "SHIPPED", "DELIVERED", "CANCELLED"}
RowStatuses == OrderStatuses \cup {"NONE"}

\* enum PaymentStatus, the type of orders.paymentStatus and payments.status.
PaymentStatuses == {"UNPAID", "PAID", "REFUNDED", "FAILED", "EXPIRED"}

\* allowedTransitions, the admin's moves.  Cancelling has an endpoint of its own.
AllowedTransitions ==
  [PENDING   |-> {"PAID"},
   PAID      |-> {"PACKED"},
   PACKED    |-> {"SHIPPED"},
   SHIPPED   |-> {"DELIVERED"},
   DELIVERED |-> {},
   CANCELLED |-> {}]

\* The statuses in which an order may still be cancelled.
Cancellable == {"PENDING", "PAID"}

(***************************************************************************)
(* What Midtrans puts into transaction_status (with "challenged" for a     *)
(* capture whose fraud_status is challenge), and what mapPaymentStatus     *)
(* makes of it.                                                            *)
(***************************************************************************)
GatewayReports ==
  {"settlement", "capture", "challenged", "pending", "expire",
   "cancel", "deny", "failure", "refund", "partial_refund"}

\* Two wrong variants, for mutation tests: one takes a challenged capture for
\* money, the other knows only card captures.
MapPaymentStatus_bugChallenge(report) ==
  IF report \in {"settlement", "capture", "challenged"} THEN "PAID" ELSE "UNPAID"
MapPaymentStatus_bugSettlement(report) ==
  IF report = "capture" THEN "PAID" ELSE "UNPAID"
MapPaymentStatus(report) ==
  CASE report \in {"settlement", "capture"}        -> "PAID"
    [] report = "expire"                           -> "EXPIRED"
    [] report \in {"cancel", "deny", "failure"}    -> "FAILED"
    [] report \in {"refund", "partial_refund"}     -> "REFUNDED"
    [] OTHER                                       -> "UNPAID"
=============================================================================
