SPECIFICATION Spec
CONSTANTS
  v1 = v1
  v2 = v2
  None = None
  Orders = {o1}
  Workers = {w1, w2}
  Users = {u1}
  Variants = {v1}
  Vouchers = {c1}
  Keys = {k1}
  Baskets <- OneVariantBaskets
  Supply <- OneVariantSupply
  Quotas = {0, 1}
  Reports = {"settlement", "capture", "challenged", "pending", "expire", "cancel", "deny",
             "failure", "refund", "partial_refund"}
  MaxRefunds = 2
  MockMode = FALSE
SYMMETRY MCSymmetry
INVARIANTS
  PaymentCopiesAgree
  PaidMeansSettled
  SoldCoversPaid
  SnapChecksStillHold
PROPERTIES
  PaidIsOnlyRefunded
  CancelledIsFinal
  ImplementsLifecycle
