SPECIFICATION Spec
CONSTANTS
  v1 = v1
  v2 = v2
  None = None
  Orders = {o1}
  Workers = {w1, w2}
  Users = {u1}
  Variants = {v1}
  Vouchers = {c1}
  Keys = {}
  Baskets <- OneVariantBaskets
  Supply <- OneVariantSupply
  Quotas = {0}
  Reports = {"settlement", "refund"}
  MaxRefunds = 1
  MockMode = FALSE
INVARIANTS
  DuplicatePaidCountsOnce
