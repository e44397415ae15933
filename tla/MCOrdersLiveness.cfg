SPECIFICATION FairSpec
\* With the one order closed there is nothing left to ask for.
CHECK_DEADLOCK FALSE
CONSTANTS
  v1 = v1
  v2 = v2
  None = None
  Orders = {o1}
  Workers = {w1, w2}
  Users = {u1}
  Variants = {v1}
  Vouchers = {}
  Keys = {}
  Baskets <- OneVariantBaskets
  Supply <- OneVariantSupply
  Quotas = {0}
  Reports = {"settlement", "pending", "expire", "refund"}
  MaxRefunds = 1
  MockMode = FALSE
PROPERTIES
  RequestsEnd
  SettlementIsRecorded
