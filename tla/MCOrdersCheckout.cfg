SPECIFICATION Spec
CONSTANTS
  v1 = v1
  v2 = v2
  None = None
  Orders = {o1, o2}
  Workers = {w1, w2}
  Users = {u1, u2}
  Variants = {v1, v2}
  Vouchers = {c1}
  Keys = {k1}
  Baskets <- ScarceBaskets
  Supply <- ScarceSupply
  Quotas = {0, 1}
  Reports = {"failure"}
  MaxRefunds = 0
  MockMode = TRUE
SYMMETRY MCSymmetry
INVARIANTS
  TypeOK
  StockConserved
  VoucherConserved
  AnswerIsOwnOrder
