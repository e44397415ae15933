SPECIFICATION Spec
CONSTANTS
  None = None
  Absent = Absent
  Vouchers = {v1, v2}
  Orders = {o1}
  Workers = {w1, w2}
  Spellings = {"hemat", "HEMAT", "gratis"}
  Codes = {"HEMAT", "GRATIS"}
  Upper <- MCUpper
  NewVouchers <- MCNewVouchers
  Changes <- MCChanges
  Subtotals = {50}
  Methods = {"REGULAR"}
  MaxTime = 1
SYMMETRY MCSymmetry
INVARIANT
  OrdersKeepTheirVoucher
CHECK_DEADLOCK FALSE
