SPECIFICATION Spec
CONSTANTS
  Runs = {r1, r2}
  CategoryCount = 2
  ProductCount = 1
  ShopTables = {"user", "order"}
  MaxWrites = 1
SYMMETRY MCSymmetry
INVARIANTS
  FailsOnlyIfDisturbed
  LeavesExactlyTheSeed
