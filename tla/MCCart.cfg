SPECIFICATION Spec
CONSTANTS
  None = None
  Users = {u1, u2}
  Variants = {v1}
  Lines = {l1, l2}
  Workers = {w1, w2}
  Quantities = {1, 2}
  Stocks = {1, 2}
  MaxTaken = 2
SYMMETRY MCSymmetry
INVARIANTS
  TypeOK
  OneLinePerVariant
  LinesHaveVariants
  OrderedVariantsStay
  SuppliedIsAccountedFor
