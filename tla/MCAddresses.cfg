SPECIFICATION Spec
CONSTANTS
  None = None
  Users = {u1, u2}
  Workers = {w1, w2}
  MaxAddresses = 4
SYMMETRY MCSymmetry
INVARIANTS
  CountStillHolds
  OneDefaultUnlessRaced
