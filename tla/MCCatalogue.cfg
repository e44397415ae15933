SPECIFICATION Spec
CONSTANTS
  None = None
  u1 = u1
  u2 = u2
  p1 = p1
  Users = {u1, u2}
  Categories = {c1, c2}
  Products = {p1}
  Reviews = {r1, r2}
  Ratings = {1, 2}
  Prices = {1, 2}
  Received <- MCReceived
  Workers = {w1, w2}
SYMMETRY MCSymmetry
INVARIANTS
  TypeOK
  RatingsAreCurrent
  OneReviewPerCustomer
  DiscountBelowBaseUnlessRaced
  RemovedCategoriesAreEmptyUnlessLate
