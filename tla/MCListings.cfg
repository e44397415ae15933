SPECIFICATION Spec
CONSTANTS
  Ids = {1, 2, 3, 4}
  Queries <- MCQueries
  Limits = {1, 2}
  Broadcasts = {2}
  MaxChanges = 2
  MaxValue = 1
CHECK_DEADLOCK FALSE
INVARIANTS
  NothingMissedUnlessRowsLeave
  NothingTwiceUnlessRowsEnter
