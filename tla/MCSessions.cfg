SPECIFICATION Spec
CONSTANTS
  None = None
  Users = {u1, u2}
  Admins = {u1}
  Tokens = {t1, t2, t3}
  Workers = {w1, w2}
  MaxPassword = 2
SYMMETRY MCSymmetry
INVARIANTS
  TypeOK
  SessionIsAChain
  EndedSessionsStayEnded
  OldSessionsAreLateLogins
  SomebodyIsAdmin
