CONSTANTS
  u1 = u1  u2 = u2  u3 = u3
  t1 = t1  t2 = t2  t3 = t3  t4 = t4  t5 = t5
  e1 = e1  e2 = e2
  p1 = p1  p2 = p2
  Users = {u1, u2, u3}
  Tokens = {t1, t2, t3, t4, t5}
  Emails = {e1, e2}
  Passwords = {p1, p2}
  NoRow = NoRow
  Past <- MCPast
SYMMETRY Symmetry
SPECIFICATION Spec
INVARIANTS
  UniqueEmail
  VerifiedByOneToken
  RecoveryNeedsVerification
PROPERTY PasswordSettledUntilVerified
