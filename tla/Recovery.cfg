CONSTANTS
  u1 = u1  u2 = u2  t1 = t1  t2 = t2  t3 = t3  e1 = e1  p1 = p1  p2 = p2
  r1 = r1  r2 = r2
  Users = {u1}
  Tokens = {t1, t2, t3}
  Requests = {r1, r2}
  Addresses = {e1}
  Words = {p1, p2}
  Weak = {}
  Spellings = {TRUE}
  Paddings = {FALSE}
  NoUser = NoUser  NoToken = NoToken  NoRequest = NoRequest  NoRow = NoRow
  Past <- OneVerified
  Lifetime <- NoTick
  AccessLifetime = 1
  MaxTime = 1
  MaxArrivals = 4
SYMMETRY Symmetry
SPECIFICATION Spec
INVARIANTS
  CommitsWhatItDecided
  RefusalsJustified
  AuditWithinFacts
PROPERTY ImplementsAccounts
CHECK_DEADLOCK FALSE
