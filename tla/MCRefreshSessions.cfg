SPECIFICATION Spec
CONSTANTS
  Users = {u1}
  Tokens = {t1, t2, t3}
  Requests = {r1, r2}
  NoUser = NoUser
  NoToken = NoToken
  NoRequest = NoRequest
  NoRow = NoRow
  Lifetime = 0
  MaxTime = 1
SYMMETRY Symmetry
INVARIANTS
  TypeOK
  OneTipPerSession
  RotationWellFormed
  DeliveredPersisted
  RefusalsJustified
  AuditTruthful
PROPERTIES
  RevokedRowsFrozen
  EndedForGood
  ImplementsSessionChains
