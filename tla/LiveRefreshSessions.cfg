SPECIFICATION FairSpec
CONSTANTS
  Users = {u1}
  Tokens = {t1, t2}
  Requests = {r1, r2}
  NoUser = NoUser
  NoToken = NoToken
  NoRequest = NoRequest
  NoRow = NoRow
  Lifetime = 0
  MaxTime = 0
PROPERTIES
  EveryRequestAnswered
