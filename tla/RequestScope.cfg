CONSTANTS
  Requests = {"r1", "r2"}
  PoolSize = 1
  None = None
  MaxArrivals = 3
CHECK_DEADLOCK FALSE
SPECIFICATION Spec
INVARIANTS
  OneSessionPerUseCase
  SessionsAreOwn
  ConnectionsAccounted
PROPERTY PoolNeverStarves
