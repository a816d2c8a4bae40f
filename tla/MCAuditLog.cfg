CONSTANTS
  Readers = {"r1"}
  PerPage = 2
  Published = {"UserEmailVerified", "RefreshTokenRevoked", "RefreshTokenReuseDetected"}
  MaxLog = 7
  Older <- AllKnown
SPECIFICATION Spec
INVARIANTS
  PageIsSnapshot
  WalkMissesNothing
  LinksLeadSomewhere
