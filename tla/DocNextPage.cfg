CONSTANTS
  Readers = {"r1"}
  PerPage = 2
  Published = {"UserEmailVerified", "RefreshTokenRevoked", "RefreshTokenReuseDetected"}
  MaxLog = 6
  Older <- OneUnknown
SPECIFICATION Spec
INVARIANT NextPageFound
