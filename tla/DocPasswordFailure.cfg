CONSTANTS
  Words = {"short", "least", "full", "wide", "huge"}
  Chars <- MCChars
  Bytes <- MCBytes
  MinLen = 2
  MaxLen = 6
  HashLimit = 4
  MaxBlanks = 1
  Emails = {"good", "bad"}
  Malformed = {"bad"}
  NoUser = NoUser
  MaxEvents = 5
SPECIFICATION Spec
INVARIANT PasswordsFailByValidation
