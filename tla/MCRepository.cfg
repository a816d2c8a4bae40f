SPECIFICATION Spec
CONSTANTS
  Ids = {i1, i2}
  Txns = {x1, x2}
  Data = {a, b}
  NoTxn = NoTxn
  NoRow = NoRow
  MaxVersion = 3
SYMMETRY Symmetry
INVARIANTS
  NoLostUpdate
  VersionIdentifiesRow
PROPERTIES
  VersionsGrow
