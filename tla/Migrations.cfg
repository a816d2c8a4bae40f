SPECIFICATION Spec
INVARIANTS
  SchemaMatchesRevision
  ServesOnModels
PROPERTIES
  UpgradesKeepAccounts
