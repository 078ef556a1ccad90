CONSTANTS
  Project = {"x", "y"}
  Label = {"L1", "L2"}
  Principal = {"pa", "pb"}
  Task = {"t1"}
  Client = {"ca", "cb"}
  Vault = {"va"}
  Admin = Admin
  None = None
  MaxGeneration = 0
  MaxTime = 2
  Phases = {"both"}
  Policy <- MCPolicy
  OriginProject <- MCOriginProject
  Record <- SharedRecord
  Drafts <- CompeteDrafts
  VaultOf <- OneVault
  PrincipalOf <- OnePrincipalEach
  Bindings <- Fixed
  InitialBinding <- AllBoundToL1
SPECIFICATION Spec
INVARIANTS MarkerBacked
PROPERTIES MarkerMovesForward
