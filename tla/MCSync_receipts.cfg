CONSTANTS
  Project = {"x", "y"}
  Label = {"L1", "L2"}
  Principal = {"pa"}
  Task = {"t1"}
  Client = {"ca"}
  Vault = {"va"}
  Admin = Admin
  None = None
  MaxGeneration = 0
  MaxTime = 2
  Phases = {"push", "pull", "both"}
  Policy <- MCPolicy
  OriginProject <- MCOriginProject
  Record <- ReceiptsRecord
  Drafts <- ReceiptsDrafts
  VaultOf <- OneVault
  PrincipalOf <- OnePrincipal
  Bindings <- Fixed
  InitialBinding <- AllBoundToL1
SPECIFICATION Spec
INVARIANTS AuthorizedSetsVerify
PROPERTIES ImplementsUnion
