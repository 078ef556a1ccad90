CONSTANTS
  Project = {"x", "y"}
  Label = {"L1", "L2"}
  Principal = {"pa", "pb"}
  Task = {"t1"}
  Client = {"ca", "cb"}
  Vault = {"va", "vb"}
  Admin = Admin
  None = None
  MaxGeneration = 1
  MaxTime = 2
  Phases = {"push", "pull", "both"}
  Policy <- MCPolicy
  OriginProject <- MCOriginProject
  Record <- AllRecord
  Drafts <- AllDrafts
  VaultOf <- OneVaultEach
  PrincipalOf <- OnePrincipalEach
  Bindings <- AllBindings
  InitialBinding <- AllBoundToL1
SPECIFICATION CaseSpec
INVARIANTS TypeOK BindingInForce EgressNeverFails EvidenceIsTrue ScopeNeverShrinks ReceivedHasProvenance
PROPERTIES PendingAcknowledgedFirst
