CONSTANTS
  Project = {"x"}
  Label = {"L"}
  Principal = {"pa"}
  Task = {"t1"}
  Client = {"ca", "cb"}
  Vault = {"va"}
  Steady = {"ca"}
  None = None
  PageSize = 1
  MaxBatch = 2
  MaxDisturbances = 2
  Policy <- MCPolicy
  OriginProject <- MCOriginProject
  Record <- MCRecord
  Others <- MCOthers
  Drafts <- MCDrafts
  VaultOf <- MCVaultOf
  PrincipalOf <- MCPrincipalOf
  LabelOf <- MCLabelOf
SPECIFICATION FairSpec
INVARIANTS TypeOK JournalGoverns AnswerNeverOvertaken
PROPERTIES JournalSettled JournalReconciled ClaimRecovered
