CONSTANTS
  Client = {"ca", "cb"}
  Steady = {"ca"}
  Label = {"L", "M"}
  Record = {"w", "p"}
  Written = {"w"}
  MaxDisturbances = 3
  None = None
  Requires <- MCRequires
SPECIFICATION FairSpec
INVARIANTS TypeOK PublicationBacked
PROPERTIES EvidenceArchived OnboardingCompletes
CHECK_DEADLOCK FALSE
