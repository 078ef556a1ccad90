CONSTANTS
  Nothing = Nothing
  NoFile = NoFile
  Receiver = {"w1", "w2"}
  Envelope <- Envelopes
  Stock <- Stocks
  MaxTime = 1
  MaxCalls = 2
  Process = {"p1", "p2"}
  Recipient = {"r1", "r2"}
  Evidence = {"e1", "e2"}
  Publisher = {"p1", "p2"}
  Reader = {"q1"}
  Vaults <- RecordSets
  Suppressed = {{}, {1}}
  Input <- Inputs
  Id = {"x", "y"}
  Content = {1}
  Initial <- Stores
  MaxCandidates = 2
  MaxRelations = 2
  Record <- Tasks
  Label = {"l", "m"}
  Reads <- Readings
  Link <- Links
  Damages <- DamageKinds
  MaxPageRecords = 1
  MaxPulls = 2
  MaxAppends = 1
SPECIFICATION MCSpec
INVARIANTS KnowledgeTypeOK DecidedOnce AcceptanceHonest FirstAcknowledgementStands SearchPinned PacksHonest SuccessionUnforked
CHECK_DEADLOCK FALSE
