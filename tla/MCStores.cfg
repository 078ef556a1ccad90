CONSTANTS
  Writer = {w1, w2}
  Immutable = {record}
  Slot = {slot}
  Data = {d1, d2}
  None = None
  MaxFailures = 2
  Nothing = Nothing
  Missing = Missing
  Rotten = Rotten
  Broken = Broken
  Other = Other
  Nobody = Nobody
  MaxChanges = 2
  Paths <- TreePaths
  Fold <- FoldedNames
  Content = {1, 2}
  Initial <- Trees
  Policies <- Exclusions
  Limits <- ScanLimits
  MaxScans = 2
  Worker = {"w1", "w2"}
  Requests <- Intakes
  MaxCalls = 3
  MaxRots = 1
  MaxBackups = 2
  Directory = {"d1", "d2"}
  Identity = {"i", "j"}
  Junk = "junk"
  Commit = {1, 2, 3}
  Manifest <- CommittedManifests
  Ancestors <- Histories
  Has <- CommitsOfCheckouts
  Creator = {"c1", "c2"}
  Reader = {"r"}
  Evaluator = {"e"}
  LedgerEntry = {"a", "b"}
  Refused = "bad"
  MaxEntries = 2
  Logs <- Ledgers
  Importer = {"p", "q"}
  BundlePolicies <- BundlesAsked
  Bundler = {"v", "w"}
  MaxTouches = 1
  MaxLogEdits = 1
  MaxImports = 3
  Packets <- ThreePackets
  PacketRequests <- PacketsAsked
  Adapter = {"p"}
  RecordId = {"x", "y"}
  Kind = {"decision", "readiness", "route"}
  Supported = {"decision", "readiness"}
  Options <- OptionsChosen
  MaxWrites = 2
  MaxEdits = 1
  MaxBound = 1
  Inode = {1, 2}
  Containers <- SwappedAndShapes
  EntryFold <- FoldedEntries
  MaxBytes = 2
  ReleaseCommit = {1, 2}
  Owner = "o"
  Signers = {{"o"}, {"o", "x"}}
  Previews = {1}
  HandMade <- HandMadeManifests
  Preparer = {"p", "q"}
  MaxReceipts = 1
  Location = {"l", "m"}
  MaxTime = 1
  MaxObservations = 3
  MaxDeletions = 2
  MaxFills = 2
SPECIFICATION MCSpec
SYMMETRY Symmetric
INVARIANTS StoresTypeOK ReadersSeeWhole ToldIsStored ObservationsHold WritesConverge RestoredAsReceipted AnswersTrue ReleaseBound
CHECK_DEADLOCK FALSE
