CONSTANTS
  N = 3
  MaxRecords = 2
  MaxBytes = 4
  MaxCrashes = 2
  Size <- MCUnequalSize
SPECIFICATION FairSpec
INVARIANTS NoClassStarved BoundedBypass
PROPERTIES RetriesRecur
