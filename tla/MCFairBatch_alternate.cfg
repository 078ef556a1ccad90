CONSTANTS
  N = 3
  MaxRecords = 1
  MaxBytes = 2
  MaxCrashes = 1
  Size <- MCUnitSize
SPECIFICATION FairSpec
INVARIANTS ClassesAlternate
