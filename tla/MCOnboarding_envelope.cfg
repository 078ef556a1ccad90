CONSTANTS
  Client = {"ca", "cb"}
  Steady = {"ca"}
  Label = {"L", "M"}
  Record = {"w", "p"}
  Written = {"w"}
  MaxDisturbances = 3
  None = None
  Requires <- MCRequires
SPECIFICATION Spec
PROPERTIES EnvelopeReported
CHECK_DEADLOCK FALSE
