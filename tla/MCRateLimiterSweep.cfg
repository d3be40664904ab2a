SPECIFICATION Spec
CONSTANTS
  None = None
  Tenants = {a, b}
  Rpm = 3
  Minute = 4
  StaleAfter = 5
  SweepEvery = 2
  LastTick = 12
SYMMETRY MCSymmetry
PROPERTY SweepEvicts
