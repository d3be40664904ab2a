SPECIFICATION Spec
CONSTANTS
  i1 = i1
  i2 = i2
  i3 = i3
  a = a
  b = b
  Items = {i1, i2}
  Contents <- MCContents
  MaxBatch = 2
  Seeds <- NoSeeds
  None = None
PROPERTIES
  SyncFailureIsUndone
