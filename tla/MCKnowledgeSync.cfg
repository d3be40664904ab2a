SPECIFICATION Spec
CONSTANTS
  i1 = i1
  i2 = i2
  i3 = i3
  a = a
  b = b
  Items = {i1, i2}
  Contents <- MCContents
  MaxBatch = 2
  Seeds <- MCSeeds
  None = None
SYMMETRY Symmetry
INVARIANTS
  StoresAgree
  UpdateKeepsFindable
  HitsAreTrue
  CleanIsStartable
