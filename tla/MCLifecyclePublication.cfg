SPECIFICATION Spec
CONSTANTS
  policy = policy  revised = revised  later = later
  fileA = fileA  fileB = fileB
  None = None
  Docs = {d1, d2, d3}
  Families = {f1, f2}
  Sources = {policy, later}
  Files = {fileA}
  FileOf <- MCFileOf
  EffectiveOf <- MCEffectiveOf
  ExpiryOf <- MCExpiryOf
  Chunks = {c1}
  Tasks = {t1, t2}
  LastDay = 1
  MaxCrashes = 1
  FailureVerdicts = {}
  DbFaults = FALSE
SYMMETRY FullSymmetry
CHECK_DEADLOCK FALSE
INVARIANTS
  TypeOK
  CurrentIsServable
  OneActiveGeneration
  SnapshotsAreDistinct
  OriginalRetained
  CurrentIsIndexed
PROPERTIES
  PointerMoves
  PublicationSpec
