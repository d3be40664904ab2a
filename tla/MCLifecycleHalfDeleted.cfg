SPECIFICATION Spec
CONSTANTS
  policy = policy  revised = revised  later = later
  fileA = fileA  fileB = fileB
  None = None
  Docs = {d1, d2, d3}
  Families = {f1}
  Sources = {policy, revised}
  Files = {fileA, fileB}
  FileOf <- MCFileOf
  EffectiveOf <- MCEffectiveOf
  ExpiryOf <- MCExpiryOf
  Chunks = {c1}
  Tasks = {t1, t2}
  LastDay = 1
  MaxCrashes = 0
  FailureVerdicts = {"failed"}
  DbFaults = TRUE
SYMMETRY FullSymmetry
CHECK_DEADLOCK FALSE
INVARIANT ApprovedIsRetrievable
