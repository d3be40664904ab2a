SPECIFICATION FairSpec
CONSTANTS
  policy = policy  revised = revised  later = later
  fileA = fileA  fileB = fileB
  None = None
  Docs = {d1, d2}
  Families = {f1}
  Sources = {policy}
  Files = {fileA}
  FileOf <- MCFileOf
  EffectiveOf <- MCEffectiveOf
  ExpiryOf <- MCExpiryOf
  Chunks = {c1}
  Tasks = {t1, t2}
  LastDay = 1
  MaxCrashes = 1
  FailureVerdicts = {"failed"}
  DbFaults = TRUE
CHECK_DEADLOCK FALSE
INVARIANT ProcessingHasWorker
PROPERTY ProcessingEnds
