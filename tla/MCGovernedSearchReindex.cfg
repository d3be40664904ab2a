SPECIFICATION SearchSpec
CONSTANTS
  policy = policy  revised = revised  fileA = fileA  fileB = fileB
  s1 = s1  employee = employee  admin = admin
  None = None
  Docs = {d1, d2, d3}
  Families = {f1}
  Sources = {policy, revised}
  Files = {fileA, fileB}
  FileOf <- MCFileOf
  EffectiveOf <- MCEffectiveOf
  ExpiryOf <- MCExpiryOf
  Chunks = {c1}
  Tasks = {t1}
  LastDay = 1
  MaxCrashes = 0
  FailureVerdicts = {"failed"}
  DbFaults = FALSE
  Searches = {s1}
  Roles = {employee, admin}
  RoleOf <- MCRoleOf
  AudienceOf <- MCAudienceOf
  CandidateLimit = 2
  VisibleLimit = 2
SYMMETRY MCSymmetry
CHECK_DEADLOCK FALSE
PROPERTY ReindexIsUninterrupted
