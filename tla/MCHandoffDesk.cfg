SPECIFICATION FairSpec
CONSTANTS
  None = None
  Drafts = {d1}
  Handoffs = {h1, h2}
  Keys = {k1, k2}
  Staff = {s1}
  Threads = {t1, t2}
  MaxCrashes = 1
INVARIANTS
  TypeOK
  OneHandoffPerDraft
  RepliesAgree
  TrailIsCurrent
PROPERTY RequestsEnd
