SPECIFICATION Spec
CONSTANTS
  None = None
  Drafts = {d1}
  Handoffs = {h1}
  Keys = {k1, k2}
  Staff = {s1}
  Threads = {t1, t2}
  MaxCrashes = 0
SYMMETRY MCSymmetry
INVARIANT ExpiredHasNoHandoff
