SPECIFICATION Spec
CONSTANTS
  None = None
  Requests = {r1, r2}
  Slugs <- MCSlugs
  Demo = "demo"
  Emails <- MCEmails
  Lower <- MCLower
  MaxUsers = 3
SYMMETRY MCSymmetry
INVARIANTS
  OneOwnerPerTenant
  AccountsAreDistinct
  TokensFollowRows
