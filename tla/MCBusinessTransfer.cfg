SPECIFICATION Spec
CONSTANTS
  None = None
  admin = admin
  agent = agent
  acme = acme
  Users = {admin, agent}
  Role <- MCRole
  Companies = {acme}
  Commands <- MCCommands
  Drafts = {d1, d2}
  Keys = {k1, k2}
  Threads = {t1, t2}
PROPERTY TransfersAreAdmins
