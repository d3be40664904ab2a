SPECIFICATION FairSpec
CONSTANTS
  None = None
  Turns = {t1, t2}
  Users = {u1}
  Drafters = {u1}
  Sources = {s1, s2}
  MaxCalls = 2
  MaxTurns = 1
INVARIANTS
  RepliesAreGrounded
  DraftsAreOffered
  ConversationIsWhole
PROPERTY TurnsEnd
