SPECIFICATION Spec
CONSTANTS
  None = None
  MaxTokens = 8
  Char <- MCChar
  Width <- MCWidth
  Special = {"!"}
  Files <- MCFiles
CHECK_DEADLOCK FALSE
INVARIANTS
  SectionsAreAncestors
  PassedIsWhole
  TablesAreRecoveredOnce
  ChunksFit
  ChunksAreFaithful
  SplittingFailsFor
