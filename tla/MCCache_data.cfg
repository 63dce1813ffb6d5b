CONSTANTS
  CType = "D"
  NBlocks = 2
  MemInit <- MCMemD
  Vals = {0, 1, 2, 3}
  Program <- ProgD
  AlignedReads = TRUE
  Redirect = FALSE
  MaxRedirects = 0
SPECIFICATION Spec
INVARIANT NoDuplicateLines
PROPERTY AccessCompletes
