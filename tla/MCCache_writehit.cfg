CONSTANTS
  CType = "D"
  NBlocks = 2
  MemInit <- MCMemD
  Vals = {0, 1, 2, 3}
  Program <- ProgWriteHit
  AlignedReads = TRUE
  Redirect = FALSE
  MaxRedirects = 0
SPECIFICATION Spec
INVARIANT ReadCorrect
