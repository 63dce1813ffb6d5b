CONSTANTS
  CType = "D"
  NBlocks = 2
  MemInit <- MCMemD
  Vals = {0, 1, 2, 3}
  Program <- ProgOob
  AlignedReads = TRUE
  Redirect = FALSE
  MaxRedirects = 0
SPECIFICATION Spec
INVARIANT InBounds
