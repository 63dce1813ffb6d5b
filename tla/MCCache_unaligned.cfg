CONSTANTS
  CType = "I"
  NBlocks = 2
  MemInit <- MCMemI
  Vals = {0, 1, 2, 3}
  Program <- ProgMid
  AlignedReads = FALSE
  Redirect = FALSE
  MaxRedirects = 0
SPECIFICATION Spec
PROPERTY RefinesROM
