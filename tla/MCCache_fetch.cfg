CONSTANTS
  CType = "I"
  NBlocks = 2
  MemInit <- MCMemI
  Vals = {0, 1, 2, 3}
  Program <- ProgI
  AlignedReads = TRUE
  Redirect = TRUE
  MaxRedirects = 1
SPECIFICATION Spec
PROPERTY RefinesROM
