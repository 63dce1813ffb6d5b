CONSTANTS
  PTBR = 64
  PageTable <- MCPageTable
  VAs <- FaultVAs
  Redirect = FALSE
  MaxLookups = 2
  MaxRedirects = 0
SPECIFICATION Spec
PROPERTY WalkCompletes
