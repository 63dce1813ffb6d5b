CONSTANTS
  PTBR = 64
  PageTable <- MCPageTable
  VAs <- MappedVAs
  Redirect = FALSE
  MaxLookups = 3
  MaxRedirects = 0
SPECIFICATION Spec
PROPERTY WalkCompletes
