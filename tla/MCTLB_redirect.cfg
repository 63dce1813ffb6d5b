CONSTANTS
  PTBR = 64
  PageTable <- MCPageTable
  VAs <- MappedVAs
  Redirect = TRUE
  MaxLookups = 2
  MaxRedirects = 1
SPECIFICATION Spec
PROPERTY WalkCompletes
