CONSTANTS
  PTBR = 64
  PageTable <- MCPageTable
  VAs <- PartialVAs
  Redirect = FALSE
  MaxLookups = 3
  MaxRedirects = 0
SPECIFICATION Spec
INVARIANT TranslationCorrect
