CONSTANTS
  PTBR = 64
  PageTable <- StaleCsiPageTable
  VAs <- StaleCsiVAs
  Redirect = TRUE
  MaxLookups = 2
  MaxRedirects = 1
SPECIFICATION Spec
INVARIANT TranslationCorrect
