CONSTANTS
  PTBR = 64
  PageTable <- MCPageTable
  VAs <- AllVAs
  Redirect = TRUE
  MaxLookups = 3
  MaxRedirects = 2
SPECIFICATION Spec
INVARIANT TranslationCorrect
INVARIANT EntriesCorrect
