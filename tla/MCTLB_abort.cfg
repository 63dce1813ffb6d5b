CONSTANTS
  PTBR = 64
  PageTable <- MCPageTable
  VAs <- AbortVAs
  Redirect = FALSE
  MaxLookups = 2
  MaxRedirects = 0
SPECIFICATION Spec
INVARIANT NoAbort
