CONSTANTS
  Prog <- ProgStoreInc
  NReg = 3
  Val = 32
  MemSize = 2
  MemInit <- MemInit10
  StageOrder <- BackToFront
  RegsZeroed = TRUE
  MaxCycles = 22
  MaxStalls = 2
SPECIFICATION Spec
INVARIANT PreciseState
