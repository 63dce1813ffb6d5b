CONSTANTS
  Prog <- ProgLoop
  NReg = 3
  Val = 32
  MemSize = 2
  MemInit <- MemInit10
  StageOrder <- BackToFront
  RegsZeroed = FALSE
  MaxCycles = 30
  MaxStalls = 2
SPECIFICATION Spec
INVARIANT PreciseState
