CONSTANTS
  Prog <- ProgChain
  NReg = 3
  Val = 32
  MemSize = 2
  MemInit <- MemInit10
  StageOrder <- FrontToBack
  RegsZeroed = TRUE
  MaxCycles = 12
  MaxStalls = 0
SPECIFICATION Spec
INVARIANT PreciseState
