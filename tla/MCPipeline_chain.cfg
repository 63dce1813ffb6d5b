CONSTANTS
  Prog <- ProgChain
  NReg = 3
  Val = 32
  MemSize = 2
  MemInit <- MemInit10
  StageOrder <- BackToFront
  RegsZeroed = TRUE
  MaxCycles = 14
  MaxStalls = 2
SPECIFICATION Spec
INVARIANT PreciseState
PROPERTY RetireInOrder
