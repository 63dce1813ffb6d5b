CONSTANTS
  Prog <- ProgX0Fwd
  NReg = 3
  Val = 32
  MemSize = 2
  MemInit <- MemInit10
  StageOrder <- BackToFront
  RegsZeroed = TRUE
  MaxCycles = 10
  MaxStalls = 0
SPECIFICATION Spec
INVARIANT PreciseState
