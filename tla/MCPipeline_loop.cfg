CONSTANTS
  Prog <- ProgLoop
  NReg = 3
  Val = 32
  MemSize = 2
  MemInit <- MemInit10
  StageOrder <- BackToFront
  RegsZeroed = TRUE
  MaxCycles = 24
  MaxStalls = 3
SPECIFICATION Spec
INVARIANT PreciseState
PROPERTY RetireInOrder
INVARIANT ProgramCompletes
