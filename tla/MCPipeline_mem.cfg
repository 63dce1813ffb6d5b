CONSTANTS
  Prog <- ProgMem
  NReg = 3
  Val = 32
  MemSize = 2
  MemInit <- MemInit10
  StageOrder <- BackToFront
  RegsZeroed = TRUE
  MaxCycles = 32
  MaxStalls = 3
SPECIFICATION Spec
INVARIANT TypeOK
INVARIANT PreciseState
INVARIANT ProgramCompletes
