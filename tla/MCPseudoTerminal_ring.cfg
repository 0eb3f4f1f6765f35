SPECIFICATION RingSpec
CONSTANTS
  Terminals = {t1, t2}
  MaxBytes = 7
  HighWater = 4
  LowWater = 1
  ReadSize = 2
  DrainSize = 2
  MaxSlots = 2
  MaxGeneration = 2
  KernelSize = 2
  SharedBytes = 2
SYMMETRY Interchangeable
CHECK_DEADLOCK FALSE
INVARIANTS
  OutputInOrder
  SleepsOnlyWhenFull
  EndIsWhole
