SPECIFICATION FairSpec
CONSTANTS
  Terminals = {t1}
  MaxBytes = 5
  HighWater = 4
  LowWater = 1
  ReadSize = 2
  DrainSize = 2
  MaxSlots = 1
  MaxGeneration = 1
  KernelSize = 2
  SharedBytes = 1
PROPERTY ClosedIsReaped
CHECK_DEADLOCK FALSE
