SPECIFICATION Spec
CONSTANTS
  Gens = {1, 2}
  IDs = {1, 2}
  Tempers = {"same"}
INVARIANT
  DisconnectedIsIdle
CHECK_DEADLOCK FALSE
