SPECIFICATION Spec
CONSTANTS
  Clients = {c1}
  Terminals = {t1}
  MaxSize = 1
  InitialSize = 1
  Subscribers = {c1}
  Events = {}
  Activities = {}
  Progresses = {}
  MaxRuns = 2
  Operations = {"attach", "restart", "start"}
  ControlCapacity = 3
  OutputCapacity = 1
CHECK_DEADLOCK FALSE
INVARIANT DeltaIsOfSameProcess
