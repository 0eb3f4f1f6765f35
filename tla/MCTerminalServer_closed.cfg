SPECIFICATION Spec
CONSTANTS
  Clients = {c1, c2}
  Terminals = {t1}
  MaxSize = 2
  InitialSize = 1
  Subscribers = {}
  Events = {}
  Activities = {}
  Progresses = {}
  MaxRuns = 1
  Operations = {"attach", "start"}
  ControlCapacity = 2
  OutputCapacity = 1
CHECK_DEADLOCK FALSE
INVARIANT ClosedClientsHaveNoViewport
