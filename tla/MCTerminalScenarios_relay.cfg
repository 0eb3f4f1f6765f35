SPECIFICATION ScenariosSpec
CONSTANTS
  Clients = {c1, c2}
  Terminals = {t1}
  MaxSize = 1
  InitialSize = 1
  Subscribers = {c1, c2}
  Events = {"bell", "promptFinished", "readFails"}
  Activities = {"working", "waiting", "finished"}
  Progresses = {p1}
  MaxRuns = 2
  Operations = {"attach", "mark", "rename", "start", "restart"}
  ControlCapacity = 3
  OutputCapacity = 1
SYMMETRY Interchangeable
CHECK_DEADLOCK FALSE
INVARIANTS
  TypeOK
  MirrorsFollowRelay
