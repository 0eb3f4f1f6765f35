SPECIFICATION ViewersSpec
CONSTANTS
  Clients = {c1, c2}
  Terminals = {t1}
  MaxSize = 2
  InitialSize = 1
  Subscribers = {}
  Events = {"throws"}
  Activities = {}
  Progresses = {}
  MaxRuns = 1
  Operations = {"attach", "detach", "start", "stop", "remove"}
  ControlCapacity = 1
  OutputCapacity = 1
SYMMETRY Interchangeable
CHECK_DEADLOCK FALSE
INVARIANTS
  RenderingClientsArePainted
  GridIsNegotiated
  WholeScreenFirst
  ViewportsAreReleasable
  SleepsOnlyWhenIdle
