SPECIFICATION ReadingSpec
CONSTANTS
  Clients = {c1}
  Terminals = {t1}
  MaxSize = 2
  InitialSize = 1
  Subscribers = {}
  Events = {"bell"}
  Activities = {}
  Progresses = {}
  MaxRuns = 2
  Operations = {"attach", "resize", "start", "stop", "restart"}
  ControlCapacity = 1
  OutputCapacity = 1
CHECK_DEADLOCK FALSE
PROPERTIES
  StoppedIsReaped
  OwedIsPainted
