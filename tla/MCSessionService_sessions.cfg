SPECIFICATION Spec
CONSTANTS
  Sessions = {s1}
  Terminals = {t1, t2}
  Tasks = {o1, o2}
  Names = {"branch", "other"}
  Derived = "branch"
  Kinds = {"folder", "worktree"}
  WritesFail = TRUE
SYMMETRY Interchangeable
INVARIANTS
  TypeOK
  MemoryIsOnItsWayToDisk
  RowsAreListed
  ListIsAnnounced
  UserNameWins
  LiveTerminalsAreListed
