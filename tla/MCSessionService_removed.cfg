SPECIFICATION Spec
CONSTANTS
  Sessions = {s1}
  Terminals = {t1, t2}
  Tasks = {o1, o2}
  Names = {"branch", "other"}
  Derived = "branch"
  Kinds = {"folder", "projectDirectory", "worktree"}
  WritesFail = FALSE
SYMMETRY Interchangeable
INVARIANT RemovedIsGone
