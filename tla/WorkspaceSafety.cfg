SPECIFICATION Spec
CONSTANTS
  c1 = c1
  c2 = c2
  c3 = c3
  p1 = p1
  p2 = p2
  Commits = {c1, c2, c3}
  NoCommit = NoCommit
  NoConfig = NoConfig
  NoWorkspace = NoWorkspace
  LimitFields = {"max_actions"}
  FreeFields = {"approval_file_threshold"}
  Paths = {p1, p2}
  Diagnostics = {"ruff", "mypy", "black"}
  MemoryTypes = {"rule", "issue"}
  MaxTimeout = 8
  Builtin <- MCBuiltin
  RepoLayer <- MCRepoLayer
  UserLayers <- MCUserLayers
INVARIANTS
  LoopIsAsBound
  ResumedIsOfItsCommit
PROPERTIES
  CrashedIsLeftAlone
  
CHECK_DEADLOCK FALSE
