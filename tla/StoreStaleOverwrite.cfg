SPECIFICATION FairSpec
CONSTANTS
  Procs = {c, r1, r2}
  Creator = c
  MaxActions = 2
  NoTask = NoTask
  NoRow = NoRow
  NoSession = NoSession
PROPERTY NoStaleOverwrite
CHECK_DEADLOCK FALSE
