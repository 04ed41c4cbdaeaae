SPECIFICATION FairSpec
CONSTANTS
  Procs = {c, r1, r2}
  Creator = c
  MaxActions = 2
  NoTask = NoTask
  NoRow = NoRow
  NoSession = NoSession
INVARIANTS TablesAgree WorkIsBound
PROPERTY CommandsEnd
CHECK_DEADLOCK FALSE
