SPECIFICATION Spec
CONSTANTS
  Procs = {p1, p2}
  Tasks = {t1, t2}
  Actions = {a1}
  Ttl = 1
  MaxClock = 3
  NoOwner = NoOwner
  NoCall = NoCall
  NoJob = NoJob
INVARIANT OneActiveLease
CHECK_DEADLOCK FALSE
