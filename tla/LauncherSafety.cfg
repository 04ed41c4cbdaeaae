SPECIFICATION FairSpec
CONSTANTS
  c = c
  m = m
  d = d
  Child = c
  Members = {m}
  Strays = {d}
  ReadSize = 2
  Limit <- MCLimit
  MaxWritten <- MCMaxWritten
INVARIANTS
  CaptureKeepsEnds
  JoinedIsExact
  ResultIsAnOutput
  TimedOutIsDoomed
PROPERTIES
  LaunchReturns
  ReadersEnd
CHECK_DEADLOCK FALSE
