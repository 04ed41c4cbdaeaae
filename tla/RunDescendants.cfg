SPECIFICATION Spec
CONSTANTS
  Requests = {r1}
  Free = Free
INVARIANT NoDescendantLeft
CHECK_DEADLOCK FALSE
