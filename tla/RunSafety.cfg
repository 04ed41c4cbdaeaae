SPECIFICATION FairSpec
CONSTANTS
  Requests = {r1, r2}
  Free = Free
PROPERTIES RequestsAreAnswered ImplementsContract
CHECK_DEADLOCK FALSE
INVARIANTS TypeOK DeletedRootIsQuiet SurvivorsAreReported SuccessIsClean LeaksAreReported
