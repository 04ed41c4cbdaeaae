SPECIFICATION Spec
CONSTANTS
  MaxKids = 2
INVARIANTS
  HandlesSettle
  FailedStartIsSwept
  ClosedIsDoomed
PROPERTIES
  ImplementsContract
CHECK_DEADLOCK FALSE
