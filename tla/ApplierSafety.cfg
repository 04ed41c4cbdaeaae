SPECIFICATION Spec
CONSTANT N = 3
INVARIANTS AllOrNothing UnknownMeansInterference
CHECK_DEADLOCK FALSE
