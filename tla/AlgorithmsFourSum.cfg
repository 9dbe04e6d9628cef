CONSTANTS
  MaxLength = 5
  Greatest = 2
SPECIFICATION Spec
INVARIANT FourSumExact
CHECK_DEADLOCK FALSE
