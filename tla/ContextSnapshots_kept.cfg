SPECIFICATION Spec
CONSTANTS
  MaxMessages = 8
  MaxFaults = 0
CHECK_DEADLOCK FALSE
INVARIANT
  NothingForgotten
