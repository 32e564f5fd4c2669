SPECIFICATION Spec
CONSTANTS
  Ints = {"1"}
  Floats = {}
  Names = {"f", "NAME", "INT", "FLOAT"}
  Inputs <- LongCalls
  MaxFails = 0
INVARIANT BuffersHold
CHECK_DEADLOCK FALSE
