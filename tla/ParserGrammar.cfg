SPECIFICATION Spec
CONSTANTS
  Ints = {"1", "2"}
  Floats = {}
  Names = {"x", "f", "NAME", "INT", "FLOAT"}
  Inputs <- CalledTwice
  MaxFails = 0
INVARIANT StatementsRead
CHECK_DEADLOCK FALSE
