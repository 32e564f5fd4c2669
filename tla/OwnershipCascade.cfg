SPECIFICATION Spec
CONSTANTS
  Obj = {a, b, c}
  Types = {"tuple", "dict"}
  MaxHeld = 2
  MaxElems = 4
  MaxArgs = 2
INVARIANT OnlyCyclesLeak
PROPERTY CascadeEnds
CHECK_DEADLOCK FALSE
