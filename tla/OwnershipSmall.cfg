SPECIFICATION Spec
CONSTANTS
  Obj = {a, b, c}
  Types = {"tuple", "list", "dict"}
  MaxHeld = 2
  MaxElems = 3
  MaxArgs = 2
SYMMETRY Symmetry
INVARIANTS TypeOK RefsExact ReachableLives
PROPERTY ImplementsLifetime
CHECK_DEADLOCK FALSE
