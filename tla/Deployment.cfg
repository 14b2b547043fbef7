SPECIFICATION Spec
CONSTANTS
  None = None
  h1 = h1
  h2 = h2
  t1 = t1
  t2 = t2
  Homes <- TwoHomes
  Terminals <- TwoTerminals
  Slots <- TwoSlots
  MaxCommands = 3
  MaxFaults <- Once
SYMMETRY Sym
INVARIANTS ServesUnderItsClaim OneBesideTheProxy
CHECK_DEADLOCK FALSE
