SPECIFICATION PoolSpec
CONSTANTS
  l1 = l1
  l2 = l2
  s1 = s1
  s2 = s2
  k1 = k1
  k2 = k2
  None = None
  Ledgers = {l1, l2}
  Scopes = {s1, s2}
  SessionIds = {k1}
  MaxHub = 5
  MaxEdits = 1
  MaxFaults <- Faults
SYMMETRY Symmetry
INVARIANTS ReplayAgrees TurnsAreAnchored EditsKeepEntries
CHECK_DEADLOCK FALSE
