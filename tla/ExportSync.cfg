SPECIFICATION Spec
CONSTANTS
  f = f
  g = g
  matter = matter
  Facts = {f, g}
  Pages = {matter}
  Home <- OnePage
  Early = {f}
  MaxVanished = 1
  MaxOps <- Ops
  MaxFaults <- Faults
INVARIANTS ExportedUpToCursor DeletedAreRemoved UsersOwnTheVault
CHECK_DEADLOCK FALSE
