SPECIFICATION FairSpec
CONSTANTS
  None = None
  Edited = Edited
  Cap = 1
  MaxOps <- Ops
  Budgets <- OneStray
PROPERTIES StrayTextIsKept
