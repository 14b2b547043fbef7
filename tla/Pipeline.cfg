SPECIFICATION FairSpec
CONSTANTS
  t1 = t1
  t2 = t2
  Turns = {t1, t2}
  Heavy = {t2}
  QueueMaxLen = 1
  Batch = 2
  FlushBatch = 2
  ReclaimInterval = 2
  MaxRetries = 2
  Budget <- FaultBudget
INVARIANTS NoTurnLost DuplicatesNeedAFault LeftoversAreStored
PROPERTIES KeepsPromise OnlyStoredIsDropped StreamKeepsMoving
CHECK_DEADLOCK FALSE
