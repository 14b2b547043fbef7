SPECIFICATION Spec
CONSTANTS
  t1 = t1
  t2 = t2
  t3 = t3
  n1 = n1
  Turns = {t1, t2}
  Auxiliary = {t2}
  Poison = {}
  Notes = {n1}
  MaxTurns = 1
  RetryMax = 1
  Base = 1
  MaxInterval = 2
  IdleAfter = 0
  Budget <- UserOps
INVARIANTS ConsumedIsSettled LabourKept DeletedFactStaysGone
