SPECIFICATION FairSpec
CONSTANTS
  t1 = t1
  t2 = t2
  t3 = t3
  n1 = n1
  Turns = {t1, t2, t3}
  Auxiliary = {}
  Poison = {t2}
  Notes = {}
  MaxTurns = 1
  RetryMax = 1
  Base = 1
  MaxInterval = 2
  IdleAfter = 0
  Budget <- LiveFaults
INVARIANTS OutageBurnsNothing BacksOffOnlyWhenIdle
PROPERTIES TurnsAreConsumed
