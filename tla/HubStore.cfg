SPECIFICATION Spec
CONSTANTS
  a = a
  b = b
  main = main
  loop = loop
  sampler = sampler
  worker = worker
  flush = flush
  Turns <- ThreeTurns
  Msgs <- ThreeMsgs
  Session <- OneSession
  SelfMade = {3}
  Slots = 2
  Putters = {worker, flush}
  Readers = {loop, sampler}
  Loop = {loop}
  MaxPuts = 3
  MaxReads = 2
  MaxDeletes = 1
  MaxCrashes = 1
  MaxOps = 4
INVARIANTS RefsResolve AnswersAreCurrent CandidatesKept
SYMMETRY Threads
CHECK_DEADLOCK FALSE
