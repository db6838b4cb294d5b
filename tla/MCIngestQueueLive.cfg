SPECIFICATION FairSpec

CONSTANTS
  m1 = m1
  m2 = m2
  Message = {m1, m2}
  Poison = {m2}
  w1 = w1
  w2 = w2
  Worker = {w1, w2}
  BatchMessages = 2
  MaxRetries = 1
  DeadLetterMax = 1
  Faults = {"crash", "pg"}
  MaxFaults = 2
  MaxRedrives = 1

PROPERTIES
  EveryBatchSettles

CHECK_DEADLOCK FALSE
