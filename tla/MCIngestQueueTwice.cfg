SPECIFICATION Spec

CONSTANTS
  m1 = m1
  Message = {m1}
  Poison = {}
  w1 = w1
  Worker = {w1}
  BatchMessages = 2
  MaxRetries = 1
  DeadLetterMax = 1
  Faults = {"crash"}
  MaxFaults = 2
  MaxRedrives = 1

INVARIANTS
  IdempotentPerBatch

CHECK_DEADLOCK FALSE
