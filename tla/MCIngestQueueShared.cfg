SPECIFICATION Spec

CONSTANTS
  m1 = m1
  m2 = m2
  Message = {m1, m2}
  Poison = {}
  w1 = w1
  w2 = w2
  Worker = {w1, w2}
  BatchMessages = 2
  MaxRetries = 1
  DeadLetterMax = 1
  Faults = {"crash", "redis", "redrive", "pg", "unknown", "window"}
  MaxFaults = 2
  MaxRedrives = 1

SYMMETRY Symmetry

INVARIANTS
  TypeOK
  NoBatchLost

CHECK_DEADLOCK FALSE
