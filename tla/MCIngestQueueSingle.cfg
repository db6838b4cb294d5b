SPECIFICATION Spec

CONSTANTS
  m1 = m1
  m2 = m2
  Message = {m1, m2, m3}
  Poison = {m3}
  w1 = w1
  Worker = {w1}
  BatchMessages = 2
  MaxRetries = 1
  DeadLetterMax = 1
  Faults = {"crash", "redis", "redrive", "pg", "unknown", "window"}
  MaxFaults = 3
  MaxRedrives = 1
  m3 = m3

SYMMETRY Symmetry

INVARIANTS
  BacklogCovers
  StoredOnce

CHECK_DEADLOCK FALSE
