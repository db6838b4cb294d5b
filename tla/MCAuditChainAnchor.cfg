SPECIFICATION ChainSpec

CONSTANTS
  Writer = {w1, w2}
  Legacy = 0
  Retention = 2
  PruneBatch = 2
  PageLimit = 2
  MaxEvents = 4
  MaxClock = 4
  MaxLosses = 1

SYMMETRY Symmetry

INVARIANTS
  SurvivorAnchored

CHECK_DEADLOCK FALSE
