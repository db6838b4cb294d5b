\* Two writers, a prune and a lost row; two requests on a family of three sessions.
SPECIFICATION MCSpec
CONSTANTS
  Writer = {w1, w2}
  Legacy = 1
  Retention = 2
  PruneBatch = 2
  PageLimit = 2
  MaxEvents = 4
  MaxClock = 4
  MaxLosses = 1
  Request = {r1, r2}
  SessionId = {s1, s2, s3}
  Otp = {o1}
  MaxSweeps = 2
SYMMETRY Symmetry
CHECK_DEADLOCK FALSE
INVARIANTS
  RecordsTypeOK
  CommitOrder
  Accounted
  AnchoredInOrder
  CheckpointsChained
  AlarmsExplained
  LossReported
  OneLivePerFamily
  SpentOnce
  SurvivorsOverlap
  RetiredStaysRetired
PROPERTIES
  RevocationIsFinal
