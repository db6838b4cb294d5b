\* Two dispatchers, two batches claimed together, retries after retries, overruns and a crash.
SPECIFICATION Spec
CONSTANTS
  Batch = {b1, b2}
  Event = {e1, e2}
  Dispatcher = {d1, d2}
  MaxAttempts = 3
  ClaimBatches = 2
  PerItem = TRUE
  MaxCrashes = 1
CONSTRAINTS OneLargeBatch BeforePurge
SYMMETRY Symmetry
CHECK_DEADLOCK FALSE
INVARIANTS NoEventLost HoldersCover SingleHolder DeadLetterIsFinal
PROPERTIES PayloadOnlyShrinks ImplementsContract
