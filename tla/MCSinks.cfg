\* A fair pair of dispatchers, and a reconciler whose budget exceeds the refused events by one.
SPECIFICATION MCSpec
CONSTANTS
  Batch = {b1, b2}
  Event = {e1}
  Dispatcher = {d1, d2}
  MaxAttempts = 2
  ClaimBatches = 1
  PerItem = FALSE
  MaxCrashes = 1
  EventId = {1, 2, 3}
  MinuteOf <- MCMinuteOf
  Part = {p1, p2}
  Refused = {1}
  RepairBudget = 2
  Lookback = 2
  MaxHorizon = 3
  MaxPending = 2
  ReconcileFaults = 2
CHECK_DEADLOCK FALSE
INVARIANTS SinksTypeOK MissingReported
PROPERTIES EveryBatchSettles EveryEventProjected
