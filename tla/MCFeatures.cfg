SPECIFICATION MCSpec
CONSTANTS
  StartAtEnd = TRUE
  StreamLength = 2
  Contents <- MCContents
  NoId = "none"
  Unmappable = {"bad"}
  Indexer = {w1, w2}
  IndexBatch = 2
  IndexRetries = 2
  IndexFaults = 1
  Action = {a1, a2}
  Creator = {c1, c2}
  Viewer = {v1}
  ShellRateMax = 1
  f1 = f1
  f2 = f2
  f3 = f3
  Caller = {f1, f2, f3}
  Home <- MCHome
  Unlocked = "unlocked"
  FlightFaults = 1
INVARIANTS
  FeaturesTypeOK
  SettledWithCause
  DeadLetterEarned
  ShellBounded
  OneComputation
PROPERTIES
  ResultStands
  EveryEntrySettles
  EveryCallerAnswered
