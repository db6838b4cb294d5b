SPECIFICATION FairSpec

CONSTANTS
  a = a
  b = b
  Body = {a, b}
  r1 = r1
  r2 = r2
  Request = {r1, r2}
  Faults = {"crash", "redis", "handler", "late"}
  MaxFaults = 3

INVARIANTS
  TypeOK
  AckedTookEffect
  OneContent
  EffectOnce

PROPERTIES
  EventuallyAcknowledged
