SPECIFICATION Spec
CONSTANTS
  Null = Null
  BadCode = BadCode
  c1 = c1  c2 = c2
  r1 = r1  r2 = r2  r3 = r3  r4 = r4  r5 = r5
  i1 = i1  i2 = i2
  Codes = {c1}
  Requests = {r1, r2, r3, r4}
  Instances = {i1}
  Cleaners = {i1}
  Host <- OneHost
  Workload <- RaceWorkload
  CreateInputs <- RaceInputs
  LookupCodes = {c1}
  RejectPrivateTargets = TRUE
  Second = 1
  HalfRange = 64
  Precision = 1
  PoolSize = 4
  MaxAttempts = 2
  PurgeEarly = 0
  MaxClock = 1
  MaxFaults = 1
SYMMETRY Resolvers
INVARIANTS
  TypeOK
  UsageLimit
  RedirectsAreCounted
  CheckedRowUnchanged
  LockedUsage
  EndedStaysEnded
PROPERTIES
  NothingLostEarly
CHECK_DEADLOCK TRUE
