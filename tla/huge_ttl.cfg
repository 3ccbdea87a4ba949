SPECIFICATION Spec
CONSTANTS
  Null = Null
  BadCode = BadCode
  c1 = c1  c2 = c2
  r1 = r1  r2 = r2  r3 = r3  r4 = r4  r5 = r5
  i1 = i1  i2 = i2
  Codes = {c1}
  Requests = {r1, r2, r3}
  Instances = {i1}
  Cleaners = {i1}
  Host <- OneHost
  Workload <- HugeWorkload
  CreateInputs <- HugeInputs
  LookupCodes = {c1}
  RejectPrivateTargets = TRUE
  Second = 2
  HalfRange = 8
  Precision = 1
  PoolSize = 1
  MaxAttempts = 2
  PurgeEarly = 0
  MaxClock = 1
  MaxFaults = 0
INVARIANTS
  TTLExpiresLater
CHECK_DEADLOCK TRUE
