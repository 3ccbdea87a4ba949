SPECIFICATION Spec
CONSTANTS
  Null = Null
  BadCode = BadCode
  c1 = c1
  r1 = r1  r2 = r2  r3 = r3
  Codes = {c1}
  Requests = {r1, r2, r3}
  Workload <- PurgeWorkload
  CreateInputs <- PurgeInputs
  LookupCodes = {c1}
  RejectPrivateTargets = TRUE
  Second = 4
  HalfRange = 64
  Precision = 1
  Units = {1, 2, 4}
  MaxAttempts = 2
  PurgeEarly = 0
  MaxClock = 8
  MaxFaults = 0
PROPERTIES
  NothingLostEarly
CHECK_DEADLOCK TRUE
