SPECIFICATION Spec
CONSTANTS
  Null = Null
  BadCode = BadCode
  c1 = c1
  r1 = r1  r2 = r2  r3 = r3
  Codes = {c1}
  Requests = {r1, r2, r3}
  Workload <- SqliteWorkload
  CreateInputs <- SqliteInputs
  LookupCodes = {c1}
  RejectPrivateTargets = TRUE
  Second = 2
  HalfRange = 64
  Precision = 1
  Units = {1, 2}
  MaxAttempts = 2
  PurgeEarly = 1
  MaxClock = 4
  MaxFaults = 1
INVARIANTS
  SerialUsage
  EndedStaysEnded
PROPERTIES
  NothingLostEarly
  KeepsRuleBook
CHECK_DEADLOCK TRUE
