SPECIFICATION Spec
CONSTANTS
  Null = Null
  g1 = g1  g2 = g2
  Callers = {g1, g2}
  Clients = {k1}
  Backends = {"memory"}
  Burst = 2
  Interval = 2
  TTL = 1
  MaxWait = 1
  MaxClock = 5
  Minute = 1
  Skew <- OneAhead
  MaxSkew = 1
  MaxAttempts = 2
  MaxExcess = 2
  RedisClock = 2
  RedisTaken = 3
  MaxTaken = 4
INVARIANT
  RateLimited
CHECK_DEADLOCK FALSE
