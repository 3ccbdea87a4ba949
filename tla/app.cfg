SPECIFICATION FairSpec
CONSTANTS
  Unset = Unset  Garbled = Garbled  NaN = NaN  NoConfig = NoConfig
  MinCode = 4  MaxCode = 16  DefaultCode = 7
  q1 = q1  q2 = q2
  proxy = proxy  stranger = stranger  victim = victim
  secret = secret  guess = guess
  Requests = {q1, q2}
  Calls <- TwoCalls
  Environments <- AllEnvironments
  MaxSignals = 2
INVARIANTS
  TypeOK
  CleanStop
  ReleasedInOrder
  AcceptedConfigRuns
  AllowedBeforeCalled
  ResponsesCounted
PROPERTIES
  StopsEventually
CHECK_DEADLOCK FALSE
