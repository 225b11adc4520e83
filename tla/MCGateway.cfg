SPECIFICATION GatewayFairSpec
CONSTANTS
  s1 = s1
  Subs = {s1}
  MaxBlock = 2
  MaxTimeout = 1
INVARIANTS GatewayTypeOK AtMostOnce NoHole
PROPERTIES EventuallyNotified ChainLetGo ShutdownReturns FailureReturns
CHECK_DEADLOCK FALSE
