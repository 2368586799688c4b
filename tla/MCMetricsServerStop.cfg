SPECIFICATION ServerFairSpec
CONSTANTS
  MaxClients = 1
  Failures = {}
PROPERTIES StopReturns
CHECK_DEADLOCK FALSE
