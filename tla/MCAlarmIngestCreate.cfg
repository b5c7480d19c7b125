SPECIFICATION Spec
CONSTANTS
  w1 = w1  w2 = w2
  e1 = e1  e2 = e2  e3 = e3
  r1 = r1  r2 = r2
  d1 = d1
  NoEvent = NoEvent  NoRule = NoRule  HardRule = HardRule
  Workers = {w1}
  Events = {e1}
  Rules = {r1}
  WindowRules = {}
  Threshold = 2
  Matches <- MatchThreshold
  Device <- OneDevice
  Kind <- AllOk
  Intrusions = {}
  LegacyFallback = FALSE
  MaxRetries = 1
  FailPoints = {"create"}
  CanCrash = FALSE
  MaxDeliveries = 1
  MaxReplays = 0
  MaxFaults = 1
INVARIANTS FailedCreateIsRetried
CHECK_DEADLOCK FALSE
