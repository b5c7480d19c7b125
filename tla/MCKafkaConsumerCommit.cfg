SPECIFICATION Spec
CONSTANTS
  i1 = i1
  i2 = i2
  NoOwner = NoOwner
  Instances = {i1}
  MaxOffset = 2
  MaxHandlerRetries = 2
  MaxFaults = 0
  HandlerMayFail = TRUE
INVARIANTS CommittedAreHandled
CHECK_DEADLOCK FALSE
