SPECIFICATION TelemetrySpec
CONSTANTS
  Dirty = {2}
  FirstOffsets = {0, 1}
  BatchSize = 2
  MaxMessages = 4
  MaxMeterFaults = 2
  e1 = e1  x1 = x1  h1 = h1  h2 = h2  plateA = plateA
  NoOne = NoOne
  w1 = w1  w2 = w2
  EntryMsgs = {e1}
  ExitMsgs = {x1}
  HttpEntries = {h2}
  HttpExits = {h1}
  Workers = {w1, w2}
  PlateOf <- OnePlate
  FaultKinds = {"redis", "insert", "find", "settle", "release", "publish", "claimUnanswered", "insertUnanswered", "settleUnanswered", "publishUnanswered", "commit", "crash", "rebalance", "expire"}
  MaxFaults = 2
INVARIANTS TelemetryTypes LossExplained EventsMatchRecords
PROPERTY CarsHandled
CHECK_DEADLOCK FALSE
