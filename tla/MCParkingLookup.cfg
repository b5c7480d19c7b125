SPECIFICATION ParkingSpec
CONSTANTS
  e1 = e1  x1 = x1  h1 = h1  h2 = h2  plateA = plateA
  NoOne = NoOne
  w1 = w1  w2 = w2
  EntryMsgs = {e1}
  ExitMsgs = {x1}
  HttpEntries = {h2}
  HttpExits = {h1}
  Workers = {w1, w2}
  PlateOf <- OnePlate
  FaultKinds = {"find"}
  MaxFaults = 1
INVARIANT KeyMeansDone
CHECK_DEADLOCK FALSE
