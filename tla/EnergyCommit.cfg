SPECIFICATION EnergySpec
CONSTANTS
  Dirty = {2}
  FirstOffsets = {1}
  BatchSize = 2
  MaxMessages = 2
  MaxMeterFaults = 1
INVARIANTS RefusedComesAgain
CHECK_DEADLOCK FALSE
