SPECIFICATION OrderSpec
CONSTANTS
  o1 = o1  o2 = o2  s1 = s1  a1 = a1  k1 = k1  c1 = c1  c2 = c2  r1 = r1  r2 = r2

  Orders = {o1, o2}
  Staff = {s1}  Nobody = Nobody
  Alarms = {a1}  NoAlarm = NoAlarm
  Keys = {k1}  NoKey = NoKey
  Clients = {c1, c2}
  Scans = {r1, r2}  NoScan = NoScan
  NoOrder = NoOrder
  StatusActions <- Documented
  MaxRequests = 3
  FaultKinds = {"redis", "insert", "insertUnanswered", "cache", "write", "flow", "scan", "crash", "slow", "expire", "lock"}
  MaxFaults = 1
  Notices = {1, 2}
  Recalls = {y1, y2}
  PublishRuns = {z1, z2}
  NoNotice = NoNotice
  ScanLimit = 1
  MaxNoticeFaults = 1
  OrderEvents = {l1, l2}
  Targets <- ToAll
  Readers = {reader}
  Handlers = {h1}
  Polls = {p1, p2}
  Marks = {b1}
  NoUser = NoUser
  MaxInboxFaults = 1
  Nodes = {1, 2}
  MaxWorkerId = 2
  SequenceMask = 1
  Start = 3
  MaxClock = 5
  MaxSetBack = 2
  MaxIds = 3
  Workers = {w1}
  e1 = e1  e2 = e2  e3 = e3
  d1 = d1
  NoEvent = NoEvent  NoRule = NoRule  HardRule = HardRule
  MaxAlarmFaults = 2
  z1 = z1  z2 = z2  da = da  db = db
  Zones = {z1, z2}
  Meters = {da, db}
  ZoneOf <- OneZone
  Samples <- OnePast
  Late <- OneLate
  NoDevice = NoDevice
  AllZones = AllZones
  Jobs = {j1}
  Requests = {p1}
  Reviewers = {v1}  NoReviewer = NoReviewer
  FirstDay = 5
  LastDay = 6
  Dates = {4}
  MaxRuns = 2
  MaxReviews = 1
  MaxLate = 1
  MaxAgentFaults = 1
  BaselineDays = 3
  MinBaselineDays = 2
  MaxDeviceFindingsPerZone = 1
  SpikeRatio = 150
  ZoneRatio = 130
  NightRatio = 25
  MinUsage = 1
  MinConfidence = 50
INVARIANTS OrderTypes FlowTellsLife OneOrderPerKey AnnouncedAsStored ReadIsCounted UniqueIds BadMessagesLedgered SuggestionsExplained
CHECK_DEADLOCK FALSE
