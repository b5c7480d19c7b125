SPECIFICATION PathSpec
CONSTANTS
  w1 = w1  w2 = w2
  e1 = e1  e2 = e2  e3 = e3
  r1 = r1  r2 = r2
  d1 = d1
  NoEvent = NoEvent  NoRule = NoRule  HardRule = HardRule
  Workers = {w1, w2}
  Events = {e1, e2}
  Rules = {r1}
  WindowRules = {}
  Threshold = 2
  Matches <- MatchThreshold
  Device <- OneDevice
  Kind <- AllOk
  Intrusions = {}
  LegacyFallback = FALSE
  MaxRetries = 1
  FailPoints <- Everything
  CanCrash = TRUE
  MaxDeliveries = 2
  MaxReplays = 1
  MaxFaults = 2
  q1 = q1  q2 = q2  q3 = q3  q4 = q4
  ActionOf <- TwoOfEach
  Requests = {q1, q2, q3, q4}
  Sends = 3
  MaxAlarmFaults = 3
  p1 = p1  p2 = p2
  ProcessOf <- OneThread
  Processes = {p1, p2}
  Threads = {p1, p2}
  Alarms = {al1, al2}
  ByHand = {hand}
  NoAlarm = NoAlarm
  Numbers = 2
  MaxAttempts = 2
  MaxIntakes = 2
  MaxIntakeFaults = 1
  c1 = c1  c2 = c2  i1 = i1  i2 = i2  m1 = m1  m2 = m2
  Instances = {i1, i2}
  Clients = {c1, c2}
  Messages = {m1, m2}
  HomeOf <- Home
  Origin <- FromEach
  Addressees <- ToAll
  BufferSize = 1
  MaxHubFaults = 1
  n1 = n1
  Names = {n1, n2}
  Drafts <- TwoDrafts
  Patches <- TwoPatches
  Creates = {y1, y2}
  Edits = {x1, x2}
  MinutesPerDay = 3
  DaysPerWeek = 2
  DefaultKeep = 1
  MaxKeep = 2
  NoPlan = NoPlan
  MaxMinute = 4
  Tenants = {t1, t2}  Gone = Gone
  TTL = 2
  Attempts = 2
  MaxMoves = 2
  MaxDispatcherFaults = 1
SYMMETRY Symmetry
INVARIANTS PathTypes AnnouncedOnce AckedAccounted ResolvedOnce OneOrderPerAlarm HubDelivers PlaybackExact PlansExplained ReportsAccounted
CHECK_DEADLOCK FALSE
