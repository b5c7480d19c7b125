SPECIFICATION ProgressSpec
CONSTANTS
  i1 = i1  i2 = i2
  NoOwner = NoOwner
  Instances = {i1, i2}
  MaxOffset = 3
  MaxHandlerRetries = 2
  MaxFaults = 2
  MaxLockFaults = 2
  HandlerMayFail = TRUE
  Handles = {g1, g2}
  NoToken = NoToken
  Thirds = 3
  MaxTime = 5
  Nobody = Nobody  NoRun = NoRun  NoTask = NoTask
  Tasks = {t1}
  Staff = {s1, s2}
  Clients = {c1}
  Runs = {q1, q2}
  StatusActions = {"start", "finish", "close"}
  MaxReassign = 2
  MaxRequests = 1
  MaxUpserts = 0
  MaxTaskFaults = 1
  Commands = {k1}
  Scanners = {x1, x2}
  NoCommand = NoCommand
  MaxResend = 2
  MaxDeviceFaults = 1
  Users = {u1}
  Pusher = Pusher
  MaxVersion = 2
  MaxAsks = 2
  MaxViewFaults = 1
  Cameras = {h1, h2}
  NoCamera = NoCamera
  d1 = d1
  OfflineAfter = 2
  MaxBeats = 2
  MaxChanges = 3
  MaxCameraFaults = 1
  Roles = {r3}
  Calls = {l1}
  Pairs = {p1, p2}
  NoPair = NoPair
  AccessLife = 1
  RefreshLife = 2
  Orders = {o1, o2}
  NoOrder = NoOrder
  Alarms = {a1, a2}
  NoAlarm = NoAlarm
  NoKey = NoKey
  Scans = {z1}
  Unlocked = Unlocked
  OrderFaults = {"scan", "crash"}
  MaxOrderRequests = 1
  MaxOrderFaults = 1
INVARIANTS LibraryTypes HeldIsOwned
PROPERTIES DeliversLog EventuallyAttempted LeasesEnd CommandsEnd EventuallyShown EventuallyOffline EventuallyUrgent EventuallyCurrent
CHECK_DEADLOCK FALSE
