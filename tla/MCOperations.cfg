SPECIFICATION OperationsSpec
CONSTANTS
  t1 = t1  t2 = t2  s1 = s1  s2 = s2  c1 = c1  c2 = c2  q1 = q1  q2 = q2
  Nobody = Nobody  NoRun = NoRun  NoTask = NoTask
  Tasks = {t1}
  Staff = {s1, s2}
  Clients = {c1, c2}
  Runs = {q1, q2}
  StatusActions <- Documented
  MaxReassign = 1
  MaxRequests = 2
  MaxUpserts = 1
  MaxFaults = 1
  k1 = k1  k2 = k2  id = id
  RequestOf <- OneRequest
  Commands = {k1, k2}
  Scanners = {}
  NoCommand = NoCommand
  MaxResend = 2
  MaxDeviceFaults = 1
  NoId = NoId
  MaxDoorFaults = 1
  Merges = {m1, m2}
  Updates = {u1, u2}
  NoShadow = NoShadow
  Attempts = 2
  MaxShadowFaults = 1
  Contracts = {lc1}
  Users = {user}
  Jobs = {j1, j2}
  Terms = {1}
  MonthsPerYear = 1
  MaxRenewYears = 3
  Starts = {0}
  FirstMonth = 1
  LastMonth = 2
  MaxWrites = 2
  MaxLeaseFaults = 1
  Visits = {v1, v2}
  Scans = {x1, x2}
  ByCode = {v1}
  NoVisit = NoVisit
  MaxEdits = 2
  MaxVisitorFaults = 1
  Configs <- TwoConfigs
  Meters = {meter}
  Hours = {0, 1}
  MaxSlot = 2
  Counts = {0, 1, 3}
  MaxReadings = 3
  Tenants = {park}
  MaxRules = 1
  Generators = {g1, g2}
  ByCron = {g1}
  DefaultTenant = park
  NoTenant = NoTenant  NoBill = NoBill  NoRule = NoRule  NoTop = NoTop  NoOne = NoOne
  NoFeeRule = NoFeeRule
  FeeRules <- Prices
  MaxStay = 3000
SYMMETRY Symmetry
INVARIANTS ServiceTypes AuditTruthful OneCommandPerRequest NoLostUpdate NothingOverwritten EntersOnce BillsReconcile
PROPERTIES ImplementsTaskLifecycle FeeGrows
CHECK_DEADLOCK FALSE
