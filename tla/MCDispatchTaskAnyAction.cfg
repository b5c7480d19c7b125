SPECIFICATION FairSpec
CONSTANTS
  t1 = t1  t2 = t2  s1 = s1  s2 = s2  c1 = c1  c2 = c2  q1 = q1  q2 = q2
  Nobody = Nobody  NoRun = NoRun  NoTask = NoTask
  Tasks = {t1}
  Staff = {s1, s2}
  Clients = {c1}
  Runs = {q1}
  StatusActions <- Accepted
  MaxReassign = 2
  MaxRequests = 1
  MaxUpserts = 0
  MaxFaults = 0
PROPERTIES LeasesEnd
CHECK_DEADLOCK FALSE
