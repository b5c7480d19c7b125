SPECIFICATION LeaseSpec
CONSTANTS
  Contracts = {lc1}
  Users = {user}
  Jobs = {j1}
  MonthsPerYear = 2
  MaxRenewYears = 3
  Terms = {2}
  FirstMonth = 1
  LastMonth = 5
  Starts = {0}
  MaxWrites = 1
  MaxLeaseFaults = 0
INVARIANTS RenewsOriginalTerm
CHECK_DEADLOCK FALSE
