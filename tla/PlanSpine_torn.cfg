SPECIFICATION Spec
CONSTANTS
  acct1 = acct1
  acct2 = acct2
  Accounts = {acct1, acct2}
  Home = acct1
  MaxBars = 3
  MaxRequests = 0
  Requests = {}
  OtherJobs = {}
  Faults = {"crash"}
INVARIANT NoBarSkipped
CHECK_DEADLOCK FALSE
