SPECIFICATION FairSpec
CONSTANTS
  acct1 = acct1
  acct2 = acct2
  Accounts = {acct1, acct2}
  Home = acct1
  MaxBars = 3
  MaxRequests = 2
  Requests <- AllRequests
  OtherJobs = {}
  Faults = {"clearState", "delete"}
INVARIANTS StaleAlertRefused NoBarSkipped FinishedStaysFinished
PROPERTIES RequestAnswered PlanKeepsUp
CHECK_DEADLOCK FALSE
