SPECIFICATION Spec
CONSTANTS
  acct1 = acct1
  acct2 = acct2
  Accounts = {acct1, acct2}
  Home = acct1
  MaxBars = 3
  MaxRequests = 2
  Requests <- MovesAndRegistrations
  OtherJobs = {"watch"}
  Faults = {"put", "clearPlan", "archive", "register", "journal", "fetch", "crash"}
INVARIANTS TypeOK NoDispatchAfterTransition BarDispatchedOnce PaperEntryJournalled FirstTickFiresNothing
CHECK_DEADLOCK FALSE
