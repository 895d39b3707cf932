SPECIFICATION Spec
CONSTANTS
  loop = loop
  host = host
  Procs <- OneProc
  Nice <- OneNice
  Tickers = {loop, host}
  Budgeted = {2}
  Externals = {"stop", "kill"}
CHECK_DEADLOCK FALSE
INVARIANTS QueueOK NoLostWake
