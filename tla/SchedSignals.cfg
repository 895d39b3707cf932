SPECIFICATION Spec
CONSTANTS
  loop = loop
  Procs <- OneProc
  Nice <- OneNice
  Tickers = {loop}
  Budgeted = {2}
  Externals = {"stop", "kill", "checkpoint"}
CHECK_DEADLOCK FALSE
INVARIANTS TypeOK
PROPERTY GatedResume
