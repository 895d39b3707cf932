SPECIFICATION FairSpec
CONSTANTS
  loop = loop
  Procs <- TwoProcs
  Nice <- SameNice
  Tickers = {loop}
  Budgeted = {}
  Externals = {"kill"}
CHECK_DEADLOCK FALSE
INVARIANTS RunsOnlyDispatched FinishedBodyIsDead
PROPERTIES KillIsFatal ReadyIsDispatched WakeIsDelivered
