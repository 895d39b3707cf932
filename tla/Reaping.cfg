SPECIFICATION FairSpec
CONSTANTS
  Parent = 2
  Children = {3, 4}
  Unborn = {4}
  Waits = {1, 2}
  AutoReap = {3}
  Deaths = {"exit", "signal"}
CHECK_DEADLOCK FALSE
INVARIANTS StatusKept LedgerOfLiving
PROPERTIES WaitReturns PromiseKept OrphansReaped
