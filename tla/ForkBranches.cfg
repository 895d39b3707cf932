SPECIFICATION Spec
CONSTANTS
  p1 = p1
  p2 = p2
  p3 = p3
  notes = notes
  scratch = scratch
  board = board
  w1 = w1
  w2 = w2
  Procs = {p1, p2, p3}
  Root = p1
  Order <- Board
  Kind <- CowAndShared
  Writes = {w1, w2}
  Cap = 3
  MaxKeys = 5
  Budget = 4
  Spends = 1
  Overrides <- KeepOrOwn
  Policies = {"split"}
  Externals = {"fail"}
SYMMETRY Symmetry
CHECK_DEADLOCK FALSE
INVARIANTS SharesCounted BudgetConserved
PROPERTIES BranchesKept
