SPECIFICATION Spec
CONSTANTS
  fs = fs
  fs2 = fs2
  db = db
  r1 = r1
  r2 = r2
  c1 = c1
  c2 = c2
  get = get
  put = put
  files = files
  data = data
  Drivers = {fs, fs2, db}
  Regs = {r1, r2}
  Calls = {c1, c2}
  Driver <- Choice
  Names = {files, data}
  Name <- TwoNames
  Tools = {get, put}
  Provides <- Overlapping
INVARIANTS OwnAnswer ToolsResolve
PROPERTIES TasksEnd RemovedAreClosed
CHECK_DEADLOCK FALSE
