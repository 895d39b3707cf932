SPECIFICATION Spec
CONSTANTS
  Pids = {2, 3}
  Callers = {1, 2}
  MaxFaults = 1
  MaxCalls = 2
  MaxTakes = 2
  MaxSessions = 2
INVARIANTS AckedIsReadable SnapshotIsWithinLog NamedSnapshotsLoad OneProcessPerLog
PROPERTIES TakesEnd
CHECK_DEADLOCK FALSE
