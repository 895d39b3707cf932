SPECIFICATION Spec
CONSTANTS
  Pids = {2}
  Callers = {1}
  MaxFaults = 1
  MaxCalls = 1
  MaxTakes = 1
  MaxSessions = 1
INVARIANT NeverStranded
CHECK_DEADLOCK FALSE
