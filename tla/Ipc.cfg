SPECIFICATION Spec
CONSTANTS
  a = a
  b = b
  r1 = r1
  r2 = r2
  Receivers = {r1, r2}
  Msgs = {a, b}
  Calls = 2
  Limit = 2
  Externals = {"timeout", "close", "kill", "fail"}
SYMMETRY Symmetry
CHECK_DEADLOCK FALSE
INVARIANTS NotLost ReceivedOnce NobodyWaitsForQueued MessageReachesBody DeadDoNotWait
