SPECIFICATION Spec
CONSTANTS
  a = a
  r1 = r1
  Receivers = {r1}
  Msgs = {a}
  Calls = 1
  Limit = 1
  Externals = {"kill"}
CHECK_DEADLOCK FALSE
PROPERTY ZombiesGetNothing
