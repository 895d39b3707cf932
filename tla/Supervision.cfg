SPECIFICATION Spec
CONSTANTS
  d1 = d1
  d2 = d2
  Daemons = {d1, d2}
  Specs <- TwoSpecs
  MaxBackoff = 2
  MaxExponent = 16
  Storm = 1
  Window = 1
  Faults = {"open", "append"}
  MaxTime = 2
INVARIANTS OneIncarnation StormBounded ShutdownReaches
PROPERTIES Restarted DeadAreReaped
CHECK_DEADLOCK FALSE
