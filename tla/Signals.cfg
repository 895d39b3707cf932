SPECIFICATION FairSpec
CONSTANTS
  k1 = k1
  k2 = k2
  k3 = k3
  Procs = {2, 3}
  Sends = {k1, k2, k3}
  Loop = loop
  Uses <- StopTermOther
  Chosen <- OneCatches
  Parking = {k1, k2, k3}
INVARIANTS QueuedAreOwed GroupIsKilled
PROPERTIES PendingIsDelivered
CHECK_DEADLOCK FALSE
