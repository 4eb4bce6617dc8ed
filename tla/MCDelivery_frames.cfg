\* Whether a held message is only ever pushed to the instance it names.
CONSTANTS
  Keys = {k1}
  Missions = {}
  Envelopes = {e1}
  Deliveries = {d1}
  Instances = {i1, i2}
  None = None
  Horizon = 1
  Tolerance = 0
  Grace = 1
  RecoverDispatching = TRUE
  MaxReceipts = 2
  MaxTime = 1
  MaxCrashes = 0
SPECIFICATION Spec
CHECK_DEADLOCK FALSE
INVARIANTS
  FramesReachTheirInstance
