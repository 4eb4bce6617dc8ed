\* The notice of an orphaned delivery says it was not delivered.
CONSTANTS
  Keys = {k1}
  Missions = {}
  Envelopes = {e1}
  Deliveries = {d1}
  Instances = {i1}
  None = None
  Horizon = 1
  Tolerance = 0
  Grace = 1
  RecoverDispatching = TRUE
  MaxReceipts = 2
  MaxTime = 1
  MaxCrashes = 1
SPECIFICATION Spec
CHECK_DEADLOCK FALSE
INVARIANTS
  OrphanedNeverInjected
