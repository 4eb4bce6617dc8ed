\* An ordinary key or a native mission, two wrapper instances: reconnection, migration, refused registration, crashes on both sides.
CONSTANTS
  Keys = {k1, m1}
  Missions = {m1}
  Envelopes = {e1}
  Deliveries = {d1}
  Instances = {i1, i2}
  None = None
  Horizon = 1
  Tolerance = 0
  Grace = 1
  RecoverDispatching = TRUE
  MaxReceipts = 1
  MaxTime = 1
  MaxCrashes = 2
SYMMETRY Interchangeable
SPECIFICATION Spec
CHECK_DEADLOCK FALSE
INVARIANTS
  AtMostOncePerInstance
  MissionNeverRepeated
  AcceptedWasInjected
  CancelledNeverInjected
  RecordMatchesDelivery
  EmitterIsTold
  ReadFramesNameTheirReader
PROPERTIES
  SettledIsFinal
