\* One key with two contents, one instance with room for one receipt: replay, resumption, expiry, purge and a second life of the key; fair clock and maintenance.
CONSTANTS
  Keys = {k1}
  Missions = {}
  Envelopes = {e1, e2}
  Deliveries = {d1, d2}
  Instances = {i1}
  None = None
  Horizon = 1
  Tolerance = 1
  Grace = 1
  RecoverDispatching = FALSE
  MaxReceipts = 1
  MaxTime = 3
  MaxCrashes = 1
SPECIFICATION FairSpec
CHECK_DEADLOCK FALSE
INVARIANTS
  TypeOK
  DeliveredAsReserved
PROPERTIES
  ImplementsContract
  EveryDeliverySettles
