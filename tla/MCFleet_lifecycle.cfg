\* One name, two client commands, one restart: launch, stop, relaunch, decommission, recovery.
CONSTANTS
  Names = {n1}
  Commands = {c1, c2}
  RecoveryIds = {r1}
  Quota = 1
  MaxCrashes = 1
  None = None
SPECIFICATION FairSpec
CHECK_DEADLOCK FALSE
INVARIANTS
  TypeOK
  OneAgentPerName
  StoppedStaysStopped
  RunningIsRemembered
PROPERTIES
  DecommissionedIsFinal
  ImplementsContract
  EverySpawnEnds
  RecoveryEnds
