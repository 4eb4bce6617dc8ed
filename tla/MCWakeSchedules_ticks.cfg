\* A schedule for an agent, one for a thread, room for one of them; or two one-shot wakes, read one by one. A stop of the daemon, a change of zone.
CONSTANTS
  Schedules = {s1, s2}
  AtSchedules = {s2}
  ThreadSchedules = {s2}
  Clis = 2
  ThreadClis = {2}
  PageSize = 1
  Limit = 1
  Zones <- TwoZones
  Offset <- ZoneOffset
  Skipped <- OneGap
  Day = 2
  Hour = 1
  Horizon = 2
  Step = 2
  Grace = 1
  MaxTime = 3
  MaxCrashes = 1
  MaxZoneChanges = 1
  LastRequest = 0
  MaxLag = 1
  Mixed = FALSE
SPECIFICATION FairSpec
INVARIANTS
  TypeOK
  VerdictIsTrue
PROPERTIES
  EachDueOnce
  NoForbiddenDeparture
  EveryWakeSettles
