\* A calendar schedule for a thread, and one change to a zone more than a day behind.
CONSTANTS
  Schedules = {s1}
  AtSchedules = {s1}
  ThreadSchedules = {s1}
  Clis = 0
  ThreadClis = {}
  PageSize = 1
  Limit = 1
  Zones <- TwoZones
  Offset <- FarOffset
  Skipped <- NoGap
  Day = 2
  Hour = 1
  Horizon = 2
  Step = 2
  Grace = 1
  MaxTime = 5
  MaxCrashes = 0
  MaxZoneChanges = 1
  LastRequest = 0
  MaxLag = 1
  Mixed = FALSE
SPECIFICATION Spec
CHECK_DEADLOCK FALSE
PROPERTIES
  OncePerDate
