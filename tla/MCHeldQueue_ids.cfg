\* held_ids against the rows it is the cache of.
CONSTANTS
  Messages = {a, q}
  Replies = {q}
  Unqueueable = {}
  Mobile = {}
  Resumes = {}
  EditIds = {r1}
  Capacity = 2
  MobileCapacity = 1
  MaxPauses = 0
  MaxLapses = 2
  MaxFaults = 1
SPECIFICATION Spec
CHECK_DEADLOCK FALSE
INVARIANT
  HeldIdsAreHeld
