\* An ordinary message for a queue of one place and a mobile one with two, one fault, no edit, no pause: the queue empties.
CONSTANTS
  Messages = {a, b}
  Replies = {}
  Unqueueable = {}
  Mobile = {b}
  Resumes = {}
  EditIds = {}
  Capacity = 1
  MobileCapacity = 2
  MaxPauses = 0
  MaxLapses = 2
  MaxFaults = 1
SPECIFICATION FairSpec
CHECK_DEADLOCK FALSE
PROPERTIES
  EveryHeldLeaves
