\* Three queueable messages, one edit and one fault: the order of the queue.
CONSTANTS
  Messages = {a, b, c}
  Replies = {}
  Unqueueable = {}
  Mobile = {}
  Resumes = {}
  EditIds = {r1}
  Capacity = 3
  MobileCapacity = 1
  MaxPauses = 0
  MaxLapses = 0
  MaxFaults = 1
SYMMETRY Interchangeable
SPECIFICATION Spec
CHECK_DEADLOCK FALSE
PROPERTIES
  OneDeparturePerTurn
  ImplementsQueue
  ReordersAsAsked
