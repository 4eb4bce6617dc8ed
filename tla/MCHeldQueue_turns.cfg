\* A request that waits, and the restart of an execution that a pause interrupted; a queue of one place, an edit, two pauses, one fault.
CONSTANTS
  Messages = {q, s}
  Replies = {q}
  Unqueueable = {s}
  Mobile = {}
  Resumes = {s}
  EditIds = {r1}
  Capacity = 1
  MobileCapacity = 1
  MaxPauses = 2
  MaxLapses = 2
  MaxFaults = 1
SPECIFICATION Spec
CHECK_DEADLOCK FALSE
INVARIANTS
  TypeOK
  NoReservationIsStuck
  HeldIsNotReminded
  WithdrawnIsForgotten
PROPERTIES
  OneDeparturePerTurn
