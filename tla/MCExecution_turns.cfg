\* One submission, with or without a key, one reconstruction, one fault, one pause or
\* one relaunch after a usage limit.
CONSTANTS
  Subs = {s}
  MaxExecs = 2
  MaxFaults = 1
  MaxPauses = 1
  MaxRounds = 1
  MaxUpsets = 1
  None = None
SPECIFICATION Spec
CHECK_DEADLOCK FALSE
INVARIANTS
  TypeOK
  OneLiveExecution
  CompletedWorkWasDone
  AckedWorkWasPrompted
  RerunNeedsLoss
PROPERTIES
  TerminalIsFinal
