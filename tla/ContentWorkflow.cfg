CONSTANTS
  v1 = v1
  Videos = {v1}
  MaxEvents = 3
  AttemptLimit = 6
SPECIFICATION Spec
INVARIANTS
  FormalRunIsCurrent
  AttemptsSuffice
  FurtherRunExists
PROPERTIES
  SupersededIsFinal
VIEW Relevant
CHECK_DEADLOCK FALSE
