CONSTANTS
  v1 = v1
  Videos = {v1}
  MaxEvents = 3
  AttemptLimit = 6
SPECIFICATION Spec
PROPERTIES
  ShadowLeavesFormal
VIEW Relevant
CHECK_DEADLOCK FALSE
