SPECIFICATION Spec
CONSTANTS
  MaxGoals = 2
  Threads = 2
  PreemptionValues <- Off
PROPERTIES ExclusiveWithoutPreemption
CHECK_DEADLOCK FALSE
