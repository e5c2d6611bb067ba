SPECIFICATION FairSpec
CONSTANTS
  MaxGoals = 2
  Threads = 3
  PreemptionValues <- OnAndOff
INVARIANTS DisabledMeansIdle
PROPERTIES WaitingGoalsMove KeepsPromise
CHECK_DEADLOCK FALSE
