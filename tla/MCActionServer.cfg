SPECIFICATION FairSpec
CONSTANTS
  MaxGoals = 3
  SharedThread = TRUE
  PreemptionValues <- OnAndOff
INVARIANTS StopRequestsHaveACause
PROPERTIES ExclusiveWithoutPreemption NeverStartsDisabled CallsReturn QueuedGoalsMove KeepsPromise
