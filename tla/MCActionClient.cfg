SPECIFICATION FairSpec
CONSTANTS
  first = first
  second = second
  MaxGoals = 2
  Callers <- TwoCallers
INVARIANTS CancelsAreKept
PROPERTIES CanceledGoalsEnd
CHECK_DEADLOCK FALSE
