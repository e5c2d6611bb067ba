SPECIFICATION FairTreeSpec
CONSTANTS
  MaxGoals = 2
  Tree = tree
  Callers = {tree}
INVARIANTS AnswersAreOwn NothingLeftRunning
PROPERTIES AnsweredCallsEnd HaltedGoalsStop
CHECK_DEADLOCK FALSE
