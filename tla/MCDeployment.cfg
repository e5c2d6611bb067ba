SPECIFICATION FairSpec
CONSTANTS
  Size = 3
  Tries = 2
INVARIANTS AllOrNothing NothingLeftBehind
PROPERTIES SignalsEndRun
CHECK_DEADLOCK FALSE
