SPECIFICATION Spec
CONSTANTS
  NumRobots = 3
  MaxPause = 1
  MaxLength = 2
  StaticList = FALSE
INVARIANTS PausedAreWatched TurnsCome
PROPERTIES SomeoneMoves PairsKeepApart
