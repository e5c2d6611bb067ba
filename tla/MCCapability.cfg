SPECIFICATION FairSpec
CONSTANTS
  MaxGoals = 2
  Capacity = 1
  Timeout = 2
  CheckPeriod = 1
  TimeoutIsSet <- On
  LostCancels <- On
INVARIANTS OnlyServesWhileActive HistoryIsTruthful LinkStateIsTrue
PROPERTIES LostLinkStops OrdersCatchUp TransitionsEnd
CHECK_DEADLOCK FALSE
