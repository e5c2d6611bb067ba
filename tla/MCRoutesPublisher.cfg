SPECIFICATION RoutesSpec
CONSTANTS
  first = first
  second = second
  here = here
  there = there
  Editors <- TwoEditors
  Poses <- TwoPoses
  FirstIds = {1, 2}
  MaxSegments = 2
  MaxKeys = 3
  MaxFailed = 1
  MaxInFlight = 2
INVARIANTS RobotsFollowTheEdits EditsSurvive
PROPERTIES EditsHitTheirSegment
SYMMETRY Alike
