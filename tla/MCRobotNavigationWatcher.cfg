SPECIFICATION FairSpec
CONSTANTS
  MaxRequests = 2
  MaxReports = 3
INVARIANTS StopsAreAccountedFor
PROPERTIES HeldRobotsStop
