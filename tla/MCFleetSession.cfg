SPECIFICATION SessionSpec
CONSTANTS
  robot = robot
  navigation = navigation
  perception = perception
  Robots <- OneRobot
  Capabilities <- TwoCapabilities
  RobotOf <- BothOfIt
  AliveTimeout = 3
  MaxOrders = 2
  MaxFaults = 2
INVARIANTS NobodyDangles OneLossIsTolerated DeadAreNoticed
PROPERTIES NewestIsReturned
SYMMETRY EitherCapability
