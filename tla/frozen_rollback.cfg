CONSTANTS
  Lane = {"Input", "Control", "Portal"}
  QueueDepth <- MCDepth
  TimedClass = {}
  HandlerReturn = {"Complete"}
  RequestId = {}
  MaxGeneration = 1
  CancelFloor = {}
  TickLane = {"Portal"}
  Owner = {"Portal"}
  MaxEdges = 1
SPECIFICATION SleepFairSpec
PROPERTY FrozenRollbackRetried
CHECK_DEADLOCK FALSE
