CONSTANTS
  Lane = {"Input", "Control", "Portal"}
  QueueDepth <- MCDepth
  TimedClass = {}
  HandlerReturn = {"Complete"}
  RequestId = {r1}
  MaxGeneration = 1
  CancelFloor = {}
  TickLane = {"Input", "Portal"}
  Owner = {"Portal", "Input"}
  MaxEdges = 1
SPECIFICATION SleepFairSpec
INVARIANTS NoCallbackOnDeadBoard SleepsOnlyQuiet PressKeepsAwake
PROPERTIES SupervisorSpec UnfrozenRollbackCompletes
CHECK_DEADLOCK FALSE
