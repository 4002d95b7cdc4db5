CONSTANTS
  Lane = {"Control", "Portal"}
  QueueDepth <- MCDepth
  TimedClass = {"Portal"}
  HandlerReturn = {"Complete", "Accepted"}
  RequestId = {r1, r2}
  MaxGeneration = 2
  CancelFloor = {2}
  TickLane = {"Portal"}
SPECIFICATION TeardownSpec
INVARIANTS SleepBarrier CommandConservation
PROPERTIES CancelledNeverStarts TeardownEnds EveryCommandSettles
