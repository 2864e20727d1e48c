CONSTANTS
  r1 = r1
  r2 = r2
  w1 = w1
  w2 = w2
  Requests = {r1, r2}
  Workers = {w1, w2}
  MaxQueueSize = 1
  MaxTasks = 2
  NoRequest = NoRequest
  NoTask = NoTask
SPECIFICATION FairSpec
INVARIANTS
  TypeOK
  CountIsExact
  CleanStopLeavesNothing
  NoTaskBeforeDecision
  RunOnce
PROPERTIES
  KeepsDeliveryPromise
  SendersReturn
  StopEnds
