CONSTANTS
  r1 = r1
  r2 = r2
  w1 = w1
  w2 = w2
  Requests = {r1, r2}
  Workers = {w1}
  MaxQueueSize = 1
  MaxTasks = 1
  NoRequest = NoRequest
  NoTask = NoTask
SPECIFICATION Spec
INVARIANT TasksOnlyAfterCommit
