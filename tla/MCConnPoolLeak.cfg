CONSTANTS
  c1 = c1
  c2 = c2
  c3 = c3
  c4 = c4
  u1 = u1
  m1 = m1
  j1 = j1
  j2 = j2
  Pool = Pool
  Lost = Lost
  Conns = {c1, c2, c3, c4}
  Users = {u1}
  McpUsers = {m1}
  Jobs = {j1, j2}
  PurgeJob = j1
  MaxPurgeFailures = 2
SPECIFICATION Spec
INVARIANT PoolNeverStalls
