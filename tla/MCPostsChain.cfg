CONSTANTS
  p1 = p1
  p2 = p2
  p3 = p3
  s1 = s1
  m1 = m1
  m2 = m2
  a1 = a1
  a2 = a2
  Posts = {p1, p2, p3}
  Staff = {s1}
  Members = {m1}
  Voters = {}
  Requests = {a1}
  None = None
  Parts = {"any"}
SPECIFICATION MCSpec
INVARIANT ClusterSharesPrivacy
CHECK_DEADLOCK FALSE
