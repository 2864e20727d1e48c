CONSTANTS
  p1 = p1
  p2 = p2
  p3 = p3
  s1 = s1
  m1 = m1
  m2 = m2
  a1 = a1
  a2 = a2
  Posts = {p1, p2, p3}
  Staff = {s1}
  Members = {m1, m2}
  Voters = {s1}
  Requests = {a1, a2}
  None = None
  Parts = {"chain", "race", "vote"}
SPECIFICATION MCSpec
INVARIANTS
  TypeOK
  DuplicateHasOriginal
  MembersHoldOwnText
  VotesFollowMerges
SYMMETRY AllSymmetry
CHECK_DEADLOCK FALSE
