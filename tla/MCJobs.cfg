CONSTANTS
  s1 = s1
  s2 = s2
  s3 = s3
  b1 = b1
  Servers = {s1, s2, s3}
  Bounces = {b1}
  Period = 2
  MaxTicks = 1
  MaxCrashes = 1
  Punctual = FALSE
  NoRun = NoRun
SPECIFICATION FairSpec
INVARIANTS
  TypeOK
  OneAtATime
  WindowsLeaveNoGap
PROPERTIES
  RunsEnd
CHECK_DEADLOCK FALSE
