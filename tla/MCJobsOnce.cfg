CONSTANTS
  s1 = s1
  s2 = s2
  b1 = b1
  s3 = s3
  Servers = {s1, s2}
  Bounces = {b1}
  Period = 2
  MaxTicks = 1
  MaxCrashes = 0
  Punctual = TRUE
  NoRun = NoRun
SPECIFICATION Spec
INVARIANT ExecutesOnce
CHECK_DEADLOCK FALSE
