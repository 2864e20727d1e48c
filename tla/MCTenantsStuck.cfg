SPECIFICATION MCSpec
CONSTANTS
  Tenants = {t1, t2}
  Sessions = {s1}
  Paddlers = {}
  Busy = {t1}
  Nobody = Nobody
  Scoring = {t1}
  Blobs = {b1}
  Backends = {"fs"}
  ListLimit = 1
  Keys = {k1}
  NoKey = NoKey
  Never = Never
  Grace = 1
  MaxTime = 1
PROPERTY
  DoomedTenantsGo
CHECK_DEADLOCK FALSE
