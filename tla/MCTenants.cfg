SPECIFICATION MCSpec
CONSTANTS
  Tenants = {t1, t2}
  Sessions = {s1}
  Paddlers = {t1}
  Busy = {t1}
  Nobody = Nobody
  Scoring = {}
  Blobs = {b1}
  Backends = {"fs", "sql", "s3"}
  ListLimit = 1
  Keys = {k1}
  NoKey = NoKey
  Never = Never
  Grace = 1
  MaxTime = 1
INVARIANTS
  DeletionTypeOK
  OneSubscriptionPerCheckout
  ProIsOnRecord
  OnlyDoomedTenantsLose
PROPERTY
  DoomedTenantsGo
CHECK_DEADLOCK FALSE
