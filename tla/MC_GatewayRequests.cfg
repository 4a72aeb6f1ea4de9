SPECIFICATION Spec
CONSTANTS
  t1 = t1
  t2 = t2
  k1 = k1
  k2 = k2
  lease = lease
  approval = approval
  None = None
  Threads = {t1, t2}
  Keys = {k1, k2}
  Requests = {lease, approval}
  OneTime = {lease}
  Quota = 2
  MaxCrashes = 1
INVARIANTS TypeOK OneRunPerKey
PROPERTIES RequestsEnd KeepsPromise
CHECK_DEADLOCK FALSE
