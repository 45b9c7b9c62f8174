\* One permit (local.yaml); liveness, so no symmetry.
CONSTANTS
  t1 = t1
  t2 = t2
  t3 = t3
  t4 = t4
  Threads = {t1, t2, t3, t4}
  Nobody = Nobody
  Parallel = 1
SPECIFICATION FairSpec
INVARIANTS
  TypeOK
  ClientOutlivesRequests
PROPERTY CloseReturns
