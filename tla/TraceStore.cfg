\* Two writers, room for two of three traces.  Deadlock is checked: cleanup() is
\* always possible.
CONSTANTS
  t1 = t1
  t2 = t2
  t3 = t3
  s1 = s1
  s2 = s2
  Writers = {w1, w2}
  Traces = {t1, t2, t3}
  Sessions = {s1, s2}
  SessionOf <- OwnSession
  Nobody = Nobody
  NoTrace = NoTrace
  RetentionCount = 2
  Ttl = 1
  Damageable = {t1}
  MaxTime = 2
SPECIFICATION Spec
SYMMETRY WriterSymmetry
INVARIANTS
  TypeOK
  IndexesAgree
  LatestIsCurrent
  SizeBound
PROPERTY RetentionIsJust
