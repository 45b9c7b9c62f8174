\* Two actors on three sessions with room for one: the count limit is exceeded
\* by one session or by two, and a cleaner meets locked sessions.  Liveness, so no
\* symmetry.  The system may stop: the turns are bounded.
CONSTANTS
  Actors = {a1, a2}
  Nobody = Nobody
  Sessions = {1, 2, 3}
  RetentionCount = 1
  Ttl = 1
  Damageable = {}
  MaxTime = 1
  MaxTurns = 2
  MaxLost = 1
SPECIFICATION FairSpec
INVARIANT QuotaBound
PROPERTY LocksAreReleased
CHECK_DEADLOCK FALSE
