\* A reader that found garbage against the transactions that follow.
CONSTANTS
  Actors = {a1, a2}
  Nobody = Nobody
  Sessions = {1}
  RetentionCount = 1
  Ttl = 1
  Damageable = {1}
  MaxTime = 0
  MaxTurns = 2
  MaxLost = 1
SPECIFICATION Spec
PROPERTY ReadsKeepSnapshots
CHECK_DEADLOCK FALSE
