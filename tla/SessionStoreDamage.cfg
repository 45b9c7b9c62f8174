\* Two actors on two sessions with room for one; the file of session 1 may be
\* spoilt, a transaction may raise or its process die, the clock passes the TTL.
\* The system may stop: the clock and the turns are bounded.
CONSTANTS
  Actors = {a1, a2}
  Nobody = Nobody
  Sessions = {1, 2}
  RetentionCount = 1
  Ttl = 1
  Damageable = {1}
  MaxTime = 3
  MaxTurns = 2
  MaxLost = 1
SPECIFICATION Spec
SYMMETRY ActorSymmetry
INVARIANTS
  TypeOK
  LocksAreHeld
PROPERTY Implements
CHECK_DEADLOCK FALSE
