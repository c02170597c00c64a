\* Three concurrent callers: late results meet every state of the breaker.
SPECIFICATION FairSpec
CONSTANTS
  c1 = c1
  c2 = c2
  c3 = c3
  Callers = {c1, c2, c3}
  FailureThreshold = 3
  OpenTimeout = 2
INVARIANTS
  TypeOK
  HalfOpenHasProbe
PROPERTIES
  Quarantine
  OpensOnlyOnAStreak
  Recovers
