\* The rate limit at the edges of its windows.
CONSTANTS
  owner = owner
  demo = demo
  home = home
  phone = phone
  first = first
  second = second
  feed = feed
  Callers <- MCCallers
  Routes <- MCRoutes
  Limit <- MCLimit
  Ttl <- MCTtl
  SweepInterval = 2
  Second = 2
  NoSession = NoSession
  NotTold = NotTold
  MaxTime = 7
  MaxHits = 4
SPECIFICATION Spec
SYMMETRY Sessions
CHECK_DEADLOCK FALSE
INVARIANTS
  AtMostLimit
PROPERTIES
  RetryAfterIsEnough
