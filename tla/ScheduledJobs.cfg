\* The schedule and a wipe with its reset at once; a company comes, trades and goes.
CONSTANTS
  t1 = t1
  w1 = w1
  o1 = o1
  Ticks = {t1}
  Seeds = {}
  Wipes = {w1}
  Outsiders = {o1}
  People = {o1}
  Nobody = nobody
  MaxFailures = 1
  MaxRefusals = 1
  STALE_SIGNUP_BATCH = 1
SPECIFICATION Spec
INVARIANTS
  OneDemoSet
  
PROPERTIES
  OutsidersAreTold
  JobsAreDone
