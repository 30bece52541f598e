\* What visitors can make of the six orders of the demo.
CONSTANTS
  stroygrad = stroygrad
  remont = remont
  arch = arch
  Companies = {stroygrad, remont, arch}
  Client = client
  visitorsPrice = 1
  Terms <- MCTerms
  plan = drawing
  firstWork = drawing
  lastWork = photo
  Files = {drawing, photo}
  remark = remark
  Texts = {remark}
  measured = measured
  Areas = {measured}
  Readers = {}
  Null = null
  Today = 10
  StampGaps = {1}
  MaxClock = 1
  MaxDay = 10
  MaxRound = 2
  MaxDrafts = 1
  MaxUploads = 1
SPECIFICATION DemoSpec
CHECK_DEADLOCK FALSE
INVARIANTS
  SelectionConsistent
  RoundsFollowStatus
PROPERTIES
  StrangersSeeNoProgress
  SubmittedRoundFrozen
