\* Doing the work: two companies, two rounds, uploads that outlive a submission.
CONSTANTS
  Companies = {c1, c2}
  Client = client
  Terms <- MCOneTerm
  Files = {f1}
  Texts = {x1}
  Areas = {a1}
  Readers = {client}
  Null = null
  StampGaps = {1}
  MaxClock = 2
  MaxDay = 1
  MaxRound = 2
  MaxDrafts = 1
  MaxUploads = 2
SYMMETRY MCSymmetry
SPECIFICATION MachineSpec
INVARIANTS
  TypeOK
  ButtonsAgree
  FilesShownAreServed
  
PROPERTIES
  RemovalIsTold
  ScreensAreTold
  KeepsLifecycle
CHECK_DEADLOCK FALSE
