\* Choosing an executor: two companies, edits, stale tabs, and a client who reads
\* notifications at any moment.
CONSTANTS
  Companies = {c1, c2}
  Client = client
  Terms <- MCTerms
  Files = {}
  Texts = {}
  Areas = {}
  Readers = {client}
  Null = null
  StampGaps = {1}
  MaxClock = 3
  MaxDay = 1
  MaxRound = 1
  MaxDrafts = 3
  MaxUploads = 0
SYMMETRY MCSymmetry
SPECIFICATION Spec
INVARIANTS
  SelectionConsistent
  FinalRejectionHolds
  DoorsAgree
  FateIsAnnounced
  RefusalsPointTheWay
PROPERTIES
  DealAsSeen
CHECK_DEADLOCK FALSE
