\* Two tabs, two files, two requests, two submissions.
CONSTANTS
  Tabs = {left, right}
  Files = {plan, facade}
  NameOf <- MCOwnNames
  Nothing = nothing
  MaxRequests = 2
  MaxRounds = 2
SYMMETRY Symmetric
SPECIFICATION Spec
PROPERTIES
  AddedFilesAreTold
  DraftsAreKept
CHECK_DEADLOCK FALSE
