\* Two uploads of work and a creation, with failures everywhere.
SPECIFICATION FairSpec
CONSTANTS
  Orders = {"house", "flat"}
  Clients = {"anna"}
  Service = "service"
  clientOf <- MCClientOf
  Requests = {"r1", "r2", "r3"}
  Creators = {"r3"}
  orderOf <- MCOrderOf
  Files <- MCFiles
  size <- MCSize
  Batches <- MCBatches
  limit <- MCLimit
  MaxParallelUploads = 1
  Removable = {"flat"}
  MayFail = TRUE
INVARIANTS OrderWithinQuota PromisesAreKept BucketFollowsTable
PROPERTY EveryRequestEnds
CHECK_DEADLOCK FALSE
