----------------------------- MODULE FileUploads -----------------------------
(***************************************************************************)
(* Attaching files to orders and removing them: the rows in the database,  *)
(* the objects in the bucket, the storage quotas, the space reserved for   *)
(* uploads on their way, and the clean-up after a failure (FilesService,   *)
(* StorageReservations, Semaphore, StorageService, and the removal of an   *)
(* order with its files in OrdersService).                                 *)
(*                                                                         *)
(* Every await is a point where other requests run, so a request is a      *)
(* sequence of steps.  A transaction of an order runs in the order's       *)
(* queue, so two of one order never overlap (module KeyedQueue).  The key  *)
(* of an object has the place (the order and the round), the content (its  *)
(* hash) and the name of the file; the database allows one row per place   *)
(* and content.  Each request arrives once.                                *)
(***************************************************************************)
EXTENDS Naturals, FiniteSets

CONSTANTS
  Orders, Clients, Service,
  clientOf,       \* the client of each order
  Requests,       \* requests with files
  Creators,       \* those that create their order; the others upload work
  orderOf,        \* the order of each request
  Files,          \* records [hash, name]
  size,           \* the size of each content
  Batches,        \* for each request, the sets of files that it may bring
  limit,          \* the quota of each order, client and of the service
  MaxParallelUploads,
  Removable,      \* orders in a status in which the client may delete them
  MayFail         \* whether the bucket, the database and a caller's guard may fail

Accounts == Orders \union Clients \union {Service}

Keys == Orders \X Files

ASSUME UploadsAssumption ==
  /\ clientOf \in [Orders -> Clients]
  /\ Orders \intersect (Clients \union {Service}) = {}
  /\ Creators \subseteq Requests /\ orderOf \in [Requests -> Orders]
  /\ \A q, r \in Creators : orderOf[q] = orderOf[r] => q = r
  /\ \A f \in Files : size[f.hash] \in Nat
  /\ Batches \in [Requests -> SUBSET (SUBSET Files)]
  /\ \A r \in Requests : \A B \in Batches[r] : IsFiniteSet(B)
  /\ limit \in [Accounts -> Nat]
  /\ MaxParallelUploads \in Nat \ {0}
  /\ Removable \subseteq Orders /\ MayFail \in BOOLEAN

VARIABLES
  orders,    \* orders that exist
  rows,      \* keys with a row in OrderFile
  objects,   \* keys with an object in the bucket
  logged,    \* keys whose clean-up failed, as the log says
  pending,   \* StorageReservations: bytes promised, by account
  inTx,      \* orders with a transaction of an upload under way
  active,    \* the semaphore uploadSlots
  req,       \* the requests
  removal    \* the removals of orders, each with the keys it read

vars == <<orders, rows, objects, logged, pending, inTx, active, req, removal>>

database == <<orders, rows>>
bucket == <<objects, logged>>
memory == <<pending, inTx, active>>

-----------------------------------------------------------------------------
(* Space *)

accountsOf(o) == {o, clientOf[o], Service}

\* The bytes of files, one by one, and their number.
bytesOf(K) == UNION {{k} \X (1..size[k[2].hash]) : k \in K}
Bytes(K) == Cardinality(bytesOf(K))

keysIn(K, a) == {k \in K : a \in accountsOf(k[1])}

\* readStorageUsage: what the rows take, for each of the three accounts.
readStorageUsage(o) ==
  [a \in Accounts |-> IF a \in accountsOf(o) THEN Bytes(keysIn(rows, a)) ELSE 0]

\* checkStorageQuota: more bytes would fit within all three.
checkStorageQuota(o, used, bytes) == \A a \in accountsOf(o) : used[a] + bytes <= limit[a]

promised(o) == [a \in Accounts |-> IF a \in accountsOf(o) THEN pending[a] ELSE 0]

addUsage(u, v) == [a \in Accounts |-> u[a] + v[a]]

reserved(o, bytes) == [a \in Accounts |-> pending[a] + (IF a \in accountsOf(o) THEN bytes ELSE 0)]

SlipReleased(o, bytes) == [pending EXCEPT ![o] = @ - bytes, ![Service] = @ - bytes]
released(o, bytes) == [a \in Accounts |-> pending[a] - (IF a \in accountsOf(o) THEN bytes ELSE 0)]

-----------------------------------------------------------------------------
(* A request with files *)

Idle == [at |-> "idle", fresh |-> {}, left |-> {}, usage |-> [a \in Accounts |-> 0]]

Init ==
  /\ orders = Orders \ {orderOf[r] : r \in Creators}
  /\ rows = {} /\ objects = {} /\ logged = {}
  /\ pending = [a \in Accounts |-> 0]
  /\ inTx = {} /\ active = 0
  /\ req = [r \in Requests |-> Idle]
  /\ removal = [o \in Orders |-> [at |-> "none", keys |-> {}]]

goes(r, here) == req' = [req EXCEPT ![r].at = here]

sameContent(k, l) == k[1] = l[1] /\ k[2].hash = l[2].hash

hasRow(k) == \E l \in rows : sameContent(k, l)

\* The end of attachFiles: the space is given back; a failed creation goes on to
\* undo the order.
leaves(r, failed) ==
  /\ pending' = released(orderOf[r], Bytes(req[r].fresh))
  /\ goes(r, IF failed /\ r \in Creators THEN "undoing" ELSE "done")

\* create() inserts the order first; then, for every request, dropDuplicates
\* leaves one of equal files and drops what this place already has.
Start(r) ==
  LET o == orderOf[r] IN
  /\ req[r].at = "idle" /\ (r \in Creators <=> o \notin orders)
  /\ orders' = orders \union {o}
  /\ \E B \in Batches[r] : \E U \in SUBSET B :
       /\ \A f \in B : \E g \in U : g.hash = f.hash
       /\ \A f, g \in U : f.hash = g.hash => f = g
       /\ LET fresh == {k \in {o} \X U : ~hasRow(k)} IN
          req' = [req EXCEPT ![r].fresh = fresh, ![r].left = fresh,
                    ![r].at = IF fresh = {} THEN "done" ELSE "measuring"]
  /\ UNCHANGED <<rows, bucket, memory, removal>>

\* The first half of reserveStorage: the usage is read; without the order the
\* request fails before anything was promised.
Measure(r) ==
  LET o == orderOf[r] IN
  /\ req[r].at = "measuring"
  /\ \/ o \in orders
        /\ req' = [req EXCEPT ![r].usage = readStorageUsage(o), ![r].at = "measured"]
     \/ o \notin orders /\ goes(r, "done")
  /\ UNCHANGED <<database, bucket, memory, removal>>

\* The second half, in one go: the usage that was read, with what is promised
\* now, decides, and the space is promised.
Reserve(r) ==
  LET o == orderOf[r]
      bytes == Bytes(req[r].fresh)
      fits == checkStorageQuota(o, addUsage(req[r].usage, promised(o)), bytes) IN
  /\ req[r].at = "measured"
  /\ \/ fits /\ pending' = reserved(o, bytes) /\ goes(r, "uploading")
     \/ ~fits /\ UNCHANGED pending /\ goes(r, IF r \in Creators THEN "undoing" ELSE "done")
  /\ UNCHANGED <<database, bucket, inTx, active, removal>>

\* The files of a request go one after another, in some order.
nextKey(r) == CHOOSE k \in req[r].left : TRUE

\* uploadSlots.run: the next file of the request goes to the bucket.
StartPut(r) ==
  /\ req[r].at = "uploading" /\ req[r].left # {}
  /\ active < MaxParallelUploads
  /\ active' = active + 1
  /\ goes(r, "putting")
  /\ UNCHANGED <<database, bucket, pending, inTx, removal>>

EndPut(r) ==
  /\ req[r].at = "putting"
  /\ objects' = objects \union {nextKey(r)}
  /\ req' = [req EXCEPT ![r].left = @ \ {nextKey(r)}, ![r].at = "uploading"]
  /\ active' = active - 1
  /\ UNCHANGED <<database, logged, pending, inTx, removal>>

SlipSlotAfterFailure == active
slotAfterFailure == active - 1

\* The bucket reports an error; the object may have got there all the same.
FailPut(r) ==
  /\ MayFail /\ req[r].at = "putting"
  /\ objects' \in {objects, objects \union {nextKey(r)}}
  /\ active' = slotAfterFailure
  /\ goes(r, "sweeping")
  /\ UNCHANGED <<database, logged, pending, inTx, removal>>

SlipStillFits(r) == TRUE
\* assertStorageQuota: by the rows alone, in the transaction of the insertion.
stillFits(r) == checkStorageQuota(orderOf[r], readStorageUsage(orderOf[r]), Bytes(req[r].fresh))

uploaded(r) == req[r].at = "uploading" /\ req[r].left = {}

\* The transaction begins, in the queue of the order, and reads the usage.
BeginTx(r) ==
  LET o == orderOf[r] IN
  /\ uploaded(r) /\ o \notin inTx
  /\ \/ o \in orders /\ stillFits(r) /\ inTx' = inTx \union {o} /\ goes(r, "inserting")
     \/ (o \notin orders \/ ~stillFits(r)) /\ UNCHANGED inTx /\ goes(r, "sweeping")
  /\ UNCHANGED <<database, bucket, pending, active, removal>>

\* The caller's guard refuses, the queue is full or the database fails.
FailTx(r) ==
  /\ MayFail
  /\ \/ uploaded(r) /\ UNCHANGED inTx
     \/ req[r].at = "inserting" /\ inTx' = inTx \ {orderOf[r]}
  /\ goes(r, "sweeping")
  /\ UNCHANGED <<database, bucket, pending, active, removal>>

\* createManyAndReturn with skipDuplicates, and the commit.
CommitTx(r) ==
  LET created == {k \in req[r].fresh : ~hasRow(k)} IN
  /\ req[r].at = "inserting"
  /\ rows' = rows \union created
  /\ goes(r, IF created = req[r].fresh THEN "inserted" ELSE "insertedPart")
  /\ UNCHANGED <<orders, bucket, memory, removal>>

\* The request hears of the commit.  Files that somebody else inserted meanwhile
\* may have left objects behind.
Committed(r) ==
  /\ req[r].at \in {"inserted", "insertedPart"}
  /\ inTx' = inTx \ {orderOf[r]}
  /\ \/ req[r].at = "inserted" /\ leaves(r, FALSE)
     \/ req[r].at = "insertedPart" /\ goes(r, "sweepingPart") /\ UNCHANGED pending
  /\ UNCHANGED <<database, bucket, active, removal>>

SlipOrphansByContent(r) == {k \in req[r].fresh : ~hasRow(k)}
\* The keys of the request that no row uses.
orphans(r) == req[r].fresh \ rows

sweeping(r) == req[r].at \in {"sweeping", "sweepingPart"}

\* removeOrphanObjects asks the database which keys are in use, and then ...
ReadLive(r) ==
  /\ sweeping(r)
  /\ req' = [req EXCEPT ![r].left = orphans(r),
               ![r].at = IF @ = "sweeping" THEN "removing" ELSE "removingPart"]
  /\ UNCHANGED <<database, bucket, memory, removal>>

removing(r) == req[r].at \in {"removing", "removingPart"}

\* ... removes the others from the bucket.
RemoveOrphans(r) ==
  /\ removing(r)
  /\ objects' = objects \ req[r].left
  /\ leaves(r, req[r].at = "removing")
  /\ UNCHANGED <<database, logged, inTx, active, removal>>

\* The clean-up itself fails: it is logged, and the request ends as it would have.
FailSweep(r) ==
  /\ MayFail
  /\ \/ sweeping(r) /\ logged' = logged \union req[r].fresh
     \/ removing(r) /\ logged' = logged \union req[r].left
  /\ leaves(r, req[r].at \in {"sweeping", "removing"})
  /\ UNCHANGED <<database, objects, inTx, active, removal>>

\* A creation that failed on its files deletes the order; the rows go with it.
Undo(r) ==
  LET o == orderOf[r] IN
  /\ req[r].at = "undoing" /\ o \notin inTx
  /\ orders' = orders \ {o}
  /\ rows' = {k \in rows : k[1] # o}
  /\ goes(r, "done")
  /\ UNCHANGED <<bucket, memory, removal>>

-----------------------------------------------------------------------------
(* The removal of an order *)

\* listStorageKeys, before the order and its rows are gone.
ListKeys(o) ==
  /\ o \in Removable /\ o \in orders /\ removal[o].at = "none"
  /\ removal' = [removal EXCEPT ![o] = [at |-> "listed", keys |-> {k \in rows : k[1] = o}]]
  /\ UNCHANGED <<database, bucket, memory, req>>

\* The transaction that deletes the order, in its queue; it is refused when the
\* order has gone or moved on meanwhile (module OrderLifecycle).
DeleteOrder(o) ==
  /\ removal[o].at = "listed" /\ o \notin inTx
  /\ \/ /\ o \in orders
        /\ orders' = orders \ {o}
        /\ rows' = {k \in rows : k[1] # o}
        /\ removal' = [removal EXCEPT ![o].at = "deleted"]
     \/ removal' = [removal EXCEPT ![o].at = "refused"] /\ UNCHANGED database
  /\ UNCHANGED <<bucket, memory, req>>

\* removeStorageObjects: a failure is logged and changes nothing else.
RemoveObjects(o) ==
  /\ removal[o].at = "deleted"
  /\ \/ objects' = objects \ removal[o].keys /\ UNCHANGED logged
     \/ MayFail /\ logged' = logged \union removal[o].keys /\ UNCHANGED objects
  /\ removal' = [removal EXCEPT ![o].at = "done"]
  /\ UNCHANGED <<database, memory, req>>

Step(r) ==
  \/ Measure(r) \/ Reserve(r) \/ StartPut(r) \/ EndPut(r) \/ FailPut(r)
  \/ BeginTx(r) \/ FailTx(r) \/ CommitTx(r) \/ Committed(r)
  \/ ReadLive(r) \/ RemoveOrphans(r) \/ FailSweep(r) \/ Undo(r)

Next ==
  \/ \E r \in Requests : Start(r) \/ Step(r)
  \/ \E o \in Orders : ListKeys(o) \/ DeleteOrder(o) \/ RemoveObjects(o)

Spec == Init /\ [][Next]_vars

\* The process does not stand still while a request can go on: the bucket and the
\* database answer, with a result or an error.
FairSpec == Spec /\ WF_vars(\E r \in Requests : Step(r))

-----------------------------------------------------------------------------
(* Properties *)

Places == {"idle", "measuring", "measured", "uploading", "putting", "inserting", "inserted",
           "insertedPart", "sweeping", "sweepingPart", "removing", "removingPart", "undoing", "done"}

TypeOK ==
  /\ orders \subseteq Orders
  /\ rows \subseteq Keys /\ objects \subseteq Keys /\ logged \subseteq Keys
  /\ pending \in [Accounts -> Nat]
  /\ inTx \subseteq Orders /\ active \in 0..MaxParallelUploads
  /\ req \in [Requests -> [at : Places, fresh : SUBSET Keys, left : SUBSET Keys,
                          usage : [Accounts -> Nat]]]
  /\ removal \in [Orders -> [at : {"none", "listed", "refused", "deleted", "done"},
                              keys : SUBSET Keys]]

\* A request that has space promised to it.
holdsSpace(r) == req[r].at \notin {"idle", "measuring", "measured", "undoing", "done"}

\* The rows of an order never take more than its quota, whatever was promised or
\* measured before: the last check is made where nobody else inserts.
OrderWithinQuota == \A o \in Orders : Bytes(keysIn(rows, o)) <= limit[o]

\* What is promised is what the requests on their way will bring, in each of the
\* accounts: no failure on any path leaves space promised for ever.
PromisesAreKept ==
  \A a \in Accounts :
    pending[a] = Cardinality(UNION {{r} \X bytesOf(req[r].fresh) :
                   r \in {r \in Requests : holdsSpace(r) /\ a \in accountsOf(orderOf[r])}})

\* A row whose file nobody else brings to the same place has its object from the
\* moment it exists.
LonelyRowHasObject ==
  \A k \in rows : k \notin objects =>
    \E q, r \in Requests : q # r /\ k \in req[q].fresh \intersect req[r].fresh

\* An object without a row belongs to a request on its way or to a removal under
\* way, or the log says that its clean-up failed, or its order went without it:
\* its creation was undone, or the removal had read the keys before the row came.
LeftoversAccounted ==
  \A k \in objects \ rows :
    \/ \E r \in Requests : holdsSpace(r) /\ k \in req[r].fresh
    \/ k \in logged
    \/ removal[k[1]].at = "deleted" /\ k \in removal[k[1]].keys
    \/ k[1] \notin orders /\ ~(removal[k[1]].at \in {"deleted", "done"} /\ k \in removal[k[1]].keys)

\* The bucket follows the table, though uploads, clean-ups and removals change
\* one after the other, with other requests in between: no lonely row is left
\* without its object, and no object without a row goes unaccounted for.
BucketFollowsTable == LonelyRowHasObject /\ LeftoversAccounted

\* A request that has begun ends: no failure keeps a slot, a queue or a promise
\* that another one waits for.
EveryRequestEnds == \A r \in Requests : req[r].at # "idle" ~> req[r].at = "done"

=============================================================================
