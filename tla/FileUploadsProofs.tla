------------------------- MODULE FileUploadsProofs -------------------------
(***************************************************************************)
(* Proofs about FileUploads, for any number of orders, requests and files: *)
(* the rows of an order stay within its quota, the space promised is what  *)
(* the requests on their way will bring, and the bucket follows the table. *)
(*                                                                         *)
(* The quota rests on transactions of an order that do not overlap         *)
(* (Alone): what the last check read still stands at the insertion         *)
(* (StillFitting).  The promises rest on one holding of space per request. *)
(* The bucket rests on two records: which object is under whose care       *)
(* (Accounted), and who else brings a file that is swept (Uploaded, Swept).*)
(***************************************************************************)
EXTENDS FileUploads, FiniteSetTheorems, TLAPS

inTransaction(r) == req[r].at \in {"inserting", "inserted", "insertedPart"}

\* What requests have promised to them in an account, byte by byte.
holders(a) == {r \in Requests : holdsSpace(r) /\ a \in accountsOf(orderOf[r])}
heldBy(R) == UNION {{r} \X bytesOf(req[r].fresh) : r \in R}
held(a) == heldBy(holders(a))

putting == {r \in Requests : req[r].at = "putting"}

\* The request that creates order o, if any, has begun.
begun(o) == \A c \in Creators : orderOf[c] = o => req[c].at # "idle"

shared(k) == \E q, r \in Requests : q # r /\ k \in req[q].fresh \intersect req[r].fresh

\* Request r will take care of the object k: insert its row or remove it.
caresFor(r, k) == holdsSpace(r) /\ k \in req[r].fresh /\ (removing(r) => k \in req[r].left)

removedWith(k) == removal[k[1]].at \in {"deleted", "done"} /\ k \in removal[k[1]].keys

-----------------------------------------------------------------------------
(* The inductive invariant *)

\* The files of a request are of its order, and finitely many, as the rows are.
OwnFiles ==
  /\ IsFiniteSet(rows)
  /\ \A r \in Requests :
       /\ req[r].fresh \subseteq {orderOf[r]} \X Files /\ IsFiniteSet(req[r].fresh)
       /\ req[r].left \subseteq req[r].fresh
       /\ req[r].at = "idle" => req[r].fresh = {}
       /\ req[r].at = "putting" => req[r].left # {}
       /\ req[r].at = "inserting" => req[r].left = {}

RowsHaveOrder == \A k \in rows : k[1] \in orders

\* Transactions of one order do not overlap, and their order stays.
Alone ==
  /\ \A r \in Requests : inTransaction(r) => orderOf[r] \in inTx /\ orderOf[r] \in orders
  /\ \A q, r \in Requests :
       inTransaction(q) /\ inTransaction(r) /\ orderOf[q] = orderOf[r] => q = r

\* What the last check read stands until the insertion.
StillFitting ==
  \A r \in Requests : req[r].at = "inserting" =>
    Bytes(keysIn(rows, orderOf[r])) + Bytes(req[r].fresh) <= limit[orderOf[r]]

Promised ==
  \A a \in Accounts : IsFiniteSet(held(a)) /\ pending[a] = Cardinality(held(a))

\* Each slot is held by one file on its way to the bucket.
SlotsHeld == IsFiniteSet(putting) /\ active = Cardinality(putting)

\* An order does not return: what has to do with it has begun with its creation.
NoReturn ==
  /\ \A o \in orders : begun(o)
  /\ \A r \in Requests : req[r].at # "idle" => begun(orderOf[r])
  /\ \A o \in Orders : removal[o].at # "none" => begun(o)

Removals ==
  \A o \in Orders :
    /\ removal[o].keys \subseteq {o} \X Files
    /\ removal[o].at \in {"deleted", "done"} => o \notin orders

\* What the bucket holds was brought by a request.
Brought == \A k \in objects : \E r \in Requests : k \in req[r].fresh

Inserted == \A r \in Requests : req[r].at = "inserted" => req[r].fresh \subseteq rows

\* What a request has uploaded is there, unless another one brought it as well.
Uploaded ==
  \A r \in Requests : \A k \in req[r].fresh \ req[r].left :
    req[r].at \in {"measuring", "measured", "uploading", "putting", "inserting"}
    /\ orderOf[r] \in orders
      => k \in objects \/ shared(k)

\* What a clean-up is about to remove got a row only from another request.
Swept ==
  \A r \in Requests : removing(r) => \A k \in req[r].left \intersect rows : shared(k)

RowsHaveObjects == \A k \in rows : k \in objects \/ shared(k)

Accounted ==
  \A k \in objects \ rows :
    \/ \E r \in Requests : caresFor(r, k)
    \/ k \in logged
    \/ removal[k[1]].at = "deleted" /\ k \in removal[k[1]].keys
    \/ k[1] \notin orders /\ ~removedWith(k)

BucketInv == /\ NoReturn /\ Removals /\ Brought /\ Inserted
             /\ Uploaded /\ Swept /\ RowsHaveObjects /\ Accounted

IInv ==
  /\ TypeOK /\ OwnFiles /\ RowsHaveOrder /\ Alone /\ StillFitting /\ OrderWithinQuota
  /\ Promised /\ SlotsHeld /\ BucketInv

-----------------------------------------------------------------------------
(* Bytes and keys *)

\* The bytes of finitely many files are finitely many.
LEMMA BytesFinite ==
  ASSUME NEW K \in SUBSET Keys, IsFiniteSet(K)
  PROVE  IsFiniteSet(bytesOf(K)) /\ Bytes(K) \in Nat
<1> DEFINE of == [k \in K |-> {k} \X (1..size[k[2].hash])]
           all == {{k} \X (1..size[k[2].hash]) : k \in K}
<1>1. of \in Surjection(K, all)
  BY DEF Surjection
<1>2. IsFiniteSet(all)
  BY <1>1, FS_Surjection
<1>3. ASSUME NEW T \in all PROVE IsFiniteSet(T)
  <2>1. PICK k \in K : T = {k} \X (1..size[k[2].hash])
    OBVIOUS
  <2>2. k[2] \in Files
    BY DEF Keys
  <2>3. size[k[2].hash] \in Nat
    BY <2>2, UploadsAssumption
  <2>4. IsFiniteSet({k}) /\ IsFiniteSet(1..size[k[2].hash])
    <3>1. 1 \in Int /\ size[k[2].hash] \in Int
      BY <2>3
    <3> QED BY <3>1, FS_Singleton, FS_Interval
  <2> QED BY <2>1, <2>4, FS_Product
<1>4. IsFiniteSet(UNION all)
  BY <1>2, <1>3, FS_UNION
<1> QED BY <1>4, FS_CardinalityType DEF bytesOf, Bytes

LEMMA BytesOfUnion ==
  ASSUME NEW K \in SUBSET Keys, NEW L \in SUBSET Keys, IsFiniteSet(K), IsFiniteSet(L)
  PROVE  Bytes(K \union L) <= Bytes(K) + Bytes(L)
<1>1. bytesOf(K \union L) = bytesOf(K) \union bytesOf(L)
  BY DEF bytesOf
<1>2. IsFiniteSet(bytesOf(K)) /\ IsFiniteSet(bytesOf(L))
  BY BytesFinite
<1>3. Cardinality(bytesOf(K) \union bytesOf(L))
        = Cardinality(bytesOf(K)) + Cardinality(bytesOf(L)) - Cardinality(bytesOf(K) \cap bytesOf(L))
  BY <1>2, FS_Union
<1>4. IsFiniteSet(bytesOf(K) \cap bytesOf(L))
  BY <1>2, FS_Intersection
<1>5. Cardinality(bytesOf(K)) \in Nat /\ Cardinality(bytesOf(L)) \in Nat
      /\ Cardinality(bytesOf(K) \cap bytesOf(L)) \in Nat
  BY <1>2, <1>4, FS_CardinalityType
<1>6. Bytes(K) = Cardinality(bytesOf(K)) /\ Bytes(L) = Cardinality(bytesOf(L))
      /\ Bytes(K \union L) = Cardinality(bytesOf(K) \union bytesOf(L))
  BY <1>1 DEF Bytes
<1> QED BY <1>3, <1>5, <1>6

LEMMA BytesOfPart ==
  ASSUME NEW K \in SUBSET Keys, IsFiniteSet(K), NEW L \in SUBSET K
  PROVE  IsFiniteSet(L) /\ Bytes(L) <= Bytes(K)
<1>1. bytesOf(L) \subseteq bytesOf(K)
  BY DEF bytesOf
<1>2. IsFiniteSet(bytesOf(K))
  BY BytesFinite
<1> QED BY <1>1, <1>2, FS_Subset DEF Bytes

\* The space of an order is taken by its own files alone.
LEMMA OwnSpace ==
  ASSUME NEW o \in Orders, NEW K \in SUBSET Keys
  PROVE  keysIn(K, o) = {k \in K : k[1] = o}
<1>1. ASSUME NEW k \in K PROVE o \in accountsOf(k[1]) <=> k[1] = o
  <2>1. k[1] \in Orders /\ clientOf[k[1]] \in Clients
    BY UploadsAssumption DEF Keys
  <2> QED BY <2>1, UploadsAssumption DEF accountsOf
<1> QED BY <1>1 DEF keysIn

LEMMA AccountsOfOrders ==
  ASSUME NEW o \in Orders
  PROVE  accountsOf(o) \subseteq Accounts /\ o \in accountsOf(o) /\ o \in Accounts
BY UploadsAssumption DEF accountsOf, Accounts

-----------------------------------------------------------------------------
(* What a step of a request leaves alone *)

RequestType == [at : Places, fresh : SUBSET Keys, left : SUBSET Keys, usage : [Accounts -> Nat]]

LEMMA UsageType ==
  ASSUME TypeOK, OwnFiles, NEW o \in Orders
  PROVE  readStorageUsage(o) \in [Accounts -> Nat]
<1>1. ASSUME NEW a \in Accounts PROVE Bytes(keysIn(rows, a)) \in Nat
  <2>1. keysIn(rows, a) \in SUBSET rows /\ keysIn(rows, a) \in SUBSET Keys
    BY DEF keysIn, TypeOK
  <2>2. IsFiniteSet(keysIn(rows, a))
    BY <2>1, FS_Subset DEF OwnFiles
  <2> QED BY <2>1, <2>2, BytesFinite
<1> QED BY <1>1 DEF readStorageUsage

LEMMA GoesEffect ==
  ASSUME TypeOK, NEW r \in Requests, NEW here \in Places, goes(r, here)
  PROVE  /\ req' \in [Requests -> RequestType]
         /\ \A q \in Requests : q # r => req'[q] = req[q]
         /\ req'[r].at = here /\ req'[r].fresh = req[r].fresh /\ req'[r].left = req[r].left
BY DEF goes, TypeOK, RequestType

LEMMA StepEffect ==
  ASSUME TypeOK, OwnFiles, NEW r \in Requests, Step(r)
  PROVE  /\ req' \in [Requests -> RequestType]
         /\ \A q \in Requests : q # r => req'[q] = req[q]
         /\ req'[r].fresh = req[r].fresh
         /\ req[r].at # "idle" /\ req'[r].at # "idle"
         /\ ~EndPut(r) /\ ~ReadLive(r) => req'[r].left = req[r].left
<1>1. CASE Measure(r)
  <2>1. readStorageUsage(orderOf[r]) \in [Accounts -> Nat]
    BY UsageType, UploadsAssumption
  <2>2. "measured" \in Places /\ "done" \in Places
    BY DEF Places
  <2>3. CASE goes(r, "done")
    BY <1>1, <2>2, <2>3, GoesEffect DEF Measure
  <2>4. CASE req' = [req EXCEPT ![r].usage = readStorageUsage(orderOf[r]), ![r].at = "measured"]
    BY <1>1, <2>1, <2>2, <2>4 DEF Measure, TypeOK, RequestType
  <2> QED BY <1>1, <2>3, <2>4 DEF Measure
<1>2. CASE EndPut(r)
  BY <1>2 DEF EndPut, TypeOK, RequestType, Places
<1>3. CASE ReadLive(r)
  <2>1. orphans(r) \in SUBSET Keys
    BY DEF orphans, TypeOK
  <2> QED BY <1>3, <2>1 DEF ReadLive, sweeping, TypeOK, RequestType, Places
<1>4. CASE Reserve(r) \/ StartPut(r) \/ FailPut(r) \/ BeginTx(r) \/ FailTx(r) \/ CommitTx(r)
           \/ Committed(r) \/ RemoveOrphans(r) \/ FailSweep(r) \/ Undo(r)
  <2>1. req[r].at # "idle" /\ \E here \in Places \ {"idle"} : goes(r, here)
    BY <1>4 DEF Reserve, StartPut, FailPut, BeginTx, FailTx, CommitTx, Committed, RemoveOrphans,
                FailSweep, Undo, leaves, uploaded, sweeping, removing, Places
  <2> QED BY <2>1, GoesEffect
<1> QED BY <1>1, <1>2, <1>3, <1>4 DEF Step

LEMMA StartEffect ==
  ASSUME TypeOK, OwnFiles, NEW r \in Requests, Start(r)
  PROVE  /\ req' \in [Requests -> RequestType]
         /\ \A q \in Requests : q # r => req'[q] = req[q]
         /\ req[r].at = "idle" /\ req[r].fresh = {} /\ req'[r].at \in {"measuring", "done"}
         /\ req'[r].fresh \subseteq {orderOf[r]} \X Files /\ IsFiniteSet(req'[r].fresh)
         /\ req'[r].left = req'[r].fresh
<1> DEFINE o == orderOf[r]
<1>1. PICK B \in Batches[r] : \E U \in SUBSET B :
         LET fresh == {k \in {o} \X U : ~hasRow(k)} IN
         req' = [req EXCEPT ![r].fresh = fresh, ![r].left = fresh,
                   ![r].at = IF fresh = {} THEN "done" ELSE "measuring"]
  BY DEF Start
<1>2. PICK U \in SUBSET B :
         LET fresh == {k \in {o} \X U : ~hasRow(k)} IN
         req' = [req EXCEPT ![r].fresh = fresh, ![r].left = fresh,
                   ![r].at = IF fresh = {} THEN "done" ELSE "measuring"]
  BY <1>1
<1> DEFINE fresh == {k \in {o} \X U : ~hasRow(k)}
<1>3. o \in Orders /\ B \subseteq Files /\ IsFiniteSet(B)
  BY UploadsAssumption
<1>4. fresh \subseteq {o} \X Files /\ fresh \subseteq Keys
  BY <1>3 DEF Keys
<1>5. IsFiniteSet(fresh)
  <2>1. IsFiniteSet(U) /\ IsFiniteSet({o})
    BY <1>3, FS_Subset, FS_Singleton
  <2>2. IsFiniteSet({o} \X U)
    BY <2>1, FS_Product
  <2> QED BY <2>2, FS_Subset
<1>6. req[r].at = "idle" /\ req[r].fresh = {}
  BY DEF Start, OwnFiles
<1> HIDE DEF fresh
<1> DEFINE here == IF fresh = {} THEN "done" ELSE "measuring"
<1>7. req' = [req EXCEPT ![r].fresh = fresh, ![r].left = fresh, ![r].at = here]
  BY <1>2 DEF fresh
<1>8. here \in {"measuring", "done"}
  OBVIOUS
<1> HIDE DEF here
<1>9. /\ req' \in [Requests -> RequestType]
      /\ \A q \in Requests : q # r => req'[q] = req[q]
      /\ req'[r].at = here /\ req'[r].fresh = fresh /\ req'[r].left = fresh
  BY <1>4, <1>7, <1>8, ZenonT(60) DEF TypeOK, RequestType, Places
<1> QED BY <1>4, <1>5, <1>6, <1>8, <1>9

LEMMA StepFrame ==
  ASSUME NEW r \in Requests, Step(r)
  PROVE  /\ removal' = removal
         /\ ~Undo(r) => orders' = orders
         /\ ~CommitTx(r) /\ ~Undo(r) => rows' = rows
         /\ ~EndPut(r) /\ ~FailPut(r) /\ ~RemoveOrphans(r) => objects' = objects
         /\ ~FailSweep(r) => logged' = logged
         /\ ~Reserve(r) /\ ~Committed(r) /\ ~RemoveOrphans(r) /\ ~FailSweep(r) => pending' = pending
         /\ ~StartPut(r) /\ ~EndPut(r) /\ ~FailPut(r) => active' = active
         /\ ~BeginTx(r) /\ ~FailTx(r) /\ ~Committed(r) => inTx' = inTx
<1>1. CASE Measure(r) \/ Reserve(r) \/ StartPut(r) \/ EndPut(r) \/ FailPut(r)
  BY <1>1 DEF Measure, Reserve, StartPut, EndPut, FailPut, database, bucket, memory
<1>2. CASE BeginTx(r) \/ FailTx(r) \/ CommitTx(r) \/ Committed(r)
  BY <1>2 DEF BeginTx, FailTx, CommitTx, Committed, database, bucket, memory
<1>3. CASE ReadLive(r) \/ RemoveOrphans(r) \/ FailSweep(r) \/ Undo(r)
  BY <1>3 DEF ReadLive, RemoveOrphans, FailSweep, Undo, database, bucket, memory
<1> QED BY <1>1, <1>2, <1>3 DEF Step

\* A step of the removal of an order, or none at all.
RemovalStep(o) == ListKeys(o) \/ DeleteOrder(o) \/ RemoveObjects(o)

LEMMA RemovalFrame ==
  ASSUME NEW o \in Orders, RemovalStep(o)
  PROVE  /\ UNCHANGED <<pending, inTx, active, req>>
         /\ ~DeleteOrder(o) => orders' = orders /\ rows' = rows
         /\ ~RemoveObjects(o) => objects' = objects /\ logged' = logged
BY DEF RemovalStep, ListKeys, DeleteOrder, RemoveObjects, database, bucket, memory

LEMMA StartFrame ==
  ASSUME NEW r \in Requests, Start(r)
  PROVE  /\ UNCHANGED <<rows, objects, logged, pending, inTx, active, removal>>
         /\ orders' = orders \union {orderOf[r]} /\ (r \in Creators <=> orderOf[r] \notin orders)
BY DEF Start, bucket, memory

insertedBy(r) == {k \in req[r].fresh : ~hasRow(k)}

LEMMA Inserts ==
  ASSUME TypeOK, OwnFiles, NEW r \in Requests, CommitTx(r)
  PROVE  /\ rows' = rows \union insertedBy(r) /\ IsFiniteSet(rows')
         /\ insertedBy(r) \subseteq req[r].fresh /\ insertedBy(r) \subseteq {orderOf[r]} \X Files
         /\ req[r].at = "inserting"
         /\ req'[r].at = IF insertedBy(r) = req[r].fresh THEN "inserted" ELSE "insertedPart"
<1>1. /\ insertedBy(r) \subseteq req[r].fresh /\ insertedBy(r) \subseteq {orderOf[r]} \X Files
      /\ IsFiniteSet(req[r].fresh) /\ IsFiniteSet(rows)
  BY DEF OwnFiles, insertedBy
<1>2. /\ rows' = rows \union insertedBy(r) /\ req[r].at = "inserting"
      /\ goes(r, IF insertedBy(r) = req[r].fresh THEN "inserted" ELSE "insertedPart")
  BY DEF CommitTx, insertedBy
<1>3. IsFiniteSet(rows \union insertedBy(r))
  <2>1. IsFiniteSet(insertedBy(r))
    BY <1>1, FS_Subset
  <2> QED BY <1>1, <2>1, FS_Union
<1>4. req'[r].at = IF insertedBy(r) = req[r].fresh THEN "inserted" ELSE "insertedPart"
  BY <1>2 DEF goes, TypeOK
<1> QED BY <1>1, <1>2, <1>3, <1>4

LEMMA StepOutsideTx ==
  ASSUME TypeOK, NEW r \in Requests, Step(r), ~BeginTx(r)
  PROVE  req'[r].at # "inserting"
BY DEF Step, Measure, Reserve, StartPut, EndPut, FailPut, FailTx, CommitTx, Committed, ReadLive,
       RemoveOrphans, FailSweep, Undo, leaves, goes, TypeOK

LEMMA Deletes ==
  ASSUME NEW o \in Orders, \/ \E r \in Requests : Undo(r) /\ o = orderOf[r]
                           \/ DeleteOrder(o) /\ ~UNCHANGED database
  PROVE  orders' = orders \ {o} /\ rows' = {k \in rows : k[1] # o} /\ o \notin inTx
BY DEF Undo, DeleteOrder, database

-----------------------------------------------------------------------------
(* The inductive invariant holds initially and is preserved, part by part *)

LEMMA InitInv == Init => IInv
<1> SUFFICES ASSUME Init PROVE IInv
  OBVIOUS
<1> USE DEF Init
<1>1. TypeOK
  BY UploadsAssumption DEF TypeOK, Idle, Places
<1>2. OwnFiles /\ RowsHaveOrder /\ Alone
  BY FS_EmptySet DEF OwnFiles, RowsHaveOrder, Alone, Idle, inTransaction
<1>3. \A r \in Requests : req[r].at = "idle" /\ req[r].fresh = {}
  BY DEF Idle
<1>4. StillFitting
  BY <1>3 DEF StillFitting
<1>5. OrderWithinQuota
  <2> SUFFICES ASSUME NEW o \in Orders PROVE Bytes(keysIn(rows, o)) <= limit[o]
    BY DEF OrderWithinQuota
  <2>1. keysIn(rows, o) = {} /\ bytesOf({}) = {}
    BY DEF bytesOf, keysIn
  <2>2. limit[o] \in Nat
    BY AccountsOfOrders, UploadsAssumption
  <2>3. Bytes(keysIn(rows, o)) = 0
    BY <2>1, FS_EmptySet DEF Bytes
  <2> QED BY <2>2, <2>3
<1>6. Promised
  <2> SUFFICES ASSUME NEW a \in Accounts
               PROVE  IsFiniteSet(held(a)) /\ pending[a] = Cardinality(held(a))
    BY DEF Promised
  <2>1. held(a) = {}
    BY <1>3 DEF held, heldBy, holders, holdsSpace
  <2> QED BY <2>1, FS_EmptySet
<1>7. SlotsHeld
  <2>1. putting = {}
    BY <1>3 DEF putting
  <2> QED BY <2>1, FS_EmptySet DEF SlotsHeld
<1>8. NoReturn
  BY <1>3, UploadsAssumption DEF NoReturn, begun
<1>9. BucketInv
  BY <1>3, <1>8 DEF BucketInv, Removals, Brought, Inserted, Uploaded, Swept, RowsHaveObjects,
                    Accounted, removing
<1> QED BY <1>1, <1>2, <1>4, <1>5, <1>6, <1>7, <1>9 DEF IInv

LEMMA NextOwnFiles == TypeOK /\ OwnFiles /\ [Next]_vars => OwnFiles'
<1> SUFFICES ASSUME TypeOK, OwnFiles, [Next]_vars PROVE OwnFiles'
  OBVIOUS
<1>1. ASSUME NEW r \in Requests, Start(r) PROVE OwnFiles'
  BY <1>1, StartEffect, StartFrame DEF OwnFiles
<1>2. ASSUME NEW r \in Requests, Step(r) PROVE OwnFiles'
  <2>1. IsFiniteSet(rows')
    <3>1. CASE CommitTx(r)
      BY <3>1, Inserts
    <3>2. CASE Undo(r)
      <4>1. rows' \subseteq rows
        BY <3>2 DEF Undo
      <4> QED BY <4>1, FS_Subset DEF OwnFiles
    <3> QED BY <1>2, <3>1, <3>2, StepFrame DEF OwnFiles
  <2>2. req'[r].left \subseteq req[r].left \/ req'[r].left = orphans(r)
    <3>1. CASE EndPut(r)
      BY <3>1 DEF EndPut, TypeOK
    <3>2. CASE ReadLive(r)
      BY <3>2 DEF ReadLive, TypeOK
    <3> QED BY <1>2, <3>1, <3>2, StepEffect
  <2>3. req'[r].left \subseteq req'[r].fresh
    BY <1>2, <2>2, StepEffect DEF OwnFiles, orphans
  <2>4. req'[r].at = "putting" => req'[r].left # {}
    <3>1. CASE StartPut(r)
      BY <1>2, <3>1, StepEffect DEF StartPut, EndPut, ReadLive, goes, TypeOK, sweeping
    <3>2. CASE ~StartPut(r)
      <4>1. req'[r].at # "putting"
        BY <1>2, <3>2 DEF Step, Measure, Reserve, EndPut, FailPut, BeginTx, FailTx, CommitTx, Committed,
              ReadLive, RemoveOrphans, FailSweep, Undo, leaves, goes, TypeOK
      <4> QED BY <4>1
    <3> QED BY <3>1, <3>2
  <2>5. req'[r].at = "inserting" => req'[r].left = {}
    <3>1. CASE BeginTx(r)
      BY <1>2, <3>1, StepEffect DEF BeginTx, EndPut, ReadLive, uploaded, sweeping
    <3>2. CASE ~BeginTx(r)
      BY <1>2, <3>2, StepOutsideTx
    <3> QED BY <3>1, <3>2
  <2> QED BY <1>2, <2>1, <2>3, <2>4, <2>5, StepEffect DEF OwnFiles
<1>3. ASSUME NEW o \in Orders, RemovalStep(o) PROVE OwnFiles'
  <2>1. rows' \subseteq rows
    BY <1>3, RemovalFrame DEF DeleteOrder, database
  <2>2. IsFiniteSet(rows')
    BY <2>1, FS_Subset DEF OwnFiles
  <2> QED BY <1>3, <2>2, RemovalFrame DEF OwnFiles
<1>4. CASE UNCHANGED vars
  BY <1>4 DEF OwnFiles, vars
<1> QED BY <1>1, <1>2, <1>3, <1>4 DEF Next, RemovalStep

LEMMA NextRowsHaveOrder ==
  TypeOK /\ OwnFiles /\ Alone /\ RowsHaveOrder /\ [Next]_vars => RowsHaveOrder'
<1> SUFFICES ASSUME TypeOK, OwnFiles, Alone, RowsHaveOrder, [Next]_vars PROVE RowsHaveOrder'
  OBVIOUS
<1>1. ASSUME NEW r \in Requests, Start(r) PROVE RowsHaveOrder'
  BY <1>1, StartFrame DEF RowsHaveOrder
<1>2. ASSUME NEW o \in Orders, orders' = orders \ {o}, rows' = {k \in rows : k[1] # o}
      PROVE  RowsHaveOrder'
  BY <1>2 DEF RowsHaveOrder
<1>3. ASSUME NEW r \in Requests, Step(r) PROVE RowsHaveOrder'
  <2>1. CASE CommitTx(r)
    <3>1. orderOf[r] \in orders /\ orders' = orders
      BY <1>3, <2>1, StepFrame DEF CommitTx, Alone, inTransaction, Undo
    <3>2. \A k \in insertedBy(r) : k[1] = orderOf[r]
      BY <2>1, Inserts
    <3> QED BY <2>1, <3>1, <3>2, Inserts DEF RowsHaveOrder
  <2>2. CASE Undo(r)
    BY <1>2, <2>2, Deletes, UploadsAssumption
  <2> QED BY <1>3, <2>1, <2>2, StepFrame DEF RowsHaveOrder
<1>4. ASSUME NEW o \in Orders, RemovalStep(o) PROVE RowsHaveOrder'
  <2>1. CASE DeleteOrder(o) /\ ~UNCHANGED database
    BY <1>2, <2>1, Deletes
  <2> QED BY <1>4, <2>1, RemovalFrame DEF RowsHaveOrder, database
<1>5. CASE UNCHANGED vars
  BY <1>5 DEF RowsHaveOrder, vars
<1> QED BY <1>1, <1>3, <1>4, <1>5 DEF Next, RemovalStep

LEMMA NextAlone == TypeOK /\ OwnFiles /\ Alone /\ [Next]_vars => Alone'
<1> SUFFICES ASSUME TypeOK, OwnFiles, Alone, [Next]_vars PROVE Alone'
  OBVIOUS
<1>1. ASSUME NEW r \in Requests, Start(r) PROVE Alone'
  BY <1>1, StartEffect, StartFrame DEF Alone, inTransaction
<1>2. ASSUME NEW r \in Requests, Step(r) PROVE Alone'
  <2>1. CASE ~(BeginTx(r) \/ FailTx(r) \/ CommitTx(r) \/ Committed(r) \/ Undo(r))
    <3>1. req'[r].at \notin {"inserting", "inserted", "insertedPart"}
      BY <1>2, <2>1 DEF Step, Measure, Reserve, StartPut, EndPut, FailPut, ReadLive, RemoveOrphans,
                        FailSweep, leaves, goes, TypeOK
    <3> QED BY <1>2, <2>1, <3>1, StepEffect, StepFrame DEF Alone, inTransaction
  <2>2. CASE BeginTx(r)
    <3>1. /\ orders' = orders
          /\ \/ /\ req'[r].at = "inserting" /\ orderOf[r] \in orders
                /\ orderOf[r] \notin inTx /\ inTx' = inTx \union {orderOf[r]}
             \/ req'[r].at = "sweeping" /\ inTx' = inTx
      BY <2>2 DEF BeginTx, goes, TypeOK, database
    <3> QED BY <1>2, <3>1, StepEffect DEF Alone, inTransaction
  <2>3. CASE FailTx(r) \/ Committed(r)
    <3>1. /\ orders' = orders /\ ~inTransaction(r)'
          /\ \/ inTx' = inTx
             \/ inTransaction(r) /\ inTx' = inTx \ {orderOf[r]}
      BY <2>3 DEF FailTx, Committed, leaves, goes, TypeOK, database, inTransaction
    <3> QED BY <1>2, <3>1, StepEffect DEF Alone, inTransaction
  <2>4. CASE CommitTx(r)
    <3>1. inTransaction(r) /\ inTx' = inTx /\ orders' = orders
      BY <1>2, <2>4 DEF CommitTx, inTransaction, memory
    <3> QED BY <1>2, <3>1, StepEffect DEF Alone, inTransaction
  <2>5. CASE Undo(r)
    <3>1. req'[r].at = "done" /\ inTx' = inTx /\ orders' = orders \ {orderOf[r]}
          /\ orderOf[r] \notin inTx
      BY <2>5 DEF Undo, goes, TypeOK, memory
    <3> QED BY <1>2, <3>1, StepEffect DEF Alone, inTransaction
  <2> QED BY <2>1, <2>2, <2>3, <2>4, <2>5
<1>3. ASSUME NEW o \in Orders, RemovalStep(o) PROVE Alone'
  <2>1. CASE DeleteOrder(o) /\ ~UNCHANGED database
    BY <1>3, <2>1, Deletes, RemovalFrame DEF Alone, inTransaction
  <2> QED BY <1>3, <2>1, RemovalFrame DEF Alone, inTransaction, database
<1>4. CASE UNCHANGED vars
  BY <1>4 DEF Alone, inTransaction, vars
<1> QED BY <1>1, <1>2, <1>3, <1>4 DEF Next, RemovalStep

LEMMA NextNoReturn == TypeOK /\ OwnFiles /\ NoReturn /\ [Next]_vars => NoReturn'
<1> SUFFICES ASSUME TypeOK, OwnFiles, NoReturn, [Next]_vars PROVE NoReturn'
  OBVIOUS
<1>1. ASSUME \A q \in Requests : req[q].at # "idle" => req'[q].at # "idle", NEW o, begun(o)
      PROVE  begun(o)'
  BY <1>1, UploadsAssumption DEF begun
<1>2. ASSUME NEW r \in Requests, Start(r) PROVE NoReturn'
  <2>1. \A q \in Requests : req[q].at # "idle" => req'[q].at # "idle"
    BY <1>2, StartEffect
  <2>2. begun(orderOf[r])'
    <3>1. CASE r \in Creators
      BY <1>2, <3>1, StartEffect, UploadsAssumption DEF begun
    <3>2. CASE r \notin Creators
      BY <1>1, <1>2, <2>1, <3>2, StartFrame DEF NoReturn
    <3> QED BY <3>1, <3>2
  <2>3. \A q \in Requests : req'[q].at # "idle" => q = r \/ req[q].at # "idle"
    BY <1>2, StartEffect
  <2> QED BY <1>1, <1>2, <2>1, <2>2, <2>3, StartFrame DEF NoReturn
<1>3. ASSUME NEW r \in Requests, Step(r) PROVE NoReturn'
  <2>1. \A q \in Requests : req'[q].at # "idle" <=> req[q].at # "idle"
    BY <1>3, StepEffect
  <2>2. orders' \subseteq orders /\ removal' = removal
    BY <1>3, StepFrame DEF Undo
  <2> QED BY <1>1, <2>1, <2>2 DEF NoReturn
<1>4. ASSUME NEW o \in Orders, RemovalStep(o) PROVE NoReturn'
  <2>1. req' = req /\ orders' \subseteq orders
    BY <1>4, RemovalFrame DEF DeleteOrder, database
  <2>2. \A p \in Orders : removal'[p].at # "none" => removal[p].at # "none" \/ p \in orders
    BY <1>4 DEF RemovalStep, ListKeys, DeleteOrder, RemoveObjects, TypeOK
  <2>3. \A p : begun(p)' <=> begun(p)
    BY <2>1 DEF begun
  <2> QED BY <2>1, <2>2, <2>3 DEF NoReturn
<1>5. CASE UNCHANGED vars
  <2>1. \A p : begun(p)' <=> begun(p)
    BY <1>5 DEF begun, vars
  <2> QED BY <1>5, <2>1 DEF NoReturn, vars
<1> QED BY <1>2, <1>3, <1>4, <1>5 DEF Next, RemovalStep

LEMMA NextRemovals ==
  TypeOK /\ OwnFiles /\ RowsHaveOrder /\ NoReturn /\ Removals /\ [Next]_vars => Removals'
<1> SUFFICES ASSUME TypeOK, OwnFiles, RowsHaveOrder, NoReturn, Removals, [Next]_vars
             PROVE  Removals'
  OBVIOUS
<1>1. ASSUME NEW r \in Requests, Start(r) PROVE Removals'
  <2>1. r \in Creators => removal[orderOf[r]].at = "none"
    BY <1>1, StartEffect, UploadsAssumption DEF NoReturn, begun
  <2> QED BY <1>1, <2>1, StartFrame DEF Removals
<1>2. ASSUME NEW r \in Requests, Step(r) PROVE Removals'
  <2>1. orders' \subseteq orders /\ removal' = removal
    BY <1>2, StepFrame DEF Undo
  <2> QED BY <2>1 DEF Removals
<1>3. ASSUME NEW o \in Orders, RemovalStep(o) PROVE Removals'
  <2>1. orders' \subseteq orders
    BY <1>3, RemovalFrame DEF DeleteOrder, database
  <2>2. \A p \in Orders : p # o => removal'[p] = removal[p]
    BY <1>3 DEF RemovalStep, ListKeys, DeleteOrder, RemoveObjects, TypeOK
  <2>3. removal'[o].keys \subseteq {o} \X Files
    BY <1>3 DEF RemovalStep, ListKeys, DeleteOrder, RemoveObjects, TypeOK, Removals, Keys
  <2>4. removal'[o].at \in {"deleted", "done"} => o \notin orders'
    BY <1>3, <2>1 DEF RemovalStep, ListKeys, DeleteOrder, RemoveObjects, TypeOK, Removals, database
  <2> QED BY <2>1, <2>2, <2>3, <2>4 DEF Removals
<1>4. CASE UNCHANGED vars
  BY <1>4 DEF Removals, vars
<1> QED BY <1>1, <1>2, <1>3, <1>4 DEF Next, RemovalStep

-----------------------------------------------------------------------------
(* The quota of an order *)

\* What other orders insert or lose takes nothing from the space of an order.
LEMMA SpaceOfOthers ==
  ASSUME TypeOK, TypeOK', NEW o \in Orders, \A k \in Keys : k[1] = o => (k \in rows' <=> k \in rows)
  PROVE  keysIn(rows', o) = keysIn(rows, o)
<1>1. rows \in SUBSET Keys /\ rows' \in SUBSET Keys
  BY DEF TypeOK
<1>2. keysIn(rows, o) = {k \in rows : k[1] = o} /\ keysIn(rows', o) = {k \in rows' : k[1] = o}
  BY <1>1, OwnSpace
<1> QED BY <1>1, <1>2

\* What changes the rows of an order leaves alone what was read for another one.
LEMMA FittingElsewhere ==
  ASSUME TypeOK, TypeOK', OwnFiles, StillFitting, NEW q \in Requests, req[q].at = "inserting",
         req'[q] = req[q], \A k \in Keys : k[1] = orderOf[q] => (k \in rows' <=> k \in rows)
  PROVE  Bytes(keysIn(rows', orderOf[q])) + Bytes(req'[q].fresh) <= limit[orderOf[q]]
<1>1. keysIn(rows', orderOf[q]) = keysIn(rows, orderOf[q])
  BY SpaceOfOthers, UploadsAssumption
<1>2. Bytes(req'[q].fresh) = Bytes(req[q].fresh)
  OBVIOUS
<1>3. Bytes(keysIn(rows, orderOf[q])) + Bytes(req[q].fresh) <= limit[orderOf[q]]
  BY DEF StillFitting
<1> QED BY <1>1, <1>2, <1>3

LEMMA NextStillFitting ==
  TypeOK /\ TypeOK' /\ OwnFiles /\ Alone /\ StillFitting /\ [Next]_vars => StillFitting'
<1> SUFFICES ASSUME TypeOK, TypeOK', OwnFiles, Alone, StillFitting, [Next]_vars,
                    NEW q \in Requests, req'[q].at = "inserting"
             PROVE  Bytes(keysIn(rows', orderOf[q])) + Bytes(req'[q].fresh) <= limit[orderOf[q]]
  BY DEF StillFitting
<1> DEFINE Goal == Bytes(keysIn(rows', orderOf[q])) + Bytes(req'[q].fresh) <= limit[orderOf[q]]
<1>1. ASSUME NEW r \in Requests, Start(r) PROVE Goal
  BY <1>1, StartEffect, StartFrame, FittingElsewhere
<1>2. ASSUME NEW o \in Orders, rows' = {k \in rows : k[1] # o}, o \notin inTx,
             req'[q] = req[q]
      PROVE  Goal
  <2>1. orderOf[q] # o
    BY <1>2 DEF Alone, inTransaction
  <2> QED BY <1>2, <2>1, FittingElsewhere
<1>3. ASSUME NEW r \in Requests, Step(r) PROVE Goal
  <2>1. CASE q # r
    <3>1. req'[q] = req[q]
      BY <1>3, <2>1, StepEffect
    <3>2. CASE CommitTx(r)
      <4>1. orderOf[q] # orderOf[r]
        BY <2>1, <3>1, <3>2, Inserts DEF Alone, inTransaction
      <4>2. \A k \in Keys : k[1] = orderOf[q] => (k \in rows' <=> k \in rows)
        BY <3>2, <4>1, Inserts
      <4> QED BY <3>1, <4>2, FittingElsewhere
    <3>3. CASE Undo(r)
      BY <1>2, <3>1, <3>3, Deletes, UploadsAssumption
    <3> QED BY <1>3, <3>1, <3>2, <3>3, StepFrame, FittingElsewhere
  <2>2. CASE q = r
    <3>1. BeginTx(r)
      BY <1>3, <2>2, StepOutsideTx
    <3>2. stillFits(r) /\ rows' = rows /\ req'[r].fresh = req[r].fresh
      BY <1>3, <2>2, <3>1, StepEffect DEF BeginTx, goes, TypeOK, database
    <3>3. readStorageUsage(orderOf[r])[orderOf[r]] + Bytes(req[r].fresh) <= limit[orderOf[r]]
      BY <3>2, AccountsOfOrders, UploadsAssumption DEF stillFits, checkStorageQuota
    <3>4. readStorageUsage(orderOf[r])[orderOf[r]] = Bytes(keysIn(rows, orderOf[r]))
      BY AccountsOfOrders, UploadsAssumption DEF readStorageUsage
    <3> QED BY <2>2, <3>2, <3>3, <3>4
  <2> QED BY <2>1, <2>2
<1>4. ASSUME NEW o \in Orders, RemovalStep(o) PROVE Goal
  <2>1. req' = req
    BY <1>4, RemovalFrame
  <2>2. CASE DeleteOrder(o) /\ ~UNCHANGED database
    BY <1>2, <2>1, <2>2, Deletes
  <2> QED BY <1>4, <2>1, <2>2, RemovalFrame, FittingElsewhere DEF database
<1>5. CASE UNCHANGED vars
  BY <1>5, FittingElsewhere DEF vars
<1> QED BY <1>1, <1>3, <1>4, <1>5 DEF Next, RemovalStep

LEMMA NextOrderWithinQuota ==
  ASSUME TypeOK, TypeOK', OwnFiles, OwnFiles', Alone, StillFitting, OrderWithinQuota, [Next]_vars
  PROVE  OrderWithinQuota'
<1> SUFFICES ASSUME NEW o \in Orders PROVE Bytes(keysIn(rows', o)) <= limit[o]
  BY DEF OrderWithinQuota
<1>1. /\ Bytes(keysIn(rows, o)) <= limit[o] /\ limit[o] \in Nat
      /\ keysIn(rows, o) \in SUBSET Keys /\ IsFiniteSet(keysIn(rows, o))
  <2>1. keysIn(rows, o) \in SUBSET rows /\ rows \in SUBSET Keys
    BY DEF keysIn, TypeOK
  <2>2. IsFiniteSet(keysIn(rows, o))
    BY <2>1, FS_Subset DEF OwnFiles
  <2> QED BY <2>1, <2>2, UploadsAssumption, AccountsOfOrders DEF OrderWithinQuota
<1>2. ASSUME rows' \subseteq rows PROVE Bytes(keysIn(rows', o)) <= limit[o]
  <2>1. keysIn(rows', o) \in SUBSET keysIn(rows, o)
    BY <1>2 DEF keysIn
  <2>2. Bytes(keysIn(rows', o)) <= Bytes(keysIn(rows, o))
    BY <1>1, <2>1, BytesOfPart
  <2>3. Bytes(keysIn(rows, o)) \in Nat
    BY <1>1, BytesFinite
  <2>4. keysIn(rows', o) \in SUBSET Keys /\ IsFiniteSet(keysIn(rows', o))
    BY <1>1, <2>1, BytesOfPart
  <2>5. Bytes(keysIn(rows', o)) \in Nat
    BY <2>4, BytesFinite
  <2> QED BY <1>1, <2>2, <2>3, <2>5
<1>3. ASSUME NEW r \in Requests, CommitTx(r) PROVE Bytes(keysIn(rows', o)) <= limit[o]
  <2> DEFINE new == insertedBy(r)
  <2>1. /\ rows' = rows \union new /\ new \in SUBSET req[r].fresh
        /\ new \subseteq {orderOf[r]} \X Files /\ req[r].at = "inserting"
    BY <1>3, Inserts
  <2>2. CASE o # orderOf[r]
    <3>1. keysIn(rows', o) = keysIn(rows, o)
      BY <2>1, <2>2, SpaceOfOthers
    <3> QED BY <1>1, <3>1
  <2>3. CASE o = orderOf[r]
    <3> HIDE DEF new
    <3>1. keysIn(rows', o) = keysIn(rows, o) \union new
      <4>1. rows \in SUBSET Keys /\ rows' \in SUBSET Keys
        BY DEF TypeOK
      <4>2. keysIn(rows, o) = {k \in rows : k[1] = o}
            /\ keysIn(rows', o) = {k \in rows' : k[1] = o}
        BY <4>1, OwnSpace
      <4>3. \A k \in new : k[1] = o
        BY <2>1, <2>3
      <4> QED BY <2>1, <4>2, <4>3
    <3>2. req[r].fresh \in SUBSET Keys /\ IsFiniteSet(req[r].fresh)
      BY DEF TypeOK, OwnFiles
    <3>3. IsFiniteSet(new) /\ Bytes(new) <= Bytes(req[r].fresh) /\ new \in SUBSET Keys
      BY <2>1, <3>2, BytesOfPart
    <3>4. Bytes(keysIn(rows, o) \union new) <= Bytes(keysIn(rows, o)) + Bytes(new)
      BY <1>1, <3>3, BytesOfUnion
    <3>5. Bytes(keysIn(rows, o)) + Bytes(req[r].fresh) <= limit[o]
      BY <2>1, <2>3 DEF StillFitting
    <3>6. /\ Bytes(keysIn(rows, o)) \in Nat /\ Bytes(new) \in Nat /\ Bytes(req[r].fresh) \in Nat
      BY <1>1, <3>2, <3>3, BytesFinite
    <3>7. IsFiniteSet(keysIn(rows, o) \union new) /\ keysIn(rows, o) \union new \in SUBSET Keys
      BY <1>1, <3>3, FS_Union
    <3>8. Bytes(keysIn(rows, o) \union new) \in Nat
      BY <3>7, BytesFinite
    <3> QED BY <1>1, <3>1, <3>3, <3>4, <3>5, <3>6, <3>8
  <2> QED BY <2>2, <2>3
<1>4. ASSUME NEW r \in Requests, Step(r) PROVE Bytes(keysIn(rows', o)) <= limit[o]
  BY <1>2, <1>3, <1>4, StepFrame DEF Undo
<1>5. ASSUME NEW p \in Orders, RemovalStep(p) PROVE Bytes(keysIn(rows', o)) <= limit[o]
  BY <1>2, <1>5, RemovalFrame DEF DeleteOrder, database
<1> QED BY <1>2, <1>4, <1>5, StartFrame DEF Next, RemovalStep, vars

-----------------------------------------------------------------------------
(* The space promised and the slots *)

LEMMA OneMoreHolder ==
  ASSUME TypeOK, OwnFiles, NEW R \in SUBSET Requests, NEW r \in Requests \ R,
         IsFiniteSet(heldBy(R))
  PROVE  /\ IsFiniteSet(heldBy(R \union {r}))
         /\ Cardinality(heldBy(R \union {r})) = Cardinality(heldBy(R)) + Bytes(req[r].fresh)
<1> DEFINE B == bytesOf(req[r].fresh)
<1>1. heldBy(R \union {r}) = heldBy(R) \union ({r} \X B)
  BY DEF heldBy
<1>2. heldBy(R) \cap ({r} \X B) = {}
  BY DEF heldBy
<1>3. IsFiniteSet(B) /\ Cardinality(B) \in Nat
  <2>1. req[r].fresh \in SUBSET Keys /\ IsFiniteSet(req[r].fresh)
    BY DEF TypeOK, OwnFiles
  <2> QED BY <2>1, BytesFinite DEF Bytes
<1> HIDE DEF B
<1>4. IsFiniteSet({r} \X B) /\ Cardinality({r} \X B) = Cardinality(B)
  <2>1. IsFiniteSet({r}) /\ Cardinality({r}) = 1
    BY FS_Singleton
  <2>2. IsFiniteSet({r} \X B) /\ Cardinality({r} \X B) = Cardinality({r}) * Cardinality(B)
    BY <1>3, <2>1, FS_Product
  <2> QED BY <1>3, <2>1, <2>2
<1>5. /\ IsFiniteSet(heldBy(R) \union ({r} \X B))
      /\ Cardinality(heldBy(R) \union ({r} \X B))
           = Cardinality(heldBy(R)) + Cardinality(B)
  <2> DEFINE P == {r} \X B
             H == heldBy(R)
  <2>1. IsFiniteSet(P) /\ IsFiniteSet(H) /\ Cardinality(P) = Cardinality(B) /\ H \cap P = {}
    BY <1>2, <1>4
  <2> HIDE DEF P, H
  <2>2. /\ IsFiniteSet(H \union P)
        /\ Cardinality(H \union P) = Cardinality(H) + Cardinality(P) - Cardinality(H \cap P)
    BY <2>1, FS_Union
  <2>3. Cardinality(H) \in Nat /\ Cardinality(H \cap P) = 0
    BY <2>1, FS_CardinalityType, FS_EmptySet
  <2>4. Cardinality(H \union P) = Cardinality(H) + Cardinality(B)
    BY <1>3, <2>1, <2>2, <2>3
  <2> QED BY <2>2, <2>4 DEF P, H
<1>6. Bytes(req[r].fresh) = Cardinality(B)
  BY DEF Bytes, B
<1> QED BY <1>1, <1>5, <1>6

LEMMA OneLessHolder ==
  ASSUME TypeOK, OwnFiles, NEW R \in SUBSET Requests, NEW r \in R, IsFiniteSet(heldBy(R))
  PROVE  /\ IsFiniteSet(heldBy(R \ {r}))
         /\ Cardinality(heldBy(R \ {r})) = Cardinality(heldBy(R)) - Bytes(req[r].fresh)
<1>1. heldBy(R \ {r}) \subseteq heldBy(R)
  BY DEF heldBy
<1>2. IsFiniteSet(heldBy(R \ {r}))
  BY <1>1, FS_Subset
<1>3. R \ {r} \in SUBSET Requests /\ r \in Requests \ (R \ {r}) /\ (R \ {r}) \union {r} = R
  OBVIOUS
<1>4. Cardinality(heldBy((R \ {r}) \union {r}))
        = Cardinality(heldBy(R \ {r})) + Bytes(req[r].fresh)
  BY <1>2, <1>3, OneMoreHolder
<1>5. Cardinality(heldBy(R \ {r})) \in Nat /\ Bytes(req[r].fresh) \in Nat
  <2>1. req[r].fresh \in SUBSET Keys /\ IsFiniteSet(req[r].fresh)
    BY DEF TypeOK, OwnFiles
  <2> QED BY <1>2, <2>1, FS_CardinalityType, BytesFinite
<1>6. Cardinality(heldBy(R)) = Cardinality(heldBy(R \ {r})) + Bytes(req[r].fresh)
  BY <1>3, <1>4
<1> QED BY <1>2, <1>5, <1>6

LEMMA SameHolders ==
  ASSUME NEW a \in Accounts,
         \A q \in Requests : /\ holdsSpace(q)' <=> holdsSpace(q)
                             /\ holdsSpace(q) => req'[q].fresh = req[q].fresh
  PROVE  held(a)' = held(a)
<1>1. holders(a)' = holders(a)
  BY DEF holders
<1>2. \A q \in holders(a) : req'[q].fresh = req[q].fresh
  BY DEF holders
<1> QED BY <1>1, <1>2 DEF held, heldBy

\* A request ends its holding of space when it leaves, begins it when it reserves,
\* and keeps it as it is in its other steps.
LEMMA StepHolding ==
  ASSUME TypeOK, OwnFiles, NEW r \in Requests, Step(r)
  PROVE  \/ /\ holdsSpace(r)' <=> holdsSpace(r)
            /\ pending' = pending
         \/ /\ ~holdsSpace(r) /\ holdsSpace(r)'
            /\ pending' = reserved(orderOf[r], Bytes(req[r].fresh))
         \/ /\ holdsSpace(r) /\ ~holdsSpace(r)'
            /\ pending' = released(orderOf[r], Bytes(req[r].fresh))
<1>1. CASE Reserve(r)
  BY <1>1 DEF Reserve, goes, TypeOK, holdsSpace
<1>2. CASE Committed(r)
  BY <1>2 DEF Committed, leaves, goes, TypeOK, holdsSpace
<1>3. CASE RemoveOrphans(r) \/ FailSweep(r)
  BY <1>3 DEF RemoveOrphans, FailSweep, leaves, goes, TypeOK, holdsSpace, removing, sweeping
<1>4. CASE ~(Reserve(r) \/ Committed(r) \/ RemoveOrphans(r) \/ FailSweep(r))
  <2>1. holdsSpace(r)' <=> holdsSpace(r)
    BY <1>4 DEF Step, Measure, StartPut, EndPut, FailPut, BeginTx, FailTx, CommitTx, ReadLive,
                Undo, goes, TypeOK, holdsSpace, uploaded, sweeping
  <2> QED BY <1>4, <2>1, StepFrame
<1> QED BY <1>1, <1>2, <1>3, <1>4

LEMMA NextPromised ==
  ASSUME TypeOK, OwnFiles, Promised, [Next]_vars
  PROVE  Promised' /\ pending' \in [Accounts -> Nat]
<1>1. SUFFICES ASSUME NEW a \in Accounts
               PROVE  IsFiniteSet(held(a)') /\ pending'[a] = Cardinality(held(a)')
  <2> DEFINE Kept == \A a \in Accounts : IsFiniteSet(held(a)') /\ pending'[a] = Cardinality(held(a)')
  <2>1. Kept
    BY <1>1
  <2>2. \A a \in Accounts : pending'[a] \in Nat
    BY <2>1, FS_CardinalityType
  <2>3. pending' = [a \in Accounts |-> pending'[a]]
    BY StepHolding, StartFrame, RemovalFrame
       DEF Next, RemovalStep, reserved, released, TypeOK, vars
  <2>4. Promised'
    BY <2>1 DEF Promised
  <2> QED BY <2>2, <2>3, <2>4
<1>2. IsFiniteSet(held(a)) /\ pending[a] = Cardinality(held(a))
  BY DEF Promised
<1>3. ASSUME pending' = pending,
             \A q \in Requests : /\ holdsSpace(q)' <=> holdsSpace(q)
                                 /\ holdsSpace(q) => req'[q].fresh = req[q].fresh
      PROVE  IsFiniteSet(held(a)') /\ pending'[a] = Cardinality(held(a)')
  BY <1>2, <1>3, SameHolders
<1>4. ASSUME NEW r \in Requests, Start(r)
      PROVE  IsFiniteSet(held(a)') /\ pending'[a] = Cardinality(held(a)')
  <2>1. \A q \in Requests : /\ holdsSpace(q)' <=> holdsSpace(q)
                            /\ holdsSpace(q) => req'[q].fresh = req[q].fresh
    BY <1>4, StartEffect DEF holdsSpace
  <2> QED BY <1>3, <1>4, <2>1, StartFrame
<1>5. ASSUME NEW r \in Requests, Step(r)
      PROVE  IsFiniteSet(held(a)') /\ pending'[a] = Cardinality(held(a)')
  <2> DEFINE H == holders(a)
             here == a \in accountsOf(orderOf[r])
             bytes == Bytes(req[r].fresh)
  <2>1. /\ \A q \in Requests : req'[q].fresh = req[q].fresh
        /\ \A q \in Requests : q # r => (holdsSpace(q)' <=> holdsSpace(q))
    BY <1>5, StepEffect DEF holdsSpace
  <2>2. held(a)' = heldBy(holders(a)')
    BY <2>1 DEF held, heldBy, holders
  <2>3. held(a) = heldBy(H) /\ H \in SUBSET Requests
    BY DEF held, holders
  <2>4. CASE (holdsSpace(r)' <=> holdsSpace(r)) /\ pending' = pending
    BY <1>3, <2>1, <2>4
  <2>5. CASE ~holdsSpace(r) /\ holdsSpace(r)' /\ pending' = reserved(orderOf[r], bytes)
    <3>1. pending'[a] = pending[a] + (IF here THEN bytes ELSE 0)
      BY <2>5 DEF reserved
    <3>2. holders(a)' = IF here THEN H \union {r} ELSE H
      BY <2>1, <2>5 DEF holders
    <3>3. r \in Requests \ H
      BY <2>5 DEF holders
    <3>4. CASE here
      BY <1>2, <2>2, <2>3, <3>1, <3>2, <3>3, <3>4, OneMoreHolder
    <3>5. CASE ~here
      <4>1. Cardinality(held(a)) \in Nat
        BY <1>2, FS_CardinalityType
      <4> QED BY <1>2, <2>2, <2>3, <3>1, <3>2, <3>5, <4>1
    <3> QED BY <3>4, <3>5
  <2>6. CASE holdsSpace(r) /\ ~holdsSpace(r)' /\ pending' = released(orderOf[r], bytes)
    <3>1. pending'[a] = pending[a] - (IF here THEN bytes ELSE 0)
      BY <2>6 DEF released
    <3>2. holders(a)' = IF here THEN H \ {r} ELSE H
      BY <2>1, <2>6 DEF holders
    <3>3. here => r \in H
      BY <2>6 DEF holders
    <3>4. CASE here
      BY <1>2, <2>2, <2>3, <3>1, <3>2, <3>3, <3>4, OneLessHolder
    <3>5. CASE ~here
      <4>1. Cardinality(held(a)) \in Nat
        BY <1>2, FS_CardinalityType
      <4> QED BY <1>2, <2>2, <2>3, <3>1, <3>2, <3>5, <4>1
    <3> QED BY <3>4, <3>5
  <2> QED BY <1>5, <2>4, <2>5, <2>6, StepHolding
<1>6. ASSUME NEW o \in Orders, RemovalStep(o)
      PROVE  IsFiniteSet(held(a)') /\ pending'[a] = Cardinality(held(a)')
  <2>1. req' = req /\ pending' = pending
    BY <1>6, RemovalFrame
  <2> QED BY <1>3, <2>1 DEF holdsSpace
<1>7. CASE UNCHANGED vars
  BY <1>3, <1>7 DEF holdsSpace, vars
<1> QED BY <1>4, <1>5, <1>6, <1>7 DEF Next, RemovalStep

LEMMA NextSlotsHeld ==
  ASSUME TypeOK, OwnFiles, SlotsHeld, [Next]_vars
  PROVE  SlotsHeld' /\ active' \in 0..MaxParallelUploads
<1>1. IsFiniteSet(putting) /\ active = Cardinality(putting) /\ active \in 0..MaxParallelUploads
  BY DEF SlotsHeld, TypeOK
<1>2. ASSUME putting' = putting, active' = active
      PROVE  SlotsHeld' /\ active' \in 0..MaxParallelUploads
  BY <1>1, <1>2 DEF SlotsHeld
<1>3. ASSUME NEW r \in Requests, Start(r)
      PROVE  SlotsHeld' /\ active' \in 0..MaxParallelUploads
  <2>1. putting' = putting
    BY <1>3, StartEffect DEF putting
  <2> QED BY <1>2, <1>3, <2>1, StartFrame
<1>4. ASSUME NEW r \in Requests, Step(r)
      PROVE  SlotsHeld' /\ active' \in 0..MaxParallelUploads
  <2>1. \A q \in Requests : q # r => req'[q] = req[q]
    BY <1>4, StepEffect
  <2>2. CASE StartPut(r)
    <3>1. putting' = putting \union {r} /\ r \notin putting
      BY <2>1, <2>2 DEF StartPut, goes, TypeOK, putting
    <3>2. active' = active + 1 /\ active < MaxParallelUploads
      BY <2>2 DEF StartPut
    <3>3. IsFiniteSet(putting \union {r}) /\ Cardinality(putting \union {r}) = Cardinality(putting) + 1
      BY <1>1, <3>1, FS_AddElement
    <3>4. SlotsHeld'
      BY <1>1, <3>1, <3>2, <3>3 DEF SlotsHeld
    <3>5. active' \in 0..MaxParallelUploads
      BY <1>1, <3>2, UploadsAssumption
    <3> QED BY <3>4, <3>5
  <2>3. CASE EndPut(r) \/ FailPut(r)
    <3>1. putting' = putting \ {r} /\ r \in putting
      BY <2>1, <2>3 DEF EndPut, FailPut, goes, TypeOK, putting
    <3>2. active' = active - 1
      BY <2>3 DEF EndPut, FailPut, slotAfterFailure
    <3>3. IsFiniteSet(putting \ {r}) /\ Cardinality(putting \ {r}) = Cardinality(putting) - 1
      BY <1>1, <3>1, FS_RemoveElement
    <3>4. SlotsHeld'
      BY <1>1, <3>1, <3>2, <3>3 DEF SlotsHeld
    <3>5. Cardinality(putting \ {r}) \in Nat
      BY <3>3, FS_CardinalityType
    <3>6. active' \in 0..MaxParallelUploads
      BY <1>1, <3>2, <3>3, <3>5, UploadsAssumption
    <3> QED BY <3>4, <3>6
  <2>4. CASE ~(StartPut(r) \/ EndPut(r) \/ FailPut(r))
    <3>1. req[r].at # "putting" /\ req'[r].at # "putting"
      BY <1>4, <2>4
         DEF Step, Measure, Reserve, BeginTx, FailTx, CommitTx, Committed, ReadLive, RemoveOrphans,
             FailSweep, Undo, leaves, goes, TypeOK, uploaded, sweeping, removing
    <3>2. putting' = putting
      BY <2>1, <3>1 DEF putting
    <3> QED BY <1>2, <1>4, <2>4, <3>2, StepFrame
  <2> QED BY <2>2, <2>3, <2>4
<1>5. ASSUME NEW o \in Orders, RemovalStep(o)
      PROVE  SlotsHeld' /\ active' \in 0..MaxParallelUploads
  BY <1>2, <1>5, RemovalFrame DEF putting
<1>6. CASE UNCHANGED vars
  BY <1>2, <1>6 DEF putting, vars
<1> QED BY <1>3, <1>4, <1>5, <1>6 DEF Next, RemovalStep

LEMMA NextKeyOfRequest ==
  ASSUME TypeOK, OwnFiles, NEW r \in Requests, req[r].at = "putting"
  PROVE  nextKey(r) \in req[r].left /\ nextKey(r) \in req[r].fresh /\ nextKey(r) \in Keys
BY DEF nextKey, OwnFiles, TypeOK

LEMMA NextTypes ==
  ASSUME TypeOK, OwnFiles, Promised, SlotsHeld, [Next]_vars
  PROVE  TypeOK'
<1>1. pending' \in [Accounts -> Nat] /\ active' \in 0..MaxParallelUploads
  BY NextPromised, NextSlotsHeld
<1>2. ASSUME NEW r \in Requests, Start(r) PROVE TypeOK'
  BY <1>1, <1>2, StartEffect, StartFrame, UploadsAssumption DEF TypeOK, RequestType
<1>3. ASSUME NEW r \in Requests, Step(r) PROVE TypeOK'
  <2>1. req' \in [Requests -> RequestType] /\ removal' = removal
    BY <1>3, StepEffect, StepFrame
  <2>2. orders' \subseteq Orders
    BY <1>3, StepFrame DEF Undo, TypeOK
  <2>3. rows' \subseteq Keys
    <3>1. CASE CommitTx(r)
      BY <3>1, Inserts DEF TypeOK
    <3>2. CASE ~CommitTx(r)
      BY <1>3, <3>2, StepFrame DEF Undo, TypeOK
    <3> QED BY <3>1, <3>2
  <2>4. objects' \subseteq Keys
    <3>1. CASE EndPut(r) \/ FailPut(r)
      BY <3>1, NextKeyOfRequest DEF EndPut, FailPut, TypeOK
    <3>2. CASE ~(EndPut(r) \/ FailPut(r))
      BY <1>3, <3>2, StepFrame DEF RemoveOrphans, TypeOK
    <3> QED BY <3>1, <3>2
  <2>5. logged' \subseteq Keys
    BY <1>3, StepFrame DEF FailSweep, TypeOK
  <2>6. inTx' \subseteq Orders
    <3>1. orderOf[r] \in Orders
      BY UploadsAssumption
    <3> QED BY <1>3, <3>1, StepFrame DEF BeginTx, FailTx, Committed, TypeOK
  <2> QED BY <1>1, <2>1, <2>2, <2>3, <2>4, <2>5, <2>6 DEF TypeOK, RequestType
<1>4. ASSUME NEW o \in Orders, RemovalStep(o) PROVE TypeOK'
  <2>1. req' = req /\ inTx' = inTx
    BY <1>4, RemovalFrame
  <2>2. removal' \in [Orders -> [at : {"none", "listed", "refused", "deleted", "done"},
                                 keys : SUBSET Keys]]
    BY <1>4 DEF RemovalStep, ListKeys, DeleteOrder, RemoveObjects, TypeOK
  <2>3. orders' \subseteq orders /\ rows' \subseteq rows
    BY <1>4, RemovalFrame DEF DeleteOrder, database
  <2>4. objects' \subseteq objects /\ logged' \subseteq logged \union removal[o].keys
    BY <1>4, RemovalFrame DEF RemoveObjects
  <2>5. removal[o].keys \subseteq Keys
    BY DEF TypeOK
  <2> QED BY <1>1, <2>1, <2>2, <2>3, <2>4, <2>5 DEF TypeOK
<1>5. CASE UNCHANGED vars
  BY <1>5 DEF TypeOK, vars
<1> QED BY <1>2, <1>3, <1>4, <1>5 DEF Next, RemovalStep

-----------------------------------------------------------------------------
(* The bucket and the table *)

LEMMA NextShares ==
  ASSUME TypeOK, OwnFiles, [Next]_vars
  PROVE  /\ \A q \in Requests : req[q].fresh \subseteq req'[q].fresh
         /\ \A k : shared(k) => shared(k)'
<1>1. \A q \in Requests : req[q].fresh \subseteq req'[q].fresh
  <2>1. ASSUME NEW r \in Requests, Start(r), NEW q \in Requests
        PROVE  req[q].fresh \subseteq req'[q].fresh
    BY <2>1, StartEffect
  <2>2. ASSUME NEW r \in Requests, Step(r), NEW q \in Requests
        PROVE  req[q].fresh \subseteq req'[q].fresh
    BY <2>2, StepEffect
  <2> QED BY <2>1, <2>2, RemovalFrame DEF Next, RemovalStep, vars
<1> QED BY <1>1 DEF shared

LEMMA NextBrought ==
  ASSUME TypeOK, OwnFiles, Brought, [Next]_vars
  PROVE  Brought'
<1>1. \A k \in objects' : k \in objects \/ \E r \in Requests : k \in req[r].fresh
  <2>1. ASSUME NEW r \in Requests, Step(r)
        PROVE  \A k \in objects' : k \in objects \/ k \in req[r].fresh
    BY <2>1, StepFrame, NextKeyOfRequest DEF EndPut, FailPut, RemoveOrphans
  <2>2. ASSUME NEW o \in Orders, RemovalStep(o) PROVE objects' \subseteq objects
    BY <2>2, RemovalFrame DEF RemoveObjects
  <2> QED BY <2>1, <2>2, StartFrame DEF Next, RemovalStep, vars
<1> QED BY <1>1, NextShares DEF Brought

LEMMA NextInserted ==
  ASSUME TypeOK, OwnFiles, Alone, Inserted, [Next]_vars
  PROVE  Inserted'
<1> SUFFICES ASSUME NEW q \in Requests, req'[q].at = "inserted"
             PROVE  req'[q].fresh \subseteq rows'
  BY DEF Inserted
<1>1. ASSUME req'[q] = req[q], rows \subseteq rows'
      PROVE  req'[q].fresh \subseteq rows'
  BY <1>1 DEF Inserted
<1>2. ASSUME NEW o \in Orders, rows' = {k \in rows : k[1] # o}, o \notin inTx, req'[q] = req[q]
      PROVE  req'[q].fresh \subseteq rows'
  <2>1. orderOf[q] # o /\ req[q].fresh \subseteq rows
    BY <1>2 DEF Alone, inTransaction, Inserted
  <2> QED BY <1>2, <2>1 DEF OwnFiles
<1>3. ASSUME NEW r \in Requests, Start(r) PROVE req'[q].fresh \subseteq rows'
  BY <1>1, <1>3, StartEffect, StartFrame
<1>4. ASSUME NEW r \in Requests, Step(r) PROVE req'[q].fresh \subseteq rows'
  <2>1. CASE CommitTx(r)
    BY <1>1, <1>4, <2>1, Inserts, StepEffect
  <2>2. CASE Undo(r)
    <3>1. q # r
      BY <2>2 DEF Undo, goes, TypeOK
    <3> QED BY <1>2, <1>4, <2>2, <3>1, StepEffect, Deletes, UploadsAssumption
  <2>3. CASE ~CommitTx(r) /\ ~Undo(r)
    <3>1. q # r
      BY <1>4, <2>3
         DEF Step, Measure, Reserve, StartPut, EndPut, FailPut, BeginTx, FailTx, Committed, ReadLive,
             RemoveOrphans, FailSweep, leaves, goes, TypeOK
    <3> QED BY <1>1, <1>4, <2>3, <3>1, StepEffect, StepFrame
  <2> QED BY <2>1, <2>2, <2>3
<1>5. ASSUME NEW o \in Orders, RemovalStep(o) PROVE req'[q].fresh \subseteq rows'
  <2>1. req' = req
    BY <1>5, RemovalFrame
  <2>2. CASE DeleteOrder(o) /\ ~UNCHANGED database
    BY <1>2, <2>1, <2>2, Deletes
  <2> QED BY <1>1, <1>5, <2>1, <2>2, RemovalFrame DEF database
<1> QED BY <1>1, <1>3, <1>4, <1>5 DEF Next, RemovalStep, vars

\* A key leaves the bucket only from under a request that brings it as well, or
\* with an order that is gone.
LEMMA LeavesBucket ==
  ASSUME TypeOK, OwnFiles, Removals, [Next]_vars, NEW k \in objects \ objects'
  PROVE  \/ \E r \in Requests : removing(r) /\ k \in req[r].left /\ RemoveOrphans(r)
         \/ k[1] \notin orders /\ \E o \in Orders : RemoveObjects(o) /\ k[1] = o
<1>1. ASSUME NEW r \in Requests, Step(r)
      PROVE  removing(r) /\ k \in req[r].left /\ RemoveOrphans(r)
  BY <1>1, StepFrame DEF EndPut, FailPut, RemoveOrphans
<1>2. ASSUME NEW o \in Orders, RemovalStep(o)
      PROVE  k[1] \notin orders /\ RemoveObjects(o) /\ k[1] = o
  <2>1. RemoveObjects(o) /\ k \in removal[o].keys /\ o \notin orders
    BY <1>2, RemovalFrame DEF RemoveObjects, Removals
  <2> QED BY <2>1 DEF Removals
<1> QED BY <1>1, <1>2, StartFrame DEF Next, RemovalStep, vars

LEMMA NextUploaded ==
  ASSUME TypeOK, OwnFiles, NoReturn, Removals, Uploaded, [Next]_vars
  PROVE  Uploaded'
<1> DEFINE early == {"measuring", "measured", "uploading", "putting", "inserting"}
<1> SUFFICES ASSUME NEW q \in Requests, NEW k \in req'[q].fresh \ req'[q].left,
                    req'[q].at \in early, orderOf[q] \in orders'
             PROVE  k \in objects' \/ shared(k)'
  BY DEF Uploaded
\* What was so before, remains so.
<1>1. ASSUME k \in req[q].fresh \ req[q].left, req[q].at \in early, orderOf[q] \in orders,
             ~\E r \in Requests : r = q /\ RemoveOrphans(r)
      PROVE  k \in objects' \/ shared(k)'
  <2>1. k \in objects \/ shared(k)
    BY <1>1 DEF Uploaded
  <2>2. CASE shared(k)
    BY <2>2, NextShares
  <2>3. CASE k \in objects \ objects'
    <3>1. k[1] = orderOf[q]
      BY <1>1 DEF OwnFiles
    <3>2. PICK r \in Requests : k \in req[r].left /\ RemoveOrphans(r)
      BY <1>1, <2>3, <3>1, LeavesBucket
    <3>3. shared(k)
      BY <1>1, <3>2 DEF shared, OwnFiles
    <3> QED BY <3>3, NextShares
  <2> QED BY <2>1, <2>2, <2>3
<1>2. ASSUME NEW r \in Requests, Start(r) PROVE k \in objects' \/ shared(k)'
  <2>1. q # r
    BY <1>2, StartEffect
  <2>2. req'[q] = req[q] /\ req[q].at # "idle"
    BY <1>2, <2>1, StartEffect
  <2>3. orderOf[q] \in orders
    BY <1>2, <2>2, StartFrame, StartEffect DEF NoReturn, begun
  <2> QED BY <1>1, <1>2, <2>1, <2>2, <2>3, StartFrame, StartEffect DEF RemoveOrphans, removing
<1>3. ASSUME NEW r \in Requests, Step(r) PROVE k \in objects' \/ shared(k)'
  <2>1. orderOf[q] \in orders
    BY <1>3, StepFrame DEF Undo
  <2>2. CASE q # r
    <3>1. req'[q] = req[q]
      BY <1>3, <2>2, StepEffect
    <3>2. ~RemoveOrphans(q)
      BY <3>1 DEF RemoveOrphans, removing
    <3> QED BY <1>1, <2>1, <3>1, <3>2
  <2>3. CASE q = r /\ EndPut(r)
    <3>1. objects' = objects \union {nextKey(r)} /\ req'[r].left = req[r].left \ {nextKey(r)}
          /\ req[r].at = "putting" /\ req'[r].fresh = req[r].fresh
      BY <2>3 DEF EndPut, TypeOK
    <3> QED BY <1>1, <2>1, <2>3, <3>1 DEF RemoveOrphans, removing
  <2>4. CASE q = r /\ ~EndPut(r)
    <3>1. req[r].at \in early /\ ~ReadLive(r) /\ ~RemoveOrphans(r)
      BY <1>3, <2>4
         DEF Step, Measure, Reserve, StartPut, FailPut, BeginTx, FailTx, CommitTx, Committed, ReadLive,
             RemoveOrphans, FailSweep, Undo, leaves, goes, TypeOK, uploaded, sweeping, removing
    <3>2. req'[r].left = req[r].left /\ req'[r].fresh = req[r].fresh
      BY <1>3, <2>4, <3>1, StepEffect
    <3> QED BY <1>1, <2>1, <2>4, <3>1, <3>2
  <2> QED BY <2>2, <2>3, <2>4
<1>4. ASSUME NEW o \in Orders, RemovalStep(o) PROVE k \in objects' \/ shared(k)'
  <2>1. req' = req /\ orders' \subseteq orders
    BY <1>4, RemovalFrame DEF DeleteOrder, database
  <2> QED BY <1>1, <2>1 DEF RemoveOrphans, removing
<1>5. CASE UNCHANGED vars
  BY <1>1, <1>5 DEF RemoveOrphans, removing, vars
<1> QED BY <1>2, <1>3, <1>4, <1>5 DEF Next, RemovalStep

LEMMA NextSwept ==
  ASSUME TypeOK, OwnFiles, Swept, [Next]_vars
  PROVE  Swept'
<1> SUFFICES ASSUME NEW q \in Requests, removing(q)', NEW k \in req'[q].left \intersect rows'
             PROVE  shared(k)'
  BY DEF Swept
<1>1. ASSUME req'[q] = req[q], k \in rows PROVE shared(k)'
  BY <1>1, NextShares DEF Swept, removing
<1>2. ASSUME NEW r \in Requests, Start(r) PROVE shared(k)'
  BY <1>1, <1>2, StartEffect, StartFrame DEF removing
<1>3. ASSUME NEW r \in Requests, Step(r) PROVE shared(k)'
  <2>1. CASE CommitTx(r)
    <3>1. q # r /\ req'[q] = req[q]
      BY <1>3, <2>1, Inserts, StepEffect DEF removing
    <3>2. k \in rows \/ k \in req[r].fresh
      BY <2>1, Inserts
    <3>3. k \in req[q].fresh
      BY <3>1 DEF OwnFiles
    <3>4. CASE k \in req[r].fresh
      <4>1. shared(k)
        BY <3>1, <3>3, <3>4 DEF shared
      <4> QED BY <4>1, NextShares
    <3> QED BY <1>1, <3>1, <3>2, <3>4
  <2>2. CASE ReadLive(r) /\ q = r
    <3>1. req'[r].left = orphans(r) /\ rows' = rows
      BY <2>2 DEF ReadLive, TypeOK, database
    <3> QED BY <2>2, <3>1 DEF orphans
  <2>3. CASE ~CommitTx(r) /\ ~(ReadLive(r) /\ q = r)
    <3>1. q # r
      BY <1>3, <2>3
         DEF Step, Measure, Reserve, StartPut, EndPut, FailPut, BeginTx, FailTx, Committed, RemoveOrphans,
             FailSweep, Undo, leaves, goes, TypeOK, removing
    <3>2. rows' \subseteq rows
      BY <1>3, <2>3, StepFrame DEF Undo
    <3> QED BY <1>1, <1>3, <3>1, <3>2, StepEffect
  <2> QED BY <2>1, <2>2, <2>3
<1>4. ASSUME NEW o \in Orders, RemovalStep(o) PROVE shared(k)'
  <2>1. req' = req /\ rows' \subseteq rows
    BY <1>4, RemovalFrame DEF DeleteOrder, database
  <2> QED BY <1>1, <2>1
<1> QED BY <1>1, <1>2, <1>3, <1>4 DEF Next, RemovalStep, vars

LEMMA NextRowsHaveObjects ==
  ASSUME TypeOK, OwnFiles, RowsHaveOrder, Alone, Removals, Uploaded, Swept, RowsHaveObjects,
         [Next]_vars
  PROVE  RowsHaveObjects'
<1> SUFFICES ASSUME NEW k \in rows' PROVE k \in objects' \/ shared(k)'
  BY DEF RowsHaveObjects
<1>1. k \in rows \/ \E r \in Requests : CommitTx(r) /\ k \in insertedBy(r)
  <2>1. ASSUME NEW r \in Requests, Step(r)
        PROVE  k \in rows \/ (CommitTx(r) /\ k \in insertedBy(r))
    <3>1. CASE CommitTx(r)
      BY <3>1, Inserts
    <3>2. CASE ~CommitTx(r)
      BY <2>1, <3>2, StepFrame DEF Undo
    <3> QED BY <3>1, <3>2
  <2>2. ASSUME NEW o \in Orders, RemovalStep(o) PROVE k \in rows
    BY <2>2, RemovalFrame DEF DeleteOrder, database
  <2> QED BY <2>1, <2>2, StartFrame DEF Next, RemovalStep, vars
<1>2. CASE k \in rows
  <2>1. k \in objects \/ shared(k)
    BY <1>2 DEF RowsHaveObjects
  <2>2. CASE shared(k)
    BY <2>2, NextShares
  <2>3. CASE k \in objects \ objects'
    <3>1. PICK r \in Requests : removing(r) /\ k \in req[r].left
      BY <1>2, <2>3, LeavesBucket DEF RowsHaveOrder
    <3>2. shared(k)
      BY <1>2, <3>1 DEF Swept
    <3> QED BY <3>2, NextShares
  <2> QED BY <2>1, <2>2, <2>3
<1>3. ASSUME NEW r \in Requests, CommitTx(r), k \in insertedBy(r)
      PROVE  k \in objects' \/ shared(k)'
  <2>1. req[r].at = "inserting" /\ k \in req[r].fresh \ req[r].left /\ orderOf[r] \in orders
    BY <1>3, Inserts DEF OwnFiles, Alone, inTransaction
  <2>2. k \in objects \/ shared(k)
    BY <2>1 DEF Uploaded
  <2>3. objects' = objects
    BY <1>3 DEF CommitTx, bucket
  <2> QED BY <2>2, <2>3, NextShares
<1> QED BY <1>1, <1>2, <1>3

\* Why an object without a row is none the less accounted for.
reason(k) ==
  \/ \E r \in Requests : caresFor(r, k)
  \/ k \in logged
  \/ removal[k[1]].at = "deleted" /\ k \in removal[k[1]].keys
  \/ k[1] \notin orders /\ ~removedWith(k)

LEMMA StartKeepsReason ==
  ASSUME TypeOK, OwnFiles, NoReturn, Brought, NEW k \in objects, reason(k),
         NEW r \in Requests, Start(r)
  PROVE  reason(k)'
<1>1. \A q \in Requests : caresFor(q, k) => caresFor(q, k)'
  BY StartEffect DEF caresFor, holdsSpace, removing
<1>2. k[1] \notin orders => k[1] \notin orders'
  <2> SUFFICES ASSUME k[1] \notin orders, k[1] = orderOf[r] PROVE FALSE
    BY StartFrame
  <2>1. PICK q \in Requests : k \in req[q].fresh
    BY DEF Brought
  <2>2. orderOf[q] = orderOf[r] /\ req[q].at # "idle"
    BY <2>1 DEF OwnFiles
  <2>3. begun(orderOf[r])
    BY <2>2 DEF NoReturn
  <2> QED BY <2>3, StartFrame, StartEffect DEF begun
<1> QED BY <1>1, <1>2, StartFrame DEF reason, removedWith

LEMMA StepKeepsReason ==
  ASSUME TypeOK, OwnFiles, RowsHaveOrder, Removals, Inserted, Accounted,
         NEW r \in Requests, Step(r), NEW k \in objects' \ rows'
  PROVE  reason(k)'
<1>1. /\ removal' = removal /\ orders' \subseteq orders
      /\ logged \subseteq logged'
      /\ \A q \in Requests : q # r => (caresFor(q, k)' <=> caresFor(q, k))
  BY StepFrame, StepEffect DEF Undo, FailSweep, caresFor, holdsSpace, removing
<1>2. SUFFICES ASSUME k \in objects \ rows => caresFor(r, k) PROVE reason(k)'
  BY <1>1 DEF Accounted, reason, removedWith
<1>3. CASE EndPut(r) \/ FailPut(r)
  <2>1. k \in req[r].fresh
    BY <1>2, <1>3, NextKeyOfRequest DEF EndPut, FailPut, caresFor, database
  <2>2. caresFor(r, k)'
    BY <1>3, <2>1, StepEffect DEF EndPut, FailPut, goes, TypeOK, caresFor, holdsSpace, removing
  <2> QED BY <2>2 DEF reason
<1>4. CASE Undo(r)
  <2>1. k \in objects /\ ~caresFor(r, k)
    BY <1>4 DEF Undo, caresFor, holdsSpace, bucket
  <2>2. k \in rows /\ k[1] = orderOf[r] /\ orders' = orders \ {orderOf[r]}
    BY <1>2, <1>4, <2>1 DEF Undo
  <2>3. ~removedWith(k) /\ k[1] \in Orders
    BY <2>2, UploadsAssumption DEF RowsHaveOrder, Removals, removedWith
  <2> QED BY <1>1, <2>2, <2>3 DEF reason, removedWith
<1>5. CASE ~(EndPut(r) \/ FailPut(r) \/ Undo(r))
  <2>1. k \in objects /\ k \notin rows
    BY <1>5, StepFrame, Inserts DEF RemoveOrphans
  <2>2. caresFor(r, k)
    BY <1>2, <2>1
  <2>3. CASE Reserve(r) \/ Measure(r)
    BY <2>2, <2>3 DEF Reserve, Measure, caresFor, holdsSpace
  <2>4. CASE StartPut(r) \/ BeginTx(r) \/ FailTx(r) \/ CommitTx(r)
    <3>1. holdsSpace(r)' /\ ~removing(r)'
      BY <2>4 DEF StartPut, BeginTx, FailTx, CommitTx, goes, TypeOK, holdsSpace, removing
    <3> QED BY <2>2, <3>1, StepEffect DEF reason, caresFor
  <2>5. CASE Committed(r)
    <3>1. req[r].at = "insertedPart" /\ goes(r, "sweepingPart")
      <4>1. req[r].at # "inserted"
        BY <2>1, <2>2 DEF Inserted, caresFor
      <4> QED BY <2>5, <4>1 DEF Committed
    <3>2. holdsSpace(r)' /\ ~removing(r)'
      BY <3>1 DEF goes, TypeOK, holdsSpace, removing
    <3> QED BY <2>2, <3>2, StepEffect DEF reason, caresFor
  <2>6. CASE ReadLive(r)
    <3>1. k \in orphans(r) /\ req'[r].left = orphans(r) /\ holdsSpace(r)'
      BY <2>1, <2>2, <2>6 DEF ReadLive, orphans, caresFor, TypeOK, holdsSpace
    <3> QED BY <2>2, <3>1, StepEffect DEF reason, caresFor
  <2>7. CASE RemoveOrphans(r)
    BY <2>2, <2>7 DEF RemoveOrphans, caresFor
  <2>8. CASE FailSweep(r)
    <3>1. k \in logged'
      BY <2>2, <2>8 DEF FailSweep, caresFor, sweeping, removing
    <3> QED BY <3>1 DEF reason
  <2> QED BY <1>5, <2>3, <2>4, <2>5, <2>6, <2>7, <2>8 DEF Step
<1> QED BY <1>3, <1>4, <1>5

LEMMA RemovalKeepsReason ==
  ASSUME TypeOK, OwnFiles, RowsHaveOrder, Removals, Accounted,
         NEW o \in Orders, RemovalStep(o), NEW k \in objects' \ rows'
  PROVE  reason(k)'
<1>1. \A q \in Requests : caresFor(q, k)' <=> caresFor(q, k)
  BY RemovalFrame DEF caresFor, holdsSpace, removing
<1>2. k \in objects /\ k[1] \in Orders /\ logged \subseteq logged'
  BY RemovalFrame DEF RemoveObjects, TypeOK, Keys
<1>3. CASE ListKeys(o)
  <2>1. /\ k \notin rows /\ orders' = orders /\ o \in orders
        /\ removal' = [removal EXCEPT ![o] = [at |-> "listed", keys |-> {l \in rows : l[1] = o}]]
        /\ removal[o].at = "none"
    BY <1>3 DEF ListKeys, database
  <2>2. reason(k)
    BY <1>2, <2>1 DEF Accounted, reason
  <2>3. \A p \in Orders : p # o => removal'[p] = removal[p]
    BY <2>1 DEF TypeOK
  <2> QED BY <1>1, <1>2, <2>1, <2>2, <2>3 DEF reason, removedWith
<1>4. CASE DeleteOrder(o)
  <2>1. /\ removal[o].at = "listed"
        /\ \A p \in Orders : p # o => removal'[p] = removal[p]
        /\ removal'[o].keys = removal[o].keys
    BY <1>4 DEF DeleteOrder, TypeOK
  <2>2. CASE /\ o \in orders /\ orders' = orders \ {o} /\ rows' = {l \in rows : l[1] # o}
             /\ removal'[o].at = "deleted"
    <3>1. CASE k[1] = o
      BY <2>2, <3>1 DEF reason, removedWith
    <3>2. CASE k[1] # o
      <4>1. k \notin rows
        BY <2>2, <3>2
      <4>2. reason(k)
        BY <1>2, <4>1 DEF Accounted, reason
      <4> QED BY <1>1, <1>2, <2>1, <2>2, <3>2, <4>2 DEF reason, removedWith
    <3> QED BY <3>1, <3>2
  <2>3. CASE removal'[o].at = "refused" /\ orders' = orders /\ rows' = rows
    <3>1. reason(k)
      BY <1>2, <2>3 DEF Accounted, reason
    <3> QED BY <1>1, <1>2, <2>1, <2>3, <3>1 DEF reason, removedWith
  <2> QED BY <1>4, <2>2, <2>3 DEF DeleteOrder, TypeOK, database
<1>5. CASE RemoveObjects(o)
  <2>1. /\ removal[o].at = "deleted" /\ removal'[o].at = "done"
        /\ \A p \in Orders : p # o => removal'[p] = removal[p]
        /\ removal'[o].keys = removal[o].keys
        /\ rows' = rows /\ orders' = orders
        /\ k \in removal[o].keys => k \in logged'
    BY <1>5 DEF RemoveObjects, TypeOK, database
  <2>2. reason(k)
    BY <1>2, <2>1 DEF Accounted, reason
  <2> QED BY <1>1, <1>2, <2>1, <2>2 DEF reason, removedWith
<1> QED BY <1>3, <1>4, <1>5 DEF RemovalStep

LEMMA NextAccounted ==
  ASSUME TypeOK, OwnFiles, RowsHaveOrder, NoReturn, Removals, Brought, Inserted, Accounted,
         [Next]_vars
  PROVE  Accounted'
<1> SUFFICES ASSUME NEW k \in objects' \ rows' PROVE reason(k)'
  BY DEF Accounted, reason
<1>1. ASSUME NEW r \in Requests, Start(r) PROVE reason(k)'
  <2>1. k \in objects /\ reason(k)
    BY <1>1, StartFrame DEF Accounted, reason
  <2> QED BY <1>1, <2>1, StartKeepsReason
<1>2. CASE UNCHANGED vars
  <2>1. reason(k)
    BY <1>2 DEF vars, Accounted, reason
  <2> QED BY <1>2, <2>1 DEF vars, reason, removedWith, caresFor, holdsSpace, removing
<1> QED BY <1>1, <1>2, StepKeepsReason, RemovalKeepsReason DEF Next, RemovalStep

LEMMA NextInv == IInv /\ [Next]_vars => IInv'
<1> SUFFICES ASSUME IInv, [Next]_vars PROVE IInv'
  OBVIOUS
<1> USE DEF IInv, BucketInv
<1>1. OwnFiles' /\ TypeOK'
  BY NextOwnFiles, NextTypes
<1>2. RowsHaveOrder' /\ Alone'
  BY NextRowsHaveOrder, NextAlone
<1>3. StillFitting'
  BY <1>1, NextStillFitting
<1>4. OrderWithinQuota'
  BY <1>1, NextOrderWithinQuota
<1>5. Promised' /\ SlotsHeld'
  BY NextPromised, NextSlotsHeld
<1>6. NoReturn' /\ Removals' /\ Brought' /\ Inserted'
  BY NextNoReturn, NextRemovals, NextBrought, NextInserted
<1>7. Uploaded' /\ Swept' /\ RowsHaveObjects' /\ Accounted'
  BY NextUploaded, NextSwept, NextRowsHaveObjects, NextAccounted
<1> QED BY <1>1, <1>2, <1>3, <1>4, <1>5, <1>6, <1>7

LEMMA Invariance == Spec => []IInv
BY InitInv, NextInv, PTL DEF Spec

-----------------------------------------------------------------------------
(* The theorems *)

\* The state keeps its types; the slots in use are never more than there are, and
\* no account's promises go below zero.
THEOREM FileUploadsTypes == Spec => []TypeOK
<1>1. IInv => TypeOK
  BY DEF IInv
<1> QED BY <1>1, Invariance, PTL

\* The rows of an order never take more than its quota: the check is made in a
\* transaction of the order, and those do not overlap.
THEOREM OrderAlwaysWithinQuota == Spec => []OrderWithinQuota
<1>1. IInv => OrderWithinQuota
  BY DEF IInv
<1> QED BY <1>1, Invariance, PTL

\* The bytes promised in each account are those of the requests on their way,
\* whichever way a request ends.
THEOREM PromisesAlwaysKept == Spec => []PromisesAreKept
<1>1. IInv => PromisesAreKept
  BY DEF IInv, Promised, PromisesAreKept, held, heldBy, holders
<1> QED BY <1>1, Invariance, PTL

\* A row has its object unless another request brings the same file, and an object
\* without a row is in somebody's care, in the log, or of an order that is gone.
THEOREM BucketAlwaysFollowsTable == Spec => []BucketFollowsTable
<1>1. IInv => LonelyRowHasObject
  BY DEF IInv, BucketInv, RowsHaveObjects, LonelyRowHasObject, shared
<1>2. IInv => LeftoversAccounted
  <2> SUFFICES ASSUME IInv, NEW k \in objects \ rows
               PROVE  \/ \E r \in Requests : holdsSpace(r) /\ k \in req[r].fresh
                      \/ k \in logged
                      \/ removal[k[1]].at = "deleted" /\ k \in removal[k[1]].keys
                      \/ k[1] \notin orders /\ ~removedWith(k)
    BY DEF LeftoversAccounted, removedWith
  <2>1. \A r \in Requests : caresFor(r, k) => holdsSpace(r) /\ k \in req[r].fresh
    BY DEF caresFor
  <2> QED BY <2>1 DEF IInv, BucketInv, Accounted
<1> QED BY <1>1, <1>2, Invariance, PTL DEF BucketFollowsTable

=============================================================================
