------------------------------ MODULE KeyedQueue ------------------------------
(***************************************************************************)
(* The in-memory queue in front of the transactions of an order: tasks     *)
(* with one key run one at a time, in the order in which they came, with a *)
(* limit on how many may wait and on how long (KeyedQueue, and its only    *)
(* instance orderQueue behind runInOrderQueue).                            *)
(*                                                                         *)
(* The program has one thread, so acquire, release and the timer's         *)
(* callback are steps.  A call that acquire lets through, at once or by    *)
(* resolving its promise, starts its task in a later step: Enter.  The     *)
(* same caller may call again and again, so the queue is under load for    *)
(* ever.                                                                   *)
(***************************************************************************)
EXTENDS Naturals, SequencesExt

CONSTANTS
  Callers,     \* requests that run a transaction of an order
  Keys,        \* orders
  keyOf,       \* the order of each request
  maxWaiting   \* options.maxWaiting

ASSUME QueueAssumption ==
  /\ keyOf \in [Callers -> Keys]
  /\ maxWaiting \in Nat

VARIABLES
  lanes,     \* the keys of the map lanes
  waiting,   \* lane.waiting; empty for a key without a lane
  pc         \* where each caller is

vars == <<lanes, waiting, pc>>

Holds(c) == pc[c] \in {"entering", "running"}

-----------------------------------------------------------------------------
Init ==
  /\ lanes = {}
  /\ waiting = [k \in Keys |-> <<>>]
  /\ pc = [c \in Callers |-> "idle"]

\* A key that was passed on is taken, though its next task has yet to start.
SlipIsFree(k) == ~\E c \in Callers : keyOf[c] = k /\ pc[c] = "running"
isFree(k) == k \notin lanes

laneFull(k) == Len(waiting[k]) >= maxWaiting

\* acquire(): a free key is taken at once, a busy one is waited for behind the
\* others; when too many wait already, the call is rejected ("full").
Acquire(c) ==
  LET k == keyOf[c] IN
  /\ pc[c] = "idle"
  /\ \/ /\ isFree(k)
        /\ lanes' = lanes \union {k}
        /\ pc' = [pc EXCEPT ![c] = "entering"]
        /\ UNCHANGED waiting
     \/ /\ ~isFree(k) /\ ~laneFull(k)
        /\ waiting' = [waiting EXCEPT ![k] = Append(@, c)]
        /\ pc' = [pc EXCEPT ![c] = "waiting"]
        /\ UNCHANGED lanes

\* The continuation of acquire: the task starts.
Enter(c) ==
  /\ pc[c] = "entering"
  /\ pc' = [pc EXCEPT ![c] = "running"]
  /\ UNCHANGED <<lanes, waiting>>

spliced(k, i) == RemoveAt(waiting[k], i)

\* The timer of a waiting call fires: it leaves the queue ("timeout").
Expire(c) ==
  LET k == keyOf[c] IN
  /\ pc[c] = "waiting"
  /\ \E i \in 1..Len(waiting[k]) :
       waiting[k][i] = c /\ waiting' = [waiting EXCEPT ![k] = spliced(k, i)]
  /\ pc' = [pc EXCEPT ![c] = "idle"]
  /\ UNCHANGED lanes

\* Who is next, and who waits after that (waiting.shift()).
SlipShift(s) == <<s[Len(s)], SubSeq(s, 1, Len(s) - 1)>>
shift(s) == <<Head(s), Tail(s)>>

lanesWithout(k) == lanes \ {k}

\* The task ends, with a result or an error, and release() passes the key on to
\* the next in the queue, or gives it up.
Finish(c) ==
  LET k == keyOf[c] IN
  /\ pc[c] = "running"
  /\ \/ /\ waiting[k] # <<>>
        /\ pc' = [pc EXCEPT ![c] = "idle", ![shift(waiting[k])[1]] = "entering"]
        /\ waiting' = [waiting EXCEPT ![k] = shift(@)[2]]
        /\ UNCHANGED lanes
     \/ /\ waiting[k] = <<>>
        /\ pc' = [pc EXCEPT ![c] = "idle"]
        /\ lanes' = lanesWithout(k)
        /\ UNCHANGED waiting

Next == \E c \in Callers : Acquire(c) \/ Enter(c) \/ Expire(c) \/ Finish(c)

\* A resolved promise continues, and a transaction ends: it has a timeout of its
\* own.  Nothing is assumed of callers and of timers.
Fairness == \A c \in Callers : WF_vars(Enter(c)) /\ WF_vars(Finish(c))

Spec == Init /\ [][Next]_vars

FairSpec == Spec /\ Fairness

-----------------------------------------------------------------------------
(* Properties *)

TypeOK ==
  /\ lanes \subseteq Keys
  /\ waiting \in [Keys -> Seq(Callers)]
  /\ pc \in [Callers -> {"idle", "waiting", "entering", "running"}]

\* Tasks with one key run one at a time, also between the moment the key is
\* passed on and the moment the next task starts.
OneAtATime ==
  \A b, c \in Callers : b # c /\ keyOf[b] = keyOf[c] => ~(Holds(b) /\ Holds(c))

\* There is a lane exactly while somebody has the key: none is left behind by
\* the last task, and none disappears under those who wait.
LaneIffHeld == \A k \in Keys : k \in lanes <=> \E c \in Callers : keyOf[c] = k /\ Holds(c)

\* Whoever waits is in the queue of its key once, and the queue holds nobody
\* else: the key is never passed to a call that has given up.
QueueIsWhoWaits ==
  /\ \A k \in Keys : \A i \in 1..Len(waiting[k]) :
       /\ pc[waiting[k][i]] = "waiting" /\ keyOf[waiting[k][i]] = k
       /\ \A j \in 1..Len(waiting[k]) : waiting[k][i] = waiting[k][j] => i = j
  /\ \A c \in Callers : pc[c] = "waiting" =>
       \E i \in 1..Len(waiting[keyOf[c]]) : waiting[keyOf[c]][i] = c

\* At most maxWaiting wait for a key, and only behind a task that has it.
QueueBounded ==
  \A k \in Keys : Len(waiting[k]) <= maxWaiting /\ (waiting[k] # <<>> => k \in lanes)

\* A call that waits gets the key or gives up, however often others come back:
\* nobody is overtaken for ever, whether or not the timers ever fire.
EveryWaitEnds == \A c \in Callers : pc[c] = "waiting" ~> pc[c] # "waiting"

=============================================================================
