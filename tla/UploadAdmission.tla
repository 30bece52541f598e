---------------------------- MODULE UploadAdmission ----------------------------
(***************************************************************************)
(* Requests with files in front of the queue of the order.  The last guard *)
(* of such a request (UploadAdmissionGuard) asks the database whether the  *)
(* files will fit, and takes one of a few slots (UploadSlots), which the   *)
(* close of the response gives back; the handler that follows runs its     *)
(* transactions through the queue of the order like any other request.     *)
(*                                                                         *)
(* The client may close the connection at any moment.  The handler goes on *)
(* all the same; and an event close that comes before the guard listens    *)
(* for it is never heard.                                                  *)
(***************************************************************************)
EXTENDS KeyedQueue

CONSTANTS
  Uploads,    \* the callers that send files
  slotLimit,  \* MAX_CONCURRENT_UPLOAD_REQUESTS
  MaxLost     \* bound: connections that close before the guard listens

ASSUME AdmissionAssumption ==
  /\ Uploads \subseteq Callers /\ IsFiniteSet(Uploads)
  /\ slotLimit \in Nat \ {0}
  /\ MaxLost \in Nat

VARIABLES
  stage,      \* where each request with files is
  active,     \* UploadSlots.active
  lost        \* slots whose close went unheard

admissionVars == <<stage, active, lost>>
allVars == <<vars, admissionVars>>

AdmissionInit ==
  /\ Init
  /\ stage = [u \in Uploads |-> "away"]
  /\ active = 0
  /\ lost = 0

moves(u, from, to) ==
  /\ stage[u] = from
  /\ stage' = [stage EXCEPT ![u] = to]

-----------------------------------------------------------------------------
(* The guard *)

\* canActivate up to its await.
Arrive(u) == moves(u, "away", "checking") /\ UNCHANGED <<active, lost>>

CloseEarly(u) ==
  /\ lost < MaxLost
  /\ moves(u, "checking", "closed") /\ UNCHANGED <<active, lost>>

\* The files do not fit, or there is no slot (503).
Refuse(u) ==
  /\ moves(u, "checking", "away") \/ moves(u, "closed", "away")
  /\ UNCHANGED <<active, lost>>

hasSlot == active < slotLimit

\* tryAcquire, and once("close").  A request that is closed already gets its
\* slot too; it has no body to read, and its handler ends without the queue.
TakeSlot(u) ==
  /\ hasSlot
  /\ active' = active + 1
  /\ \/ moves(u, "checking", "open") /\ UNCHANGED lost
     \/ moves(u, "closed", "away") /\ lost' = lost + 1

-----------------------------------------------------------------------------
(* The end of the response *)

\* The handler has answered: the response is finished, and closes.
Respond(u) ==
  /\ moves(u, "open", "away") /\ pc[u] = "idle"
  /\ active' = active - 1
  /\ UNCHANGED lost

\* Had the guard listened for finish.
SlipAbortUnheard == active
activeAfterAbort == active - 1

\* The client goes away: the slot is free while the handler is still at work.
Abort(u) ==
  /\ moves(u, "open", "aborted")
  /\ active' = activeAfterAbort
  /\ UNCHANGED lost

End(u) == moves(u, "aborted", "away") /\ pc[u] = "idle" /\ UNCHANGED <<active, lost>>

-----------------------------------------------------------------------------
GuardStep(u) ==
  Arrive(u) \/ CloseEarly(u) \/ Refuse(u) \/ TakeSlot(u) \/ Respond(u) \/ Abort(u) \/ End(u)

mayCall(c) == c \in Uploads => stage[c] \in {"open", "aborted"}

AdmissionNext ==
  \/ \E u \in Uploads : GuardStep(u) /\ UNCHANGED vars
  \/ \E c \in Callers : mayCall(c) /\ Acquire(c) /\ UNCHANGED admissionVars
  \/ \E c \in Callers : Enter(c) /\ UNCHANGED admissionVars
  \/ \E c \in Callers : Expire(c) /\ UNCHANGED admissionVars
  \/ \E c \in Callers : Finish(c) /\ UNCHANGED admissionVars

AdmissionSpec == AdmissionInit /\ [][AdmissionNext]_allVars /\ Fairness

-----------------------------------------------------------------------------
(* Properties *)

open == {u \in Uploads : stage[u] = "open"}

\* The number of slots in use is that of the responses that are still open,
\* through refusals, aborted connections and handlers that outlive theirs; and
\* every slot beyond these is one whose close nobody heard.
SlotsAccounted == active = Cardinality(open) + lost /\ active <= slotLimit

\* The comment on the guard: a slot is given back when the response closes, on
\* success, on an error, and when the connection breaks.
SlotsAreGivenBack == active = Cardinality(open)

=============================================================================
