------------------------------ MODULE OrderRules ------------------------------
(***************************************************************************)
(* The rules that the backend and the frontend share (shared/src): the     *)
(* statuses of an order and of an offer, the table of allowed transitions, *)
(* and the predicates that both sides compute from it.  Everything here is *)
(* a constant; OrderLifecycle gives it state.                              *)
(***************************************************************************)
EXTENDS Integers

OrderStatus ==
  {"WAITING", "AWAITING_CONFIRMATION", "IN_PROGRESS",
   "AWAITING_COMPLETION_CONFIRMATION", "COMPLETION_DISPUTED", "COMPLETED"}

OfferStatus ==
  {"SENT", "ACCEPTED", "REJECTED", "NOT_ACCEPTED", "WITHDRAWN",
   "WORK_SUBMITTED", "COMPLETED", "BACK_FOR_OVERRIDE"}

OrderEventType ==
  {"OFFER_SUBMITTED", "OFFER_WITHDRAWN", "OFFER_REJECTED", "OFFER_ACCEPTED",
   "WORK_SUBMITTED", "WORK_CONFIRMED", "WORK_DISPUTED"}

\* The value of a nullable offer status: there is no row yet.
NoOffer == "NO_OFFER"

-----------------------------------------------------------------------------
(* Groups of statuses *)

OFFER_ELIGIBLE_ORDER_STATUSES == {"WAITING", "AWAITING_CONFIRMATION"}

DELETABLE_ORDER_STATUSES == {"WAITING", "AWAITING_CONFIRMATION"}

WORK_UPLOAD_ORDER_STATUSES == {"IN_PROGRESS", "COMPLETION_DISPUTED"}

AREA_VERIFIABLE_ORDER_STATUSES ==
  {"IN_PROGRESS", "AWAITING_COMPLETION_CONFIRMATION", "COMPLETION_DISPUTED"}

RESUBMITTABLE_OFFER_STATUSES == {"WITHDRAWN", "REJECTED"}

EXECUTING_OFFER_STATUSES == {"ACCEPTED", "WORK_SUBMITTED", "BACK_FOR_OVERRIDE"}

EXECUTOR_OFFER_STATUSES == EXECUTING_OFFER_STATUSES \union {"COMPLETED"}

ACTIVE_OFFER_STATUSES == {"SENT"} \union EXECUTOR_OFFER_STATUSES

MAX_OFFER_REJECTIONS == 2

-----------------------------------------------------------------------------
(* The transition table and the precondition on the offer *)

ORDER_TRANSITIONS ==
  [s \in OrderStatus |->
     CASE s = "WAITING" -> {"OFFER_SUBMITTED"}
       [] s = "AWAITING_CONFIRMATION" ->
            {"OFFER_SUBMITTED", "OFFER_WITHDRAWN", "OFFER_REJECTED", "OFFER_ACCEPTED"}
       [] s \in WORK_UPLOAD_ORDER_STATUSES -> {"WORK_SUBMITTED"}
       [] s = "AWAITING_COMPLETION_CONFIRMATION" -> {"WORK_CONFIRMED", "WORK_DISPUTED"}
       [] s = "COMPLETED" -> {}]

OFFER_PRECONDITIONS ==
  [e \in OrderEventType |->
     CASE e = "OFFER_SUBMITTED" -> {"SENT"} \union RESUBMITTABLE_OFFER_STATUSES
       [] e \in {"OFFER_WITHDRAWN", "OFFER_REJECTED", "OFFER_ACCEPTED"} -> {"SENT"}
       [] e = "WORK_SUBMITTED" -> {"ACCEPTED", "BACK_FOR_OVERRIDE"}
       [] e \in {"WORK_CONFIRMED", "WORK_DISPUTED"} -> {"WORK_SUBMITTED"}]

\* NoOffer stands for a null offer status, which has no precondition.
canTransition(status, event, offerStatus) ==
  /\ status \in OrderStatus
  /\ event \in ORDER_TRANSITIONS[status]
  /\ offerStatus = NoOffer \/ offerStatus \in OFFER_PRECONDITIONS[event]

-----------------------------------------------------------------------------
(* Predicates *)

acceptsOffers(status) == status \in OFFER_ELIGIBLE_ORDER_STATUSES

canDeleteOrder(status) == status \in DELETABLE_ORDER_STATUSES

canUploadWork(status) == status \in WORK_UPLOAD_ORDER_STATUSES

canVerifyArea(status) == status \in AREA_VERIFIABLE_ORDER_STATUSES

isExecutorOffer(status) == status \in EXECUTOR_OFFER_STATUSES

isActiveOffer(status) == status \in ACTIVE_OFFER_STATUSES

isPendingOffer(status) == status = "SENT"

\* The executor sees what the client attached; others while they may still offer.
companySeesTaskFiles(orderStatus, offerStatus) ==
  isExecutorOffer(offerStatus) \/ acceptsOffers(orderStatus)

isFinallyRejected(status, rejectionCount) ==
  status = "REJECTED" /\ rejectionCount >= MAX_OFFER_REJECTIONS

\* Dates are day numbers; a deadline of today has not passed yet.
isOfferExpired(proposedDeadline, today) == proposedDeadline < today

=============================================================================
