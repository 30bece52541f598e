------------------------------ MODULE OrderProofs ------------------------------
(***************************************************************************)
(* Proofs about an order, for any set of companies, terms, files and       *)
(* texts, and any bounds, in five parts.                                   *)
(*                                                                         *)
(* The lifecycle: its types; the choice of an executor (the order and its  *)
(* offers stay consistent, the deal is the executor's offer, a final       *)
(* rejection is final); the work (rounds follow the status of the order,   *)
(* and what was submitted or completed stays so); and what the two sides   *)
(* may rely on: the client gets the terms its tab showed, and the          *)
(* lifecycle implements OrderContract.                                     *)
(*                                                                         *)
(* What each user gets of an order and is told of it: files, rooms, the    *)
(* mask over its progress, and the buttons that the page makes of the      *)
(* answer; the doors to an offer, the notifications that collapse without  *)
(* swallowing news, the companies told of a removal, and who takes part,   *)
(* for the rooms of the gateway.                                           *)
(*                                                                         *)
(* The state machine and the transition service implement the lifecycle:   *)
(* whatever is proved of it holds of the code that is split in two; and    *)
(* what a refusal advises its reader to do next is so.                     *)
(*                                                                         *)
(* The page: every sentence of its cards, rows and dialogs holds of the    *)
(* order it shows, card by card and dialog by dialog, from the invariants  *)
(* above and a few more facts about columns.                               *)
(*                                                                         *)
(* The open screens: whatever a step changes on a screen of some user, an  *)
(* event that this screen listens to is sent to a room it is in.           *)
(***************************************************************************)
EXTENDS LiveScreens, FiniteSetTheorems, FunctionTheorems, TLAPS

-----------------------------------------------------------------------------
(* Types *)

\* The two ways in which the notifications change keep their type.
LEMMA CreateNotificationsType ==
  ASSUME NEW new, new \subseteq Notice, notices \subseteq Notice, createNotifications(new)
  PROVE  notices' \subseteq Notice
  BY DEF createNotifications

\* A notification written by the code is a row of the right type.
LEMMA NotifyType ==
  ASSUME NEW u \in Users, NEW t \in NoticeType, NEW k \in NoticeKey \union {Null}
  PROVE  notify(u, t, k) \in Notice
  BY DEF notify, Notice

LEMMA KeysAreKeys ==
  /\ \A c \in Companies : offerKey(c) \in NoticeKey /\ c \in Users
  /\ orderFilesKey \in NoticeKey /\ orderAreaKey \in NoticeKey
  /\ Client \in Users
  BY DEF NoticeKey, offerKey, orderFilesKey, orderAreaKey, Users

LEMMA DeleteRowType ==
  ASSUME DeleteRow
  PROVE  /\ status' = "DELETED"
         /\ deal' = Null /\ correctionComment' = Null /\ clientCompletionComment' = Null
         /\ verifiedSquareMeters' = Null /\ taskFiles' = {}
         /\ offerStatus' \in [Companies -> OfferStatus \union {NoOffer}]
         /\ proposed' \in [Companies -> Terms \union {Null}]
         /\ \A c \in Companies : offerStatus'[c] = NoOffer
         /\ editedAt' \in [Companies -> Nat \union {Null}]
         /\ rejectionCount' \in [Companies -> Nat]
         /\ roundState' \in [Round -> {"none", "open", "sent"}]
         /\ roundComment' \in [Round -> Texts \union {Null}]
         /\ roundFiles' \in [Round -> SUBSET Files]
  BY DEF DeleteRow

\* A transition of the work changes two columns, to values of their types.
LEMMA WorkTransitionType ==
  ASSUME TypeOK, NEW c \in Companies, NEW event, NEW orderStatus \in OrderStatus,
         NEW newStatus \in OfferStatus, workTransition(c, event, orderStatus, newStatus)
  PROVE  /\ status' \in OrderStatus
         /\ offerStatus' \in [Companies -> OfferStatus \union {NoOffer}]
         /\ \A b \in Companies : offerStatus'[b] = NoOffer \/ proposed'[b] \in Terms
  BY DEF TypeOK, workTransition, isExecutor, isExecutorOffer, EXECUTOR_OFFER_STATUSES,
         EXECUTING_OFFER_STATUSES, NoOffer

\* Reading a notification leaves it one.
LEMMA ReadNotice ==
  ASSUME NEW n \in Notice
  PROVE  [n EXCEPT !.isRead = TRUE] \in Notice
  BY DEF Notice

LEMMA InitType == Init => TypeOK
<1> SUFFICES ASSUME Init PROVE TypeOK
  OBVIOUS
<1>1. /\ offerStatus \in [Companies -> OfferStatus \union {NoOffer}]
      /\ proposed \in [Companies -> Terms \union {Null}]
      /\ editedAt \in [Companies -> Nat \union {Null}]
      /\ rejectionCount \in [Companies -> Nat]
      /\ \A c \in Companies : offerStatus[c] = NoOffer
  BY DEF Init
<1>2. /\ roundState \in [Round -> {"none", "open", "sent"}]
      /\ roundComment \in [Round -> Texts \union {Null}]
      /\ roundFiles \in [Round -> SUBSET Files]
  BY DEF Init
<1>3. QED
  BY <1>1, <1>2 DEF Init, TypeOK

LEMMA NextType == TypeOK /\ [Next]_vars => TypeOK'
<1> SUFFICES ASSUME TypeOK, [Next]_vars PROVE TypeOK'
  OBVIOUS
<1> USE LifecycleAssumption DEF TypeOK, orderVars, offerVars, roundVars, clockVars, callerVars,
        rowUnchanged
<1>1. CASE Create
  BY <1>1 DEF Create, OrderStatus
<1>2. ASSUME NEW F \in SUBSET Files, AttachTaskFiles(F) PROVE TypeOK'
  BY <1>2 DEF AttachTaskFiles
<1>3. CASE RollbackCreate
  <2>1. CASE DeleteRow
    BY <1>3, <2>1, DeleteRowType DEF RollbackCreate
  <2>2. CASE UNCHANGED <<status, deal, correctionComment, clientCompletionComment,
                         verifiedSquareMeters, taskFiles, offerVars, roundVars>>
    BY <1>3, <2>2 DEF RollbackCreate
  <2>3. QED
    BY <1>3, <2>1, <2>2 DEF RollbackCreate
<1>4. CASE Remove
  <2>1. {notify(c, "ORDER_DELETED", Null) : c \in affectedOfDeletion} \subseteq Notice
    BY NotifyType, KeysAreKeys DEF affectedOfDeletion, NoticeType
  <2>2. notices' \subseteq Notice
    BY <1>4, <2>1, CreateNotificationsType DEF Remove
  <2>3. QED
    BY <1>4, <2>2, DeleteRowType DEF Remove
<1>5. ASSUME NEW c \in Companies, NEW t \in Terms, StartSubmit(c, t) PROVE TypeOK'
  BY <1>5 DEF StartSubmit
<1>6. ASSUME NEW d \in drafts, DropSubmit(d) PROVE TypeOK'
  BY <1>6 DEF DropSubmit
<1>7. ASSUME NEW d \in drafts, CommitSubmit(d) PROVE TypeOK'
  <2>1. notices' \subseteq Notice
    <3>1. {notify(Client, "OFFER_RECEIVED", offerKey(d.company))} \subseteq Notice
      BY NotifyType, KeysAreKeys DEF NoticeType
    <3>2. QED
      BY <1>7, <3>1, CreateNotificationsType DEF CommitSubmit
  <2>2. stampOfUpsert(d) \in Nat \union {Null}
    BY DEF stampOfUpsert
  <2>3. QED
    BY <1>7, <2>1, <2>2 DEF CommitSubmit, OrderStatus, OfferStatus
<1>8. ASSUME NEW c \in Companies, Withdraw(c) PROVE TypeOK'
  <2>1. notices' \subseteq Notice
    <3>1. {notify(Client, "OFFER_WITHDRAWN", offerKey(c))} \subseteq Notice
      BY NotifyType, KeysAreKeys DEF NoticeType
    <3>2. QED
      BY <1>8, <3>1, CreateNotificationsType DEF Withdraw, leaveSelection
  <2>2. QED
    BY <1>8, <2>1 DEF Withdraw, leaveSelection, statusAfterLeaving, OrderStatus, OfferStatus
<1>9. ASSUME NEW c \in Companies, Reject(c) PROVE TypeOK'
  <2>1. notices' \subseteq Notice
    <3>1. {notify(c, "OFFER_REJECTED", offerKey(c))} \subseteq Notice
      BY NotifyType, KeysAreKeys DEF NoticeType
    <3>2. QED
      BY <1>9, <3>1, CreateNotificationsType DEF Reject, leaveSelection
  <2>2. QED
    BY <1>9, <2>1 DEF Reject, leaveSelection, statusAfterLeaving, OrderStatus, OfferStatus
<1>10. ASSUME NEW c \in Companies, LoadOffer(c) PROVE TypeOK'
  <2>1. proposed[c] \in Terms
    BY <1>10 DEF LoadOffer, isActiveOffer, ACTIVE_OFFER_STATUSES, EXECUTOR_OFFER_STATUSES,
                 EXECUTING_OFFER_STATUSES, NoOffer
  <2>2. QED
    BY <1>10, <2>1 DEF LoadOffer
<1>11. CASE AcceptOffer
  <2>. DEFINE c == seen.company
              losers == otherActiveOffers(c)
  <2>1. c \in Companies
    BY <1>11 DEF AcceptOffer
  <2>2. losers \subseteq Companies
    BY DEF otherActiveOffers
  <2>3. notices' \subseteq Notice
    <3>1. {notify(c, "OFFER_ACCEPTED", offerKey(c))} \union
            {notify(b, "OFFER_NOT_ACCEPTED", offerKey(b)) : b \in losers} \subseteq Notice
      BY <2>1, <2>2, NotifyType, KeysAreKeys DEF NoticeType
    <3>2. QED
      BY <1>11, <3>1, CreateNotificationsType DEF AcceptOffer
  <2>4. offerStatus' \in [Companies -> OfferStatus \union {NoOffer}]
    BY <1>11 DEF AcceptOffer, OfferStatus
  <2>5. \A b \in Companies : offerStatus'[b] = NoOffer \/ proposed'[b] \in Terms
    BY <1>11, <2>1, <2>2 DEF AcceptOffer, otherActiveOffers, NoOffer
  <2>6. QED
    BY <1>11, <2>1, <2>3, <2>4, <2>5 DEF AcceptOffer, OrderStatus
<1>12. ASSUME NEW F \in (SUBSET Files) \ {{}}, NEW text \in Texts, OpenSubmission(F, text)
       PROVE  TypeOK'
  BY <1>12 DEF OpenSubmission
<1>13. ASSUME NEW u \in uploads, DropUpload(u) PROVE TypeOK'
  BY <1>13 DEF DropUpload
<1>14. ASSUME NEW u \in uploads, AttachWork(u) PROVE TypeOK'
  <2>1. notices' \subseteq Notice
    <3>1. {notify(Client, "FILES_UPDATED", orderFilesKey)} \subseteq Notice
      BY NotifyType, KeysAreKeys DEF NoticeType
    <3>2. QED
      BY <1>14, <3>1, CreateNotificationsType DEF AttachWork
  <2>2. QED
    BY <1>14, <2>1 DEF AttachWork
<1>15. ASSUME NEW c \in Companies, SubmitWork(c) PROVE TypeOK'
  <2>1. notices' \subseteq Notice
    <3>1. {notify(Client, "WORK_SUBMITTED", Null)} \subseteq Notice
      BY NotifyType, KeysAreKeys DEF NoticeType
    <3>2. QED
      BY <1>15, <3>1, CreateNotificationsType DEF SubmitWork
  <2>2. roundState' \in [Round -> {"none", "open", "sent"}]
    BY <1>15 DEF SubmitWork
  <2>3. QED
    BY <1>15, <2>1, <2>2, WorkTransitionType DEF SubmitWork, OrderStatus, OfferStatus, workTransition
<1>16. ASSUME NEW c \in Companies, NEW text \in Texts \union {Null}, Confirm(c, text)
       PROVE  TypeOK'
  <2>1. notices' \subseteq Notice
    <3>1. {notify(c, "WORK_CONFIRMED", Null)} \subseteq Notice
      BY NotifyType, KeysAreKeys DEF NoticeType
    <3>2. QED
      BY <1>16, <3>1, CreateNotificationsType DEF Confirm
  <2>2. QED
    BY <1>16, <2>1, WorkTransitionType DEF Confirm, OrderStatus, OfferStatus, workTransition
<1>17. ASSUME NEW c \in Companies, NEW text \in Texts, Dispute(c, text) PROVE TypeOK'
  <2>1. notices' \subseteq Notice
    <3>1. {notify(c, "WORK_DISPUTED", Null)} \subseteq Notice
      BY NotifyType, KeysAreKeys DEF NoticeType
    <3>2. QED
      BY <1>17, <3>1, CreateNotificationsType DEF Dispute
  <2>2. QED
    BY <1>17, <2>1, WorkTransitionType DEF Dispute, OrderStatus, OfferStatus, workTransition
<1>18. ASSUME NEW area \in Areas, VerifyArea(area) PROVE TypeOK'
  <2>1. notices' \subseteq Notice
    <3>1. {notify(Client, "AREA_VERIFIED", orderAreaKey)} \subseteq Notice
      BY NotifyType, KeysAreKeys DEF NoticeType
    <3>2. QED
      BY <1>18, <3>1, CreateNotificationsType DEF VerifyArea
  <2>2. QED
    BY <1>18, <2>1 DEF VerifyArea
<1>19. ASSUME NEW n \in notices, MarkRead(n) PROVE TypeOK'
  <2>1. [n EXCEPT !.isRead = TRUE] \in Notice
    BY ReadNotice
  <2>2. QED
    BY <1>19, <2>1 DEF MarkRead
<1>20. ASSUME NEW u \in Readers, MarkAllRead(u) PROVE TypeOK'
  <2>1. \A n \in notices : [n EXCEPT !.isRead = TRUE] \in Notice
    BY ReadNotice
  <2>2. notices' \subseteq Notice
    BY <1>20, <2>1 DEF MarkAllRead
  <2>3. QED
    BY <1>20, <2>2 DEF MarkAllRead
<1>21. CASE DayPasses
  BY <1>21 DEF DayPasses
<1>22. CASE UNCHANGED vars
  BY <1>22 DEF vars
<1>23. QED
  BY <1>1, <1>2, <1>3, <1>4, <1>5, <1>6, <1>7, <1>8, <1>9, <1>10, <1>11, <1>12, <1>13, <1>14,
     <1>15, <1>16, <1>17, <1>18, <1>19, <1>20, <1>21, <1>22 DEF Next

\* Every reachable state is well typed.
THEOREM LifecycleTypes == Spec => []TypeOK
<1>1. Init => TypeOK
  BY InitType
<1>2. TypeOK /\ [Next]_vars => TypeOK'
  BY NextType
<1>3. QED
  BY <1>1, <1>2, PTL DEF Spec

-----------------------------------------------------------------------------
(* The transition table, read event by event *)

LEMMA TableOfOffers ==
  ASSUME NEW s, NEW o
  PROVE  /\ canTransition(s, "OFFER_SUBMITTED", o) =>
              s \in OFFER_ELIGIBLE_ORDER_STATUSES /\ o \in {NoOffer, "SENT", "WITHDRAWN", "REJECTED"}
         /\ \A e \in {"OFFER_WITHDRAWN", "OFFER_REJECTED", "OFFER_ACCEPTED"} :
              canTransition(s, e, o) => s = "AWAITING_CONFIRMATION" /\ o \in {NoOffer, "SENT"}
  BY DEF canTransition, ORDER_TRANSITIONS, OFFER_PRECONDITIONS, OrderStatus, OrderEventType,
         OFFER_ELIGIBLE_ORDER_STATUSES, RESUBMITTABLE_OFFER_STATUSES, WORK_UPLOAD_ORDER_STATUSES

LEMMA TableOfWork ==
  ASSUME NEW s, NEW o
  PROVE  /\ canTransition(s, "WORK_SUBMITTED", o) => s \in WORK_UPLOAD_ORDER_STATUSES
         /\ \A e \in {"WORK_CONFIRMED", "WORK_DISPUTED"} :
              canTransition(s, e, o) => s = "AWAITING_COMPLETION_CONFIRMATION"
  BY DEF canTransition, ORDER_TRANSITIONS, OFFER_PRECONDITIONS, OrderStatus, OrderEventType,
         WORK_UPLOAD_ORDER_STATUSES

LEMMA ExecutorStatuses ==
  /\ executorStatus["IN_PROGRESS"] = "ACCEPTED"
  /\ executorStatus["AWAITING_COMPLETION_CONFIRMATION"] = "WORK_SUBMITTED"
  /\ executorStatus["COMPLETION_DISPUTED"] = "BACK_FOR_OVERRIDE"
  /\ executorStatus["COMPLETED"] = "COMPLETED"
  /\ \A s \in WorkStages : isExecutorOffer(executorStatus[s])
  /\ \A o \in {NoOffer, "SENT", "WITHDRAWN", "REJECTED", "NOT_ACCEPTED"} : ~isExecutorOffer(o)
  BY DEF executorStatus, WorkStages, isExecutorOffer, EXECUTOR_OFFER_STATUSES,
         EXECUTING_OFFER_STATUSES, NoOffer

\* During the work the executor is one company, and its offer has the status of
\* the stage; before and after the work nobody is the executor.
LEMMA OneExecutor ==
  ASSUME TypeOK, SelectionConsistent
  PROVE  /\ status \in WorkStages =>
              \E c \in Companies :
                /\ isExecutor(c) /\ offerStatus[c] = executorStatus[status]
                /\ \A b \in Companies \ {c} :
                     /\ ~isExecutor(b)
                     /\ offerStatus[b] \in {NoOffer, "WITHDRAWN", "REJECTED", "NOT_ACCEPTED"}
         /\ status \notin WorkStages => \A c \in Companies : ~isExecutor(c)
<1>1. CASE status \in WorkStages
  BY <1>1, ExecutorStatuses DEF SelectionConsistent, isExecutor
<1>2. CASE status \notin WorkStages
  <2>1. status \in {"NONE", "DELETED", "WAITING", "AWAITING_CONFIRMATION"}
    BY <1>2 DEF TypeOK, WorkStages, OrderStatus
  <2>2. QED
    BY <1>2, <2>1, ExecutorStatuses DEF SelectionConsistent, isExecutor
<1>3. QED
  BY <1>1, <1>2

-----------------------------------------------------------------------------
(* The order and its offers tell the same story *)

LEMMA InitSelection == Init => SelectionConsistent
  BY DEF Init, SelectionConsistent, WorkStages

\* A step that leaves the order's status and the offers' alone.
LEMMA SelectionUnchanged ==
  ASSUME SelectionConsistent, UNCHANGED <<status, offerStatus>>
  PROVE  SelectionConsistent'
  BY DEF SelectionConsistent

LEMMA DeletionSelection ==
  ASSUME DeleteRow PROVE SelectionConsistent'
  BY DEF DeleteRow, SelectionConsistent, WorkStages

LEMMA LeavingSelection ==
  ASSUME TypeOK, SelectionConsistent, NEW c \in Companies, NEW addressee,
         NEW event \in {"OFFER_WITHDRAWN", "OFFER_REJECTED"},
         NEW newStatus \in {"WITHDRAWN", "REJECTED"},
         leaveSelection(c, event, newStatus, addressee)
  PROVE  SelectionConsistent'
<1>1. status = "AWAITING_CONFIRMATION"
  BY TableOfOffers DEF leaveSelection
<1>2. /\ offerStatus'[c] = newStatus
      /\ \A b \in Companies \ {c} : offerStatus'[b] = offerStatus[b]
      /\ \A b \in Companies : offerStatus[b] \in {NoOffer, "SENT", "WITHDRAWN", "REJECTED"}
  BY <1>1 DEF leaveSelection, TypeOK, SelectionConsistent
<1>3. CASE otherActiveOffers(c) # {}
  <2>1. status' = "AWAITING_CONFIRMATION"
    BY <1>3 DEF leaveSelection, statusAfterLeaving
  <2>2. PICK b \in Companies \ {c} : offerStatus[b] = "SENT"
    BY <1>3 DEF otherActiveOffers
  <2>3. QED
    BY <1>2, <2>1, <2>2 DEF SelectionConsistent, WorkStages
<1>4. CASE otherActiveOffers(c) = {}
  <2>1. status' = "WAITING"
    BY <1>4 DEF leaveSelection, statusAfterLeaving
  <2>2. \A b \in Companies \ {c} : offerStatus[b] # "SENT"
    BY <1>4 DEF otherActiveOffers
  <2>3. QED
    BY <1>2, <2>1, <2>2 DEF SelectionConsistent, WorkStages
<1>5. QED
  BY <1>3, <1>4

\* The executor's offer and the order move to the next stage together.
LEMMA WorkSelection ==
  ASSUME TypeOK, SelectionConsistent, NEW c \in Companies, NEW event,
         NEW next \in WorkStages, status \in WorkStages,
         workTransition(c, event, next, executorStatus[next])
  PROVE  SelectionConsistent'
<1>1. /\ status' = next /\ offerStatus'[c] = executorStatus[next]
      /\ \A b \in Companies \ {c} : offerStatus'[b] = offerStatus[b]
      /\ isExecutor(c)
  BY DEF workTransition, TypeOK
<1>2. \A b \in Companies \ {c} :
        offerStatus[b] \in {NoOffer, "WITHDRAWN", "REJECTED", "NOT_ACCEPTED"}
  BY <1>1, OneExecutor
<1>3. QED
  BY <1>1, <1>2 DEF SelectionConsistent, WorkStages

LEMMA NextSelection == TypeOK /\ SelectionConsistent /\ [Next]_vars => SelectionConsistent'
<1> SUFFICES ASSUME TypeOK, SelectionConsistent, [Next]_vars PROVE SelectionConsistent'
  OBVIOUS
<1>1. CASE Create
  BY <1>1 DEF Create, SelectionConsistent, offerVars, WorkStages, NoOffer
<1>2. CASE RollbackCreate
  BY <1>2, DeletionSelection, SelectionUnchanged DEF RollbackCreate, offerVars
<1>3. CASE Remove
  BY <1>3, DeletionSelection DEF Remove
<1>4. ASSUME NEW d \in drafts, CommitSubmit(d) PROVE SelectionConsistent'
  <2>. DEFINE c == d.company
  <2>1. c \in Companies /\ status \in OFFER_ELIGIBLE_ORDER_STATUSES
    BY <1>4, TableOfOffers DEF CommitSubmit, maySubmit, TypeOK
  <2>2. /\ status' = "AWAITING_CONFIRMATION" /\ offerStatus'[c] = "SENT"
        /\ \A b \in Companies \ {c} : offerStatus'[b] = offerStatus[b]
    BY <1>4, <2>1 DEF CommitSubmit, TypeOK
  <2>3. \A b \in Companies : offerStatus[b] \in {NoOffer, "SENT", "WITHDRAWN", "REJECTED"}
    BY <2>1 DEF SelectionConsistent, OFFER_ELIGIBLE_ORDER_STATUSES
  <2>4. QED
    BY <2>1, <2>2, <2>3 DEF SelectionConsistent, WorkStages
<1>5. ASSUME NEW c \in Companies, Withdraw(c) PROVE SelectionConsistent'
  BY <1>5, LeavingSelection DEF Withdraw
<1>6. ASSUME NEW c \in Companies, Reject(c) PROVE SelectionConsistent'
  BY <1>6, LeavingSelection DEF Reject
<1>7. CASE AcceptOffer
  <2>. DEFINE c == seen.company
  <2>1. c \in Companies /\ status = "AWAITING_CONFIRMATION"
    BY <1>7, TableOfOffers DEF AcceptOffer, TypeOK
  <2>2. /\ status' = "IN_PROGRESS" /\ offerStatus'[c] = "ACCEPTED"
        /\ \A b \in Companies \ {c} :
             offerStatus'[b] = IF offerStatus[b] = "SENT" THEN "NOT_ACCEPTED" ELSE offerStatus[b]
    BY <1>7, <2>1 DEF AcceptOffer, otherActiveOffers
  <2>3. \A b \in Companies : offerStatus[b] \in {NoOffer, "SENT", "WITHDRAWN", "REJECTED"}
    BY <2>1 DEF SelectionConsistent
  <2>4. QED
    BY <2>1, <2>2, <2>3, ExecutorStatuses DEF SelectionConsistent, WorkStages
<1>8. ASSUME NEW c \in Companies, SubmitWork(c) PROVE SelectionConsistent'
  <2>1. status \in WorkStages
    BY <1>8, TableOfWork DEF SubmitWork, workTransition, WORK_UPLOAD_ORDER_STATUSES, WorkStages
  <2>2. QED
    BY <1>8, <2>1, WorkSelection, ExecutorStatuses DEF SubmitWork, WorkStages
<1>9. ASSUME NEW c \in Companies, NEW text, Confirm(c, text) PROVE SelectionConsistent'
  <2>1. status \in WorkStages
    BY <1>9, TableOfWork DEF Confirm, workTransition, WorkStages
  <2>2. QED
    BY <1>9, <2>1, WorkSelection, ExecutorStatuses DEF Confirm, WorkStages
<1>10. ASSUME NEW c \in Companies, NEW text, Dispute(c, text) PROVE SelectionConsistent'
  <2>1. status \in WorkStages
    BY <1>10, TableOfWork DEF Dispute, workTransition, WorkStages
  <2>2. QED
    BY <1>10, <2>1, WorkSelection, ExecutorStatuses DEF Dispute, WorkStages
<1>11. CASE \/ \E F \in SUBSET Files : AttachTaskFiles(F)
            \/ \E c \in Companies, t \in Terms : StartSubmit(c, t)
            \/ \E d \in drafts : DropSubmit(d)
            \/ \E c \in Companies : LoadOffer(c)
            \/ \E F \in (SUBSET Files) \ {{}}, text \in Texts : OpenSubmission(F, text)
            \/ \E u \in uploads : DropUpload(u) \/ AttachWork(u)
            \/ \E area \in Areas : VerifyArea(area)
            \/ \E n \in notices : MarkRead(n)
            \/ \E u \in Readers : MarkAllRead(u)
            \/ DayPasses
            \/ UNCHANGED vars
  <2>1. UNCHANGED <<status, offerStatus>>
    BY <1>11 DEF AttachTaskFiles, StartSubmit, DropSubmit, LoadOffer, OpenSubmission, DropUpload,
                 AttachWork, VerifyArea, MarkRead, MarkAllRead, DayPasses, vars, orderVars, offerVars
  <2>2. QED
    BY <2>1, SelectionUnchanged
<1>12. QED
  BY <1>1, <1>2, <1>3, <1>4, <1>5, <1>6, <1>7, <1>8, <1>9, <1>10, <1>11 DEF Next

\* However offers, withdrawals, rejections, edits and tabs interleave, the
\* order's status and the offers' statuses agree in every reachable state.
THEOREM SelectionAlwaysConsistent == Spec => []SelectionConsistent
<1>1. Init => TypeOK /\ SelectionConsistent
  BY InitType, InitSelection
<1>2. TypeOK /\ SelectionConsistent /\ [Next]_vars => (TypeOK /\ SelectionConsistent)'
  BY NextType, NextSelection
<1>3. QED
  BY <1>1, <1>2, PTL DEF Spec

-----------------------------------------------------------------------------
(* The deal is the executor's offer *)

LEMMA NextDeal ==
  TypeOK /\ SelectionConsistent /\ DealIsTheOffer /\ [Next]_vars => DealIsTheOffer'
<1> SUFFICES ASSUME TypeOK, SelectionConsistent, DealIsTheOffer, [Next]_vars
             PROVE  DealIsTheOffer'
  OBVIOUS
<1> USE DEF DealIsTheOffer
<1>1. CASE Create
  BY <1>1 DEF Create, WorkStages
<1>2. CASE RollbackCreate \/ Remove
  <2>1. CASE DeleteRow
    BY <2>1 DEF DeleteRow, WorkStages
  <2>2. CASE UNCHANGED <<status, deal, correctionComment, clientCompletionComment,
                         verifiedSquareMeters, taskFiles, offerVars, roundVars>>
    BY <2>2 DEF offerVars, isExecutor
  <2>3. QED
    BY <1>2, <2>1, <2>2 DEF RollbackCreate, Remove
<1>3. ASSUME NEW d \in drafts, CommitSubmit(d) PROVE DealIsTheOffer'
  <2>1. status \in OFFER_ELIGIBLE_ORDER_STATUSES
    BY <1>3, TableOfOffers DEF CommitSubmit, maySubmit
  <2>2. QED
    BY <1>3, <2>1 DEF CommitSubmit, WorkStages, OFFER_ELIGIBLE_ORDER_STATUSES
<1>4. ASSUME NEW c \in Companies, Withdraw(c) \/ Reject(c) PROVE DealIsTheOffer'
  <2>1. status = "AWAITING_CONFIRMATION"
    BY <1>4, TableOfOffers DEF Withdraw, Reject, leaveSelection
  <2>2. deal' = deal /\ status' \in {"WAITING", "AWAITING_CONFIRMATION"}
    BY <1>4 DEF Withdraw, Reject, leaveSelection, statusAfterLeaving
  <2>3. QED
    BY <2>1, <2>2 DEF WorkStages
<1>5. CASE AcceptOffer
  <2>. DEFINE c == seen.company
  <2>1. c \in Companies /\ status = "AWAITING_CONFIRMATION"
    BY <1>5, TableOfOffers DEF AcceptOffer, TypeOK
  <2>2. /\ status' = "IN_PROGRESS" /\ deal' = proposed[c] /\ proposed' = proposed
        /\ \A b \in Companies \ {c} :
             offerStatus'[b] = IF offerStatus[b] = "SENT" THEN "NOT_ACCEPTED" ELSE offerStatus[b]
    BY <1>5, <2>1 DEF AcceptOffer, otherActiveOffers
  <2>3. \A b \in Companies \ {c} : ~isExecutorOffer(offerStatus'[b])
    BY <2>1, <2>2, ExecutorStatuses DEF SelectionConsistent
  <2>4. QED
    BY <2>1, <2>2, <2>3 DEF isExecutor, WorkStages
<1>6. ASSUME NEW c \in Companies, NEW text,
             SubmitWork(c) \/ Confirm(c, text) \/ Dispute(c, text)
      PROVE  DealIsTheOffer'
  <2>1. /\ status \in WorkStages /\ status' \in WorkStages /\ isExecutor(c)
        /\ deal' = deal /\ proposed' = proposed
        /\ \A b \in Companies \ {c} : offerStatus'[b] = offerStatus[b]
    BY <1>6, TableOfWork DEF SubmitWork, Confirm, Dispute, workTransition, WorkStages,
                             WORK_UPLOAD_ORDER_STATUSES, TypeOK
  <2>2. QED
    BY <2>1 DEF isExecutor
<1>7. CASE \/ \E F \in SUBSET Files : AttachTaskFiles(F)
           \/ \E c \in Companies, t \in Terms : StartSubmit(c, t)
           \/ \E d \in drafts : DropSubmit(d)
           \/ \E c \in Companies : LoadOffer(c)
           \/ \E F \in (SUBSET Files) \ {{}}, text \in Texts : OpenSubmission(F, text)
           \/ \E u \in uploads : DropUpload(u) \/ AttachWork(u)
           \/ \E area \in Areas : VerifyArea(area)
           \/ \E n \in notices : MarkRead(n)
           \/ \E u \in Readers : MarkAllRead(u)
           \/ DayPasses
           \/ UNCHANGED vars
  <2>1. UNCHANGED <<status, offerStatus, proposed, deal>>
    BY <1>7 DEF AttachTaskFiles, StartSubmit, DropSubmit, LoadOffer, OpenSubmission, DropUpload,
                AttachWork, VerifyArea, MarkRead, MarkAllRead, DayPasses, vars, orderVars, offerVars
  <2>2. QED
    BY <2>1 DEF isExecutor
<1>8. QED
  BY <1>1, <1>2, <1>3, <1>4, <1>5, <1>6, <1>7 DEF Next

\* Whatever is edited, withdrawn or submitted again, the order's price and
\* deadline are the executor's, and empty while there is no executor.
THEOREM DealAlwaysTheOffer == Spec => []DealIsTheOffer
<1>. DEFINE Inv == TypeOK /\ SelectionConsistent /\ DealIsTheOffer
<1>1. Init => Inv
  BY InitType, InitSelection DEF Init, DealIsTheOffer, WorkStages
<1>2. Inv /\ [Next]_vars => Inv'
  BY NextType, NextSelection, NextDeal
<1>3. Inv => DealIsTheOffer
  OBVIOUS
<1>4. QED
  BY <1>1, <1>2, <1>3, PTL DEF Spec

-----------------------------------------------------------------------------
(* A final rejection is final *)

LEMMA NextFinalRejection ==
  TypeOK /\ FinalRejectionHolds /\ [Next]_vars => FinalRejectionHolds'
<1> SUFFICES ASSUME TypeOK, FinalRejectionHolds, [Next]_vars PROVE FinalRejectionHolds'
  OBVIOUS
<1> USE DEF FinalRejectionHolds, MAX_OFFER_REJECTIONS
<1>1. \A c \in Companies : rejectionCount[c] \in Nat
  BY DEF TypeOK
<1>2. CASE RollbackCreate \/ Remove
  <2>1. CASE DeleteRow
    BY <2>1 DEF DeleteRow
  <2>2. CASE UNCHANGED <<status, deal, correctionComment, clientCompletionComment,
                         verifiedSquareMeters, taskFiles, offerVars, roundVars>>
    BY <2>2 DEF offerVars
  <2>3. QED
    BY <1>2, <2>1, <2>2 DEF RollbackCreate, Remove
<1>3. ASSUME NEW d \in drafts, CommitSubmit(d) PROVE FinalRejectionHolds'
  BY <1>1, <1>3 DEF CommitSubmit, maySubmit, isFinallyRejected, TypeOK
<1>4. ASSUME NEW c \in Companies, Withdraw(c) \/ Reject(c) PROVE FinalRejectionHolds'
  <2>1. offerStatus[c] = "SENT"
    BY <1>4, TableOfOffers DEF Withdraw, Reject, leaveSelection
  <2>2. rejectionCount[c] < MAX_OFFER_REJECTIONS
    BY <1>1, <2>1
  <2>3. CASE Withdraw(c)
    BY <1>1, <2>2, <2>3 DEF Withdraw, leaveSelection, TypeOK
  <2>4. CASE Reject(c)
    BY <1>1, <2>2, <2>4 DEF Reject, leaveSelection, TypeOK
  <2>5. QED
    BY <1>4, <2>3, <2>4
<1>5. CASE AcceptOffer
  <2>1. /\ rejectionCount' = rejectionCount
        /\ \A b \in Companies : offerStatus'[b] # offerStatus[b] => offerStatus[b] = "SENT"
    BY <1>5, TableOfOffers DEF AcceptOffer, otherActiveOffers
  <2>2. QED
    BY <1>1, <2>1
<1>6. ASSUME NEW c \in Companies, NEW text,
             SubmitWork(c) \/ Confirm(c, text) \/ Dispute(c, text)
      PROVE  FinalRejectionHolds'
  <2>1. /\ rejectionCount' = rejectionCount /\ offerStatus[c] # "REJECTED"
        /\ \A b \in Companies \ {c} : offerStatus'[b] = offerStatus[b]
    BY <1>6, ExecutorStatuses DEF SubmitWork, Confirm, Dispute, workTransition, isExecutor, TypeOK
  <2>2. QED
    BY <1>1, <2>1
<1>7. CASE \/ Create
           \/ \E F \in SUBSET Files : AttachTaskFiles(F)
           \/ \E c \in Companies, t \in Terms : StartSubmit(c, t)
           \/ \E d \in drafts : DropSubmit(d)
           \/ \E c \in Companies : LoadOffer(c)
           \/ \E F \in (SUBSET Files) \ {{}}, text \in Texts : OpenSubmission(F, text)
           \/ \E u \in uploads : DropUpload(u) \/ AttachWork(u)
           \/ \E area \in Areas : VerifyArea(area)
           \/ \E n \in notices : MarkRead(n)
           \/ \E u \in Readers : MarkAllRead(u)
           \/ DayPasses
           \/ UNCHANGED vars
  <2>1. UNCHANGED <<offerStatus, rejectionCount>>
    BY <1>7 DEF Create, AttachTaskFiles, StartSubmit, DropSubmit, LoadOffer, OpenSubmission,
                DropUpload, AttachWork, VerifyArea, MarkRead, MarkAllRead, DayPasses, vars, offerVars
  <2>2. QED
    BY <2>1
<1>8. QED
  BY <1>2, <1>3, <1>4, <1>5, <1>6, <1>7 DEF Next

\* A company rejected MAX_OFFER_REJECTIONS times stays rejected: no withdrawal,
\* new offer or transition brings it back.
THEOREM FinalRejectionAlwaysHolds == Spec => []FinalRejectionHolds
<1>1. Init => TypeOK /\ FinalRejectionHolds
  BY InitType DEF Init, FinalRejectionHolds, MAX_OFFER_REJECTIONS
<1>2. TypeOK /\ FinalRejectionHolds /\ [Next]_vars => (TypeOK /\ FinalRejectionHolds)'
  BY NextType, NextFinalRejection
<1>3. QED
  BY <1>1, <1>2, PTL DEF Spec

-----------------------------------------------------------------------------
(* Rounds *)

\* The next round opens above rounds that have all been submitted.
LEMMA NewRound ==
  ASSUME TypeOK, RoundsFollowStatus, noneOpen, NEW r \in Round, isNext(r)
  PROVE  /\ \A q \in 1..(r - 1) : roundState[q] = "sent"
         /\ \A q \in Round : q >= r => roundState[q] = "none"
<1>1. \A q \in Round : q >= r => roundState[q] = "none"
  BY DEF isNext, hasRow
<1>2. CASE r = 1
  BY <1>1, <1>2
<1>3. CASE r # 1
  <2>1. r - 1 \in Round /\ hasRow(r - 1)
    BY <1>3 DEF isNext
  <2>2. roundState[r - 1] = "sent"
    BY <2>1 DEF noneOpen, hasRow, TypeOK
  <2>3. \A q \in 1..((r - 1) - 1) : roundState[q] = "sent"
    BY <2>1 DEF RoundsFollowStatus
  <2>4. QED
    BY <1>1, <2>1, <2>2, <2>3, LifecycleAssumption DEF Round
<1>4. QED
  BY <1>2, <1>3

LEMMA NextRounds == TypeOK /\ RoundsFollowStatus /\ [Next]_vars => RoundsFollowStatus'
<1> SUFFICES ASSUME TypeOK, RoundsFollowStatus, [Next]_vars PROVE RoundsFollowStatus'
  OBVIOUS
<1> USE LifecycleAssumption DEF Round
<1>1. CASE Create
  BY <1>1 DEF Create, roundVars, RoundsFollowStatus, hasRow, sentRounds, noneOpen, WorkStages
<1>2. CASE RollbackCreate \/ Remove
  <2>1. CASE DeleteRow
    BY <2>1 DEF DeleteRow, RoundsFollowStatus, hasRow, sentRounds, noneOpen, WorkStages
  <2>2. CASE UNCHANGED <<status, deal, correctionComment, clientCompletionComment,
                         verifiedSquareMeters, taskFiles, offerVars, roundVars>>
    BY <2>2 DEF roundVars, RoundsFollowStatus, hasRow, sentRounds, noneOpen
  <2>3. QED
    BY <1>2, <2>1, <2>2 DEF RollbackCreate, Remove
<1>3. CASE \/ \E d \in drafts : CommitSubmit(d)
           \/ \E c \in Companies : Withdraw(c) \/ Reject(c)
           \/ AcceptOffer
  <2>1. status \in OFFER_ELIGIBLE_ORDER_STATUSES
    BY <1>3, TableOfOffers DEF CommitSubmit, maySubmit, Withdraw, Reject, leaveSelection,
                               AcceptOffer, OFFER_ELIGIBLE_ORDER_STATUSES
  <2>2. /\ UNCHANGED roundVars
        /\ status' \in {"WAITING", "AWAITING_CONFIRMATION", "IN_PROGRESS"}
    BY <1>3 DEF CommitSubmit, Withdraw, Reject, leaveSelection, statusAfterLeaving, AcceptOffer
  <2>3. \A r \in Round : roundState[r] = "none"
    BY <2>1 DEF RoundsFollowStatus, hasRow, OFFER_ELIGIBLE_ORDER_STATUSES, WorkStages
  <2>4. QED
    BY <2>2, <2>3 DEF roundVars, RoundsFollowStatus, hasRow, sentRounds, noneOpen, WorkStages
<1>4. ASSUME NEW F, NEW text, OpenSubmission(F, text) PROVE RoundsFollowStatus'
  <2>1. status \in WORK_UPLOAD_ORDER_STATUSES /\ status' = status
    BY <1>4 DEF OpenSubmission, canUploadWork, orderVars
  <2>2. CASE UNCHANGED roundVars
    BY <2>1, <2>2 DEF roundVars, RoundsFollowStatus, hasRow, sentRounds, noneOpen
  <2>3. ASSUME NEW r \in Round, noneOpen, isNext(r),
               roundState' = [roundState EXCEPT ![r] = "open"], UNCHANGED roundFiles
        PROVE  RoundsFollowStatus'
    <3>1. /\ \A q \in 1..(r - 1) : roundState[q] = "sent"
          /\ \A q \in Round : q >= r => roundState[q] = "none"
      BY <2>3, NewRound
    <3>2. roundState'[r] = "open" /\ \A q \in Round \ {r} : roundState'[q] = roundState[q]
      BY <2>3 DEF TypeOK
    <3>3. sentRounds' = sentRounds
      BY <3>1, <3>2 DEF sentRounds
    <3>4. \A s \in Round : hasRow(s)' => \A q \in 1..(s - 1) : roundState'[q] = "sent"
      BY <3>1, <3>2 DEF hasRow
    <3>5. QED
      BY <2>1, <2>3, <3>3, <3>4 DEF RoundsFollowStatus, WORK_UPLOAD_ORDER_STATUSES, WorkStages,
                                    sentRounds
  <2>4. QED
    BY <1>4, <2>2, <2>3 DEF OpenSubmission
<1>5. ASSUME NEW u \in uploads, AttachWork(u) PROVE RoundsFollowStatus'
  <2>1. UNCHANGED <<status, roundState>> /\ \A r \in Round : roundFiles[r] \subseteq roundFiles'[r]
    BY <1>5 DEF AttachWork, orderVars, TypeOK
  <2>2. QED
    BY <2>1 DEF RoundsFollowStatus, hasRow, sentRounds, noneOpen
<1>6. ASSUME NEW c \in Companies, SubmitWork(c) PROVE RoundsFollowStatus'
  <2>1. /\ status \in WORK_UPLOAD_ORDER_STATUSES /\ status' = "AWAITING_COMPLETION_CONFIRMATION"
        /\ roundFiles' = roundFiles
    BY <1>6, TableOfWork DEF SubmitWork, workTransition
  <2>2. PICK r \in Round : isOpen(r) /\ roundFiles[r] # {}
                           /\ roundState' = [roundState EXCEPT ![r] = "sent"]
    BY <1>6 DEF SubmitWork, maySubmitRound
  <2>3. roundState'[r] = "sent" /\ \A q \in Round \ {r} : roundState'[q] = roundState[q]
    BY <2>2 DEF TypeOK
  <2>4. \A q \in Round \ {r} : roundState[q] # "open"
    <3>1. ASSUME NEW q \in Round, q < r PROVE roundState[q] # "open"
      BY <2>2, <3>1 DEF RoundsFollowStatus, hasRow, isOpen
    <3>2. QED
      BY <2>2, <3>1 DEF isOpen
  <2>5. \A s \in Round : hasRow(s)' => \A q \in 1..(s - 1) : roundState'[q] = "sent"
    BY <2>2, <2>3 DEF RoundsFollowStatus, hasRow, isOpen
  <2>6. noneOpen' /\ sentRounds' = sentRounds \union {r}
    BY <2>2, <2>3, <2>4 DEF noneOpen, sentRounds
  <2>7. QED
    BY <2>1, <2>2, <2>5, <2>6 DEF RoundsFollowStatus, WorkStages
<1>7. ASSUME NEW c \in Companies, NEW text, Confirm(c, text) \/ Dispute(c, text)
      PROVE  RoundsFollowStatus'
  <2>1. /\ status = "AWAITING_COMPLETION_CONFIRMATION" /\ UNCHANGED roundVars
        /\ status' \in {"COMPLETED", "COMPLETION_DISPUTED"}
    BY <1>7, TableOfWork DEF Confirm, Dispute, workTransition
  <2>2. QED
    BY <2>1 DEF roundVars, RoundsFollowStatus, hasRow, sentRounds, noneOpen, WorkStages
<1>8. CASE \/ \E F \in SUBSET Files : AttachTaskFiles(F)
           \/ \E c \in Companies, t \in Terms : StartSubmit(c, t)
           \/ \E d \in drafts : DropSubmit(d)
           \/ \E c \in Companies : LoadOffer(c)
           \/ \E u \in uploads : DropUpload(u)
           \/ \E area \in Areas : VerifyArea(area)
           \/ \E n \in notices : MarkRead(n)
           \/ \E u \in Readers : MarkAllRead(u)
           \/ DayPasses
           \/ UNCHANGED vars
  <2>1. UNCHANGED <<status, roundVars>>
    BY <1>8 DEF AttachTaskFiles, StartSubmit, DropSubmit, LoadOffer, DropUpload, VerifyArea,
                MarkRead, MarkAllRead, DayPasses, vars, orderVars
  <2>2. QED
    BY <2>1 DEF roundVars, RoundsFollowStatus, hasRow, sentRounds, noneOpen
<1>9. QED
  BY <1>1, <1>2, <1>3, <1>4, <1>5, <1>6, <1>7, <1>8 DEF Next

\* Rounds are numbered without gaps, at most the last is open, each submitted
\* one has files, and the stage of the order says which of them there are.
THEOREM RoundsAlwaysFollow == Spec => []RoundsFollowStatus
<1>1. Init => TypeOK /\ RoundsFollowStatus
  <2>1. Init => \A r \in Round : roundState[r] = "none"
    BY DEF Init
  <2>2. Init => RoundsFollowStatus
    BY <2>1 DEF Init, RoundsFollowStatus, hasRow, sentRounds, noneOpen, WorkStages
  <2>3. QED
    BY <2>2, InitType
<1>2. TypeOK /\ RoundsFollowStatus /\ [Next]_vars => (TypeOK /\ RoundsFollowStatus)'
  BY NextType, NextRounds
<1>3. QED
  BY <1>1, <1>2, PTL DEF Spec

-----------------------------------------------------------------------------
(* What does not change any more *)

\* An upload that arrives after its submission was sent changes nothing in it.
THEOREM SubmittedRoundsStayFrozen == Spec => SubmittedRoundFrozen
<1>1. TypeOK /\ [Next]_vars =>
        [\A r \in Round :
           roundState[r] = "sent" /\ status' # "DELETED" =>
             /\ roundState'[r] = "sent"
             /\ roundComment'[r] = roundComment[r]
             /\ roundFiles'[r] = roundFiles[r]]_vars
  <2> SUFFICES ASSUME TypeOK, [Next]_vars, NEW r \in Round, roundState[r] = "sent",
                      status' # "DELETED"
               PROVE  /\ roundState'[r] = "sent"
                      /\ roundComment'[r] = roundComment[r]
                      /\ roundFiles'[r] = roundFiles[r]
    OBVIOUS
  <2>1. ASSUME NEW F, NEW text, OpenSubmission(F, text)
        PROVE  roundState'[r] = "sent" /\ roundComment'[r] = roundComment[r]
               /\ roundFiles'[r] = roundFiles[r]
    <3>1. CASE UNCHANGED roundVars
      BY <3>1 DEF roundVars
    <3>2. ASSUME NEW q \in Round, isNext(q), roundState' = [roundState EXCEPT ![q] = "open"],
                 roundComment' = [roundComment EXCEPT ![q] = text], UNCHANGED roundFiles
          PROVE  roundState'[r] = "sent" /\ roundComment'[r] = roundComment[r]
                 /\ roundFiles'[r] = roundFiles[r]
      <4>1. q # r
        BY <3>2, LifecycleAssumption DEF isNext, hasRow, Round
      <4>2. QED
        BY <3>2, <4>1 DEF TypeOK
    <3>3. QED
      BY <2>1, <3>1, <3>2 DEF OpenSubmission
  <2>2. ASSUME NEW u \in uploads, AttachWork(u)
        PROVE  roundState'[r] = "sent" /\ roundComment'[r] = roundComment[r]
               /\ roundFiles'[r] = roundFiles[r]
    BY <2>2 DEF AttachWork, assertSubmissionOpen, TypeOK
  <2>3. ASSUME NEW c \in Companies, SubmitWork(c)
        PROVE  roundState'[r] = "sent" /\ roundComment'[r] = roundComment[r]
               /\ roundFiles'[r] = roundFiles[r]
    BY <2>3 DEF SubmitWork, maySubmitRound, isOpen, TypeOK
  <2>4. CASE UNCHANGED roundVars
    BY <2>4 DEF roundVars
  <2>5. QED
    BY <2>1, <2>2, <2>3, <2>4
       DEF Next, Create, AttachTaskFiles, RollbackCreate, DeleteRow, Remove, StartSubmit,
           DropSubmit, CommitSubmit, Withdraw, Reject, leaveSelection, LoadOffer, AcceptOffer,
           DropUpload, Confirm, Dispute, VerifyArea, MarkRead, MarkAllRead, DayPasses, vars
<1>2. QED
  BY <1>1, LifecycleTypes, PTL DEF Spec, SubmittedRoundFrozen

\* No step changes the outcome of a completed order.
THEOREM CompletedStaysFinal == Spec => CompletedIsFinal
<1>1. TypeOK /\ [Next]_vars =>
        [status = "COMPLETED" /\ status' # "DELETED" =>
           UNCHANGED <<status, deal, correctionComment, clientCompletionComment,
                       verifiedSquareMeters, offerVars, roundVars>>]_vars
  <2> SUFFICES ASSUME TypeOK, [Next]_vars, status = "COMPLETED", status' # "DELETED"
               PROVE  UNCHANGED <<status, deal, correctionComment, clientCompletionComment,
                                  verifiedSquareMeters, offerVars, roundVars>>
    OBVIOUS
  <2>1. /\ \A d \in drafts : ~CommitSubmit(d)
        /\ \A c \in Companies : ~Withdraw(c) /\ ~Reject(c)
        /\ ~AcceptOffer
    BY TableOfOffers DEF CommitSubmit, maySubmit, Withdraw, Reject, leaveSelection, AcceptOffer,
                         OFFER_ELIGIBLE_ORDER_STATUSES
  <2>2. \A c \in Companies : \A text : ~SubmitWork(c) /\ ~Confirm(c, text) /\ ~Dispute(c, text)
    BY TableOfWork DEF SubmitWork, Confirm, Dispute, workTransition, WORK_UPLOAD_ORDER_STATUSES
  <2>3. /\ \A F, text : ~OpenSubmission(F, text)
        /\ \A u \in uploads : ~AttachWork(u)
        /\ \A area \in Areas : ~VerifyArea(area)
    BY DEF OpenSubmission, AttachWork, assertSubmissionOpen, canUploadWork, VerifyArea,
           mayVerifyArea, canVerifyArea, WORK_UPLOAD_ORDER_STATUSES, AREA_VERIFIABLE_ORDER_STATUSES
  <2>4. QED
    BY <2>1, <2>2, <2>3
       DEF Next, Create, AttachTaskFiles, RollbackCreate, DeleteRow, Remove, StartSubmit,
           DropSubmit, LoadOffer, DropUpload, MarkRead, MarkAllRead, DayPasses, vars,
           orderVars, offerVars, roundVars
<1>2. QED
  BY <1>1, LifecycleTypes, PTL DEF Spec, CompletedIsFinal

-----------------------------------------------------------------------------
(* The edit stamp *)

StampsDiffer == StampGaps \subseteq Nat \ {0}

LEMMA NextEdits ==
  ASSUME StampsDiffer
  PROVE  TypeOK /\ EditsToldApart /\ [Next]_vars => EditsToldApart'
<1> SUFFICES ASSUME TypeOK, EditsToldApart, [Next]_vars PROVE EditsToldApart'
  OBVIOUS
<1> USE DEF EditsToldApart
<1>1. /\ clock \in Nat
      /\ \A d \in drafts : d.stamp \in Nat /\ d.company \in Companies
      /\ \A c \in Companies : editedAt[c] \in Nat \union {Null}
      /\ seen # Null => seen.company \in Companies /\ seen.editedAt \in Nat \union {Null}
      /\ Null \notin Nat
  BY LifecycleAssumption DEF TypeOK
<1>2. CASE RollbackCreate \/ Remove
  <2>1. CASE DeleteRow
    <3>1. UNCHANGED callerVars /\ clock' = clock
      BY <1>2 DEF RollbackCreate, Remove, clockVars
    <3>2. /\ status' = "DELETED"
          /\ \A c \in Companies : editedAt'[c] = Null /\ offerStatus'[c] = NoOffer
      BY <2>1 DEF DeleteRow
    <3>3. QED
      BY <1>1, <3>1, <3>2 DEF callerVars
  <2>2. CASE UNCHANGED <<status, deal, correctionComment, clientCompletionComment,
                         verifiedSquareMeters, taskFiles, offerVars, roundVars>>
    BY <1>2, <2>2 DEF RollbackCreate, Remove, offerVars, callerVars, clockVars
  <2>3. QED
    BY <1>2, <2>1, <2>2 DEF RollbackCreate, Remove
<1>3. ASSUME NEW c \in Companies, NEW t \in Terms, StartSubmit(c, t) PROVE EditsToldApart'
  <2>1. clock' \in Nat /\ clock < clock'
    BY <1>1, <1>3 DEF StartSubmit, StampsDiffer
  <2>2. \A d \in drafts' : d \in drafts \/ d.stamp = clock
    BY <1>3 DEF StartSubmit
  <2>3. /\ UNCHANGED <<status, offerStatus, proposed, editedAt, seen>>
        /\ \A d, e \in drafts' : d.stamp = e.stamp => d = e
    BY <1>1, <1>3 DEF StartSubmit, orderVars, offerVars
  <2>4. QED
    BY <1>1, <2>1, <2>2, <2>3
<1>4. ASSUME NEW d \in drafts, DropSubmit(d) PROVE EditsToldApart'
  BY <1>4 DEF DropSubmit, orderVars, offerVars, clockVars
<1>5. ASSUME NEW d \in drafts, CommitSubmit(d) PROVE EditsToldApart'
  <2>. DEFINE c == d.company
  <2>1. /\ c \in Companies /\ status # "DELETED"
        /\ drafts' = drafts \ {d} /\ clock' = clock /\ seen' = seen
        /\ status' = "AWAITING_CONFIRMATION"
        /\ offerStatus'[c] = "SENT" /\ editedAt'[c] = stampOfUpsert(d)
        /\ \A b \in Companies \ {c} : /\ offerStatus'[b] = offerStatus[b]
                                      /\ editedAt'[b] = editedAt[b]
                                      /\ proposed'[b] = proposed[b]
    BY <1>1, <1>5, TableOfOffers DEF CommitSubmit, maySubmit, TypeOK, clockVars,
                                     OFFER_ELIGIBLE_ORDER_STATUSES
  <2>2. stampOfUpsert(d) # Null => stampOfUpsert(d) = d.stamp
    BY DEF stampOfUpsert
  <2>3. \A e \in drafts' : e.stamp # d.stamp
    BY <2>1
  <2>4. ASSUME seen # Null PROVE offerStatus'[seen.company] # NoOffer
    BY <1>1, <2>1, <2>4 DEF NoOffer
  <2>5. ASSUME seen # Null, editedAt'[seen.company] = seen.editedAt
        PROVE  proposed'[seen.company] = seen.terms
    <3>1. CASE seen.company = c
      <4>1. offerStatus[c] # NoOffer
        BY <2>1, <2>5, <3>1
      <4>2. stampOfUpsert(d) = d.stamp
        BY <4>1 DEF stampOfUpsert
      <4>3. seen.editedAt = d.stamp
        BY <2>1, <2>5, <3>1, <4>2
      <4>4. QED
        BY <1>1, <2>5, <4>3
    <3>2. CASE seen.company # c
      BY <1>1, <2>1, <2>5, <3>2
    <3>3. QED
      BY <3>1, <3>2
  <2>6. \A b \in Companies :
          editedAt'[b] # Null => editedAt'[b] < clock' /\ \A e \in drafts' : e.stamp # editedAt'[b]
    BY <2>1, <2>2, <2>3
  <2>7. QED
    BY <2>1, <2>4, <2>5, <2>6
<1>6. ASSUME NEW c \in Companies, Withdraw(c) \/ Reject(c) PROVE EditsToldApart'
  <2>1. /\ UNCHANGED <<editedAt, proposed, clock, drafts, seen>>
        /\ status # "DELETED"
        /\ \A b \in Companies : offerStatus'[b] = NoOffer <=> offerStatus[b] = NoOffer
    BY <1>6, TableOfOffers DEF Withdraw, Reject, leaveSelection, TypeOK, NoOffer, clockVars,
                               callerVars
  <2>2. QED
    BY <1>1, <2>1
<1>7. ASSUME NEW c \in Companies, LoadOffer(c) PROVE EditsToldApart'
  <2>1. offerStatus[c] # NoOffer
    BY <1>7 DEF LoadOffer, isActiveOffer, ACTIVE_OFFER_STATUSES, EXECUTOR_OFFER_STATUSES,
                EXECUTING_OFFER_STATUSES, NoOffer
  <2>2. QED
    BY <1>1, <1>7, <2>1 DEF LoadOffer, orderVars, offerVars, clockVars
<1>8. CASE AcceptOffer
  <2>1. /\ UNCHANGED <<editedAt, proposed, clock, drafts, seen>>
        /\ status # "DELETED" /\ seen.company \in Companies
        /\ \A b \in Companies : offerStatus'[b] = NoOffer <=> offerStatus[b] = NoOffer
    BY <1>1, <1>8, TableOfOffers DEF AcceptOffer, otherActiveOffers, NoOffer, clockVars, callerVars
  <2>2. QED
    BY <1>1, <2>1
<1>9. ASSUME NEW c \in Companies, NEW text,
             SubmitWork(c) \/ Confirm(c, text) \/ Dispute(c, text)
      PROVE  EditsToldApart'
  <2>1. /\ UNCHANGED <<editedAt, proposed, clock, drafts, seen>>
        /\ status # "DELETED" /\ isExecutor(c)
        /\ offerStatus'[c] # NoOffer
        /\ \A b \in Companies \ {c} : offerStatus'[b] = offerStatus[b]
    BY <1>9, TableOfWork DEF SubmitWork, Confirm, Dispute, workTransition, TypeOK, NoOffer,
                             clockVars, callerVars, WORK_UPLOAD_ORDER_STATUSES
  <2>2. offerStatus[c] # NoOffer
    BY <2>1, ExecutorStatuses DEF isExecutor
  <2>3. QED
    BY <1>1, <2>1, <2>2
<1>10. CASE \/ Create
            \/ \E F \in SUBSET Files : AttachTaskFiles(F)
            \/ \E F \in (SUBSET Files) \ {{}}, text \in Texts : OpenSubmission(F, text)
            \/ \E u \in uploads : DropUpload(u) \/ AttachWork(u)
            \/ \E area \in Areas : VerifyArea(area)
            \/ \E n \in notices : MarkRead(n)
            \/ \E u \in Readers : MarkAllRead(u)
            \/ DayPasses
            \/ UNCHANGED vars
  <2>1. /\ UNCHANGED <<offerStatus, editedAt, proposed, clock, drafts, seen>>
        /\ status = "DELETED" => status' = "DELETED"
    BY <1>10 DEF Create, AttachTaskFiles, OpenSubmission, DropUpload, AttachWork, VerifyArea,
                 MarkRead, MarkAllRead, DayPasses, vars, orderVars, offerVars, clockVars, callerVars
  <2>2. QED
    BY <1>1, <2>1
<1>11. QED
  BY <1>2, <1>3, <1>4, <1>5, <1>6, <1>7, <1>8, <1>9, <1>10 DEF Next

\* If no two requests arrive in one millisecond, the stamps tell edits apart.
THEOREM EditsAlwaysToldApart ==
  ASSUME StampsDiffer PROVE Spec => []EditsToldApart
<1>1. Init => TypeOK /\ EditsToldApart
  BY InitType DEF Init, EditsToldApart
<1>2. TypeOK /\ EditsToldApart /\ [Next]_vars => (TypeOK /\ EditsToldApart)'
  BY NextType, NextEdits
<1>3. QED
  BY <1>1, <1>2, PTL DEF Spec

\* Only accepting an offer starts the work.
LEMMA OnlyAcceptanceStarts ==
  ASSUME TypeOK, [Next]_vars, status = "AWAITING_CONFIRMATION", status' = "IN_PROGRESS"
  PROVE  AcceptOffer
<1>1. \A c \in Companies : \A text :
        ~(SubmitWork(c) \/ Confirm(c, text) \/ Dispute(c, text))
  BY TableOfWork DEF SubmitWork, Confirm, Dispute, workTransition, WORK_UPLOAD_ORDER_STATUSES
<1>2. \A c \in Companies : ~(Withdraw(c) \/ Reject(c))
  BY DEF Withdraw, Reject, leaveSelection, statusAfterLeaving
<1>3. QED
  BY <1>1, <1>2
     DEF Next, Create, AttachTaskFiles, RollbackCreate, DeleteRow, Remove, StartSubmit, DropSubmit,
         CommitSubmit, LoadOffer, OpenSubmission, DropUpload, AttachWork, VerifyArea, MarkRead,
         MarkAllRead, DayPasses, vars, orderVars

\* The client never ends up with terms other than those its tab showed when it
\* pressed the button, provided that stamps differ.
THEOREM TheDealIsTheOneSeen ==
  ASSUME StampsDiffer PROVE Spec => DealAsSeen
<1>1. TypeOK /\ EditsToldApart /\ [Next]_vars =>
        [status = "AWAITING_CONFIRMATION" /\ status' = "IN_PROGRESS" => deal' = seen.terms]_vars
  <2> SUFFICES ASSUME TypeOK, EditsToldApart, [Next]_vars,
                      status = "AWAITING_CONFIRMATION", status' = "IN_PROGRESS"
               PROVE  deal' = seen.terms
    OBVIOUS
  <2>1. AcceptOffer
    BY OnlyAcceptanceStarts
  <2>2. QED
    BY <2>1 DEF AcceptOffer, offerUnchanged, EditsToldApart
<1>2. Spec => []TypeOK
  BY LifecycleTypes
<1>3. Spec => []EditsToldApart
  BY EditsAlwaysToldApart
<1>4. QED
  BY <1>1, <1>2, <1>3, PTL DEF Spec, DealAsSeen

-----------------------------------------------------------------------------
(* The lifecycle implements the contract *)

\* The stage of the contract, status by status.
LEMMA StageOfStatus ==
  /\ status \in {"WAITING", "AWAITING_CONFIRMATION"} => contractStage = "choosing"
  /\ status \in {"IN_PROGRESS", "COMPLETION_DISPUTED"} => contractStage = "working"
  /\ status = "AWAITING_COMPLETION_CONFIRMATION" => contractStage = "judging"
  /\ status = "COMPLETED" => contractStage = "done"
  /\ status = "NONE" => contractStage = "none"
  /\ status = "DELETED" => contractStage = "gone"
  BY DEF contractStage, OFFER_ELIGIBLE_ORDER_STATUSES, WORK_UPLOAD_ORDER_STATUSES

LEMMA StageOfNextStatus ==
  /\ status' \in {"WAITING", "AWAITING_CONFIRMATION"} => contractStage' = "choosing"
  /\ status' \in {"IN_PROGRESS", "COMPLETION_DISPUTED"} => contractStage' = "working"
  /\ status' = "AWAITING_COMPLETION_CONFIRMATION" => contractStage' = "judging"
  /\ status' = "COMPLETED" => contractStage' = "done"
  /\ status' = "NONE" => contractStage' = "none"
  /\ status' = "DELETED" => contractStage' = "gone"
  BY DEF contractStage, OFFER_ELIGIBLE_ORDER_STATUSES, WORK_UPLOAD_ORDER_STATUSES

\* The one executor is the contractor.
LEMMA ExecutorIsContractor ==
  ASSUME NEW c \in Companies, isExecutor(c), \A b \in Companies \ {c} : ~isExecutor(b),
         status \in WorkStages
  PROVE  contractorOf = c
  BY DEF contractorOf

LEMMA NextExecutorIsContractor ==
  ASSUME NEW c \in Companies, isExecutor(c)', \A b \in Companies \ {c} : ~isExecutor(b)',
         status' \in WorkStages
  PROVE  contractorOf' = c
  BY DEF contractorOf

\* create() has committed the row before it attaches files or rolls back.
CreatingHasRow == creating => status # "NONE"

LEMMA NextCreatingHasRow == CreatingHasRow /\ [Next]_vars => CreatingHasRow'
<1> SUFFICES ASSUME CreatingHasRow, [Next]_vars PROVE CreatingHasRow'
  OBVIOUS
<1>1. CASE Create
  BY <1>1 DEF Create, CreatingHasRow
<1>2. CASE ~Create
  <2>1. CASE UNCHANGED vars
    BY <2>1 DEF vars, orderVars, CreatingHasRow
  <2>2. CASE \/ \E c \in Companies : SubmitWork(c)
             \/ \E c \in Companies, text \in Texts \union {Null} : Confirm(c, text)
             \/ \E c \in Companies, text \in Texts : Dispute(c, text)
    BY <2>2 DEF SubmitWork, Confirm, Dispute, workTransition, CreatingHasRow
  <2>3. CASE \/ \E d \in drafts : CommitSubmit(d)
             \/ \E c \in Companies : Withdraw(c) \/ Reject(c)
             \/ AcceptOffer \/ Remove \/ RollbackCreate
    BY <2>3 DEF CommitSubmit, Withdraw, Reject, leaveSelection, statusAfterLeaving, AcceptOffer,
                Remove, RollbackCreate, DeleteRow, rowUnchanged, CreatingHasRow
  <2>4. CASE \/ \E F \in SUBSET Files : AttachTaskFiles(F)
             \/ \E c \in Companies, t \in Terms : StartSubmit(c, t)
             \/ \E d \in drafts : DropSubmit(d)
             \/ \E c \in Companies : LoadOffer(c)
             \/ \E F \in (SUBSET Files) \ {{}}, text \in Texts : OpenSubmission(F, text)
             \/ \E u \in uploads : DropUpload(u) \/ AttachWork(u)
             \/ \E area \in Areas : VerifyArea(area)
             \/ \E n \in notices : MarkRead(n)
             \/ \E u \in Readers : MarkAllRead(u)
             \/ DayPasses
    BY <2>4 DEF AttachTaskFiles, StartSubmit, DropSubmit, LoadOffer, OpenSubmission, DropUpload,
                AttachWork, VerifyArea, MarkRead, MarkAllRead, DayPasses, orderVars, CreatingHasRow
  <2>5. QED
    BY <1>2, <2>1, <2>2, <2>3, <2>4 DEF Next
<1>3. QED
  BY <1>1, <1>2

\* Every step of the lifecycle is a step of the contract, or none.
LEMMA StepKeepsContract ==
  TypeOK /\ SelectionConsistent /\ DealIsTheOffer /\ CreatingHasRow /\ [Next]_vars
    => [Contract!ContractNext]_(Contract!contractVars)
<1> SUFFICES ASSUME TypeOK, SelectionConsistent, DealIsTheOffer, CreatingHasRow, [Next]_vars
             PROVE  Contract!ContractNext \/ UNCHANGED <<contractStage, contractorOf, deal>>
  BY DEF Contract!contractVars
<1>1. CASE Create
  <2>1. contractStage = "none" /\ contractStage' = "choosing" /\ deal' = deal
    BY <1>1, StageOfStatus, StageOfNextStatus DEF Create
  <2>2. contractorOf = Null /\ contractorOf' = Null
    BY <1>1 DEF Create, contractorOf, WorkStages
  <2>3. QED
    BY <2>1, <2>2 DEF Contract!ContractNext, Contract!Publish
<1>2. CASE RollbackCreate \/ Remove
  <2>1. CASE DeleteRow /\ status \notin {"NONE", "DELETED"}
    <3>1. contractStage \notin {"none", "gone"} /\ contractStage' = "gone"
      BY <2>1, StageOfStatus, StageOfNextStatus DEF DeleteRow, TypeOK, OrderStatus
    <3>2. contractorOf' = Null /\ deal' = Null
      BY <2>1 DEF DeleteRow, contractorOf, WorkStages
    <3>3. QED
      BY <3>1, <3>2 DEF Contract!ContractNext, Contract!TakeBack
  <2>2. CASE UNCHANGED <<status, deal, correctionComment, clientCompletionComment,
                         verifiedSquareMeters, taskFiles, offerVars, roundVars>>
    <3>1. UNCHANGED <<status, offerStatus, deal>>
      BY <2>2 DEF offerVars
    <3>2. QED
      BY <3>1 DEF contractStage, contractorOf, isExecutor
  <2>3. CASE DeleteRow /\ status = "DELETED"
    <3>1. UNCHANGED <<contractStage, contractorOf>>
      BY <2>3 DEF DeleteRow, contractStage, contractorOf, WorkStages
    <3>2. deal = Null /\ deal' = Null
      BY <2>3 DEF DeleteRow, DealIsTheOffer, WorkStages
    <3>3. QED
      BY <3>1, <3>2
  <2>4. QED
    BY <1>2, <2>1, <2>2, <2>3
       DEF RollbackCreate, Remove, canDeleteOrder, DELETABLE_ORDER_STATUSES, CreatingHasRow
<1>3. CASE \/ \E d \in drafts : CommitSubmit(d)
           \/ \E c \in Companies : Withdraw(c) \/ Reject(c)
  <2>1. /\ status \in OFFER_ELIGIBLE_ORDER_STATUSES
        /\ status' \in OFFER_ELIGIBLE_ORDER_STATUSES
        /\ deal' = deal
    BY <1>3, TableOfOffers DEF CommitSubmit, maySubmit, Withdraw, Reject, leaveSelection,
                               statusAfterLeaving, OFFER_ELIGIBLE_ORDER_STATUSES
  <2>2. contractStage = "choosing" /\ contractStage' = "choosing"
    BY <2>1, StageOfStatus, StageOfNextStatus DEF OFFER_ELIGIBLE_ORDER_STATUSES
  <2>3. contractorOf = Null /\ contractorOf' = Null
    BY <2>1 DEF contractorOf, WorkStages, OFFER_ELIGIBLE_ORDER_STATUSES
  <2>4. QED
    BY <2>1, <2>2, <2>3
<1>4. CASE AcceptOffer
  <2>1. PICK c \in Companies : c = seen.company /\ status = "AWAITING_CONFIRMATION"
    BY <1>4, TableOfOffers DEF AcceptOffer, TypeOK
  <2>2. /\ status' = "IN_PROGRESS" /\ deal' = proposed[c]
        /\ offerStatus'[c] = "ACCEPTED"
        /\ \A b \in Companies \ {c} :
             offerStatus'[b] = IF offerStatus[b] = "SENT" THEN "NOT_ACCEPTED" ELSE offerStatus[b]
    BY <1>4, <2>1 DEF AcceptOffer, otherActiveOffers
  <2>3. isExecutor(c)' /\ \A b \in Companies \ {c} : ~isExecutor(b)'
    BY <2>1, <2>2, ExecutorStatuses DEF SelectionConsistent, isExecutor, WorkStages
  <2>4. contractorOf' = c
    BY <2>1, <2>2, <2>3, NextExecutorIsContractor DEF WorkStages
  <2>5. proposed[c] \in Terms
    BY <1>4, <2>1 DEF AcceptOffer, TypeOK
  <2>6. contractStage = "choosing" /\ contractStage' = "working"
    BY <2>1, <2>2, StageOfStatus, StageOfNextStatus
  <2>7. Contract!Engage(c, proposed[c])
    BY <2>2, <2>4, <2>6 DEF Contract!Engage
  <2>8. QED
    BY <2>1, <2>5, <2>7 DEF Contract!ContractNext
<1>5. ASSUME NEW c \in Companies, NEW text,
             SubmitWork(c) \/ Confirm(c, text) \/ Dispute(c, text)
      PROVE  Contract!ContractNext
  <2>1. /\ status \in WorkStages /\ status' \in WorkStages /\ isExecutor(c) /\ deal' = deal
        /\ \A b \in Companies \ {c} : offerStatus'[b] = offerStatus[b]
        /\ offerStatus'[c] \in {"WORK_SUBMITTED", "COMPLETED", "BACK_FOR_OVERRIDE"}
    BY <1>5, TableOfWork DEF SubmitWork, Confirm, Dispute, workTransition, WorkStages,
                             WORK_UPLOAD_ORDER_STATUSES, TypeOK
  <2>2. \A b \in Companies \ {c} : ~isExecutor(b)
    BY <2>1, OneExecutor
  <2>3. contractorOf = c
    BY <2>1, <2>2, ExecutorIsContractor
  <2>4. isExecutor(c)' /\ \A b \in Companies \ {c} : ~isExecutor(b)'
    BY <2>1, <2>2 DEF isExecutor, isExecutorOffer, EXECUTOR_OFFER_STATUSES,
                      EXECUTING_OFFER_STATUSES
  <2>5. contractorOf' = c
    BY <2>1, <2>4, NextExecutorIsContractor
  <2>6. CASE SubmitWork(c)
    <3>1. contractStage = "working" /\ contractStage' = "judging"
      BY <2>6, TableOfWork, StageOfStatus, StageOfNextStatus
         DEF SubmitWork, workTransition, WORK_UPLOAD_ORDER_STATUSES
    <3>2. QED
      BY <2>1, <2>3, <2>5, <3>1 DEF Contract!ContractNext, Contract!Proceed
  <2>7. CASE Confirm(c, text)
    <3>1. contractStage = "judging" /\ contractStage' = "done"
      BY <2>7, TableOfWork, StageOfStatus, StageOfNextStatus DEF Confirm, workTransition
    <3>2. QED
      BY <2>1, <2>3, <2>5, <3>1 DEF Contract!ContractNext, Contract!Proceed
  <2>8. CASE Dispute(c, text)
    <3>1. contractStage = "judging" /\ contractStage' = "working"
      BY <2>8, TableOfWork, StageOfStatus, StageOfNextStatus DEF Dispute, workTransition
    <3>2. QED
      BY <2>1, <2>3, <2>5, <3>1 DEF Contract!ContractNext, Contract!Proceed
  <2>9. QED
    BY <1>5, <2>6, <2>7, <2>8
<1>6. CASE \/ \E F \in SUBSET Files : AttachTaskFiles(F)
           \/ \E c \in Companies, t \in Terms : StartSubmit(c, t)
           \/ \E d \in drafts : DropSubmit(d)
           \/ \E c \in Companies : LoadOffer(c)
           \/ \E F \in (SUBSET Files) \ {{}}, text \in Texts : OpenSubmission(F, text)
           \/ \E u \in uploads : DropUpload(u) \/ AttachWork(u)
           \/ \E area \in Areas : VerifyArea(area)
           \/ \E n \in notices : MarkRead(n)
           \/ \E u \in Readers : MarkAllRead(u)
           \/ DayPasses
           \/ UNCHANGED vars
  <2>1. UNCHANGED <<status, offerStatus, deal>>
    BY <1>6 DEF AttachTaskFiles, StartSubmit, DropSubmit, LoadOffer, OpenSubmission, DropUpload,
                AttachWork, VerifyArea, MarkRead, MarkAllRead, DayPasses, vars, orderVars, offerVars
  <2>2. QED
    BY <2>1 DEF contractStage, contractorOf, isExecutor
<1>7. QED
  BY <1>1, <1>2, <1>3, <1>4, <1>5, <1>6 DEF Next

\* The detailed lifecycle implements the abstract contract.
THEOREM LifecycleKeepsContract == Spec => KeepsContract
<1>. DEFINE Inv == TypeOK /\ SelectionConsistent /\ DealIsTheOffer /\ CreatingHasRow
<1>0. Spec => []CreatingHasRow
  <2>1. Init => CreatingHasRow
    BY DEF Init, CreatingHasRow
  <2>2. QED
    BY <2>1, NextCreatingHasRow, PTL DEF Spec
<1>1. Init => Contract!ContractInit
  BY DEF Init, Contract!ContractInit, contractStage, contractorOf, WorkStages,
         OFFER_ELIGIBLE_ORDER_STATUSES, WORK_UPLOAD_ORDER_STATUSES
<1>2. Inv /\ [Next]_vars => [Contract!ContractNext]_(Contract!contractVars)
  BY StepKeepsContract
<1>3. QED
  BY <1>0, <1>1, <1>2, LifecycleTypes, SelectionAlwaysConsistent, DealAlwaysTheOffer, PTL
     DEF Spec, KeepsContract, Contract!ContractSpec

-----------------------------------------------------------------------------
(* Who is who *)

LEMMA Viewers ==
  /\ ownStatus(Client) = NoOffer
  /\ \A c \in Companies : c # Client /\ ownStatus(c) = offerStatus[c]
  /\ \A u \in Users : u = Client \/ u \in Companies
  /\ ~isExecutorOffer(NoOffer) /\ ~isActiveOffer(NoOffer)
  BY LifecycleAssumption DEF ownStatus, Users, isActiveOffer, ACTIVE_OFFER_STATUSES,
     isExecutorOffer, EXECUTOR_OFFER_STATUSES, EXECUTING_OFFER_STATUSES, NoOffer

LEMMA ExecutorsAreActive ==
  ASSUME NEW o
  PROVE  /\ isExecutorOffer(o) => isActiveOffer(o)
         /\ isActiveOffer(o) => o # NoOffer
  BY DEF isActiveOffer, ACTIVE_OFFER_STATUSES, isExecutorOffer, EXECUTOR_OFFER_STATUSES,
     EXECUTING_OFFER_STATUSES, NoOffer

\* An order that has a row is in a status of its own.
LEMMA Existing == exists => status \notin {"NONE", "DELETED"}
  BY DEF exists, OrderStatus

-----------------------------------------------------------------------------
(* Files *)

\* What order-view lists, files.service serves, and the section of documents
\* (buildDocumentsWhere) holds nothing that the two would keep from the user.
THEOREM FilesShownAlwaysServed == Spec => []FilesShownAreServed
<1>1. FilesShownAreServed
  <2> SUFFICES ASSUME exists, NEW u \in Users
               PROVE  /\ visibleFiles(u) = {f \in orderFiles : assertFileAccess(u, f.ownerType)}
                      /\ documents(u) \subseteq visibleFiles(u)
    BY DEF FilesShownAreServed, getDownloadUrl
  <2>1. \A f \in orderFiles : f.ownerType = "CLIENT" \/ f.ownerType = "COMPANY"
    BY DEF orderFiles
  <2>2. CASE u = Client
    BY <2>2 DEF visibleFiles, assertFileAccess, documents, isParty
  <2>3. CASE u \in Companies
    <3>1. u # Client /\ ownStatus(u) = offerStatus[u]
      BY <2>3, Viewers
    <3>2. CASE isExecutorOffer(offerStatus[u])
      BY <2>1, <2>3, <3>1, <3>2
         DEF visibleFiles, assertFileAccess, documents, isParty, companySeesTaskFiles
    <3>3. CASE ~isExecutorOffer(offerStatus[u])
      BY <2>1, <2>3, <3>1, <3>3
         DEF visibleFiles, assertFileAccess, documents, isParty, companySeesTaskFiles, isExecutor
    <3> QED BY <3>2, <3>3
  <2> QED BY <2>2, <2>3, Viewers
<1> QED BY <1>1, PTL

-----------------------------------------------------------------------------
(* Rooms *)

\* The one offer of its own that a company finds in the answer.
LEMMA OwnOfferInDetail ==
  ASSUME NEW c \in Companies
  PROVE  /\ toOrderDetail(c).offers = visibleOffers(c)
         /\ toOrderDetail(c).clients = {x \in {Client} : isParty(c)}
         /\ visibleOffers(c) = IF offerStatus[c] = NoOffer THEN {} ELSE {OfferDto(c)}
         /\ ownOffer(toOrderDetail(c), c) = visibleOffers(c)
         /\ ~isOwner(toOrderDetail(c), c)
<1>1. visibleOffers(c) = IF offerStatus[c] = NoOffer THEN {} ELSE {OfferDto(c)}
  BY Viewers DEF visibleOffers
<1>2. OfferDto(c).company = c
  BY DEF OfferDto
<1> QED BY <1>1, <1>2, Viewers DEF toOrderDetail, ownOffer, isOwner

LEMMA ClientInDetail ==
  /\ isOwner(toOrderDetail(Client), Client)
  /\ toOrderDetail(Client).offers = {OfferDto(c) : c \in {b \in Companies : isActiveOffer(offerStatus[b])}}
  /\ toOrderDetail(Client).item.status = status
  BY DEF toOrderDetail, isOwner, isParty, visibleOffers, toOrderListItem, seesProgress

\* The page subscribes exactly where the gateway admits (resolveOrderDetailAccess
\* and isOrderParticipant), and there the status is the real one.
THEOREM RoomAlwaysForParticipants == Spec => []RoomIsForParticipants
<1>1. RoomIsForParticipants
  <2> SUFFICES ASSUME exists, NEW u \in Users
               PROVE  LET detail == toOrderDetail(u) IN
                      /\ seesRealStatus(detail, u) <=> isOrderParticipant(u)
                      /\ seesRealStatus(detail, u) => detail.item.status = status
    BY DEF RoomIsForParticipants
  <2>1. CASE u = Client
    BY <2>1, ClientInDetail DEF seesRealStatus, isOrderParticipant
  <2>2. CASE u \in Companies
    <3>1. seesRealStatus(toOrderDetail(u), u) <=> isActiveOffer(offerStatus[u])
      <4>1. OfferDto(u).status = offerStatus[u]
        BY DEF OfferDto
      <4> QED BY <2>2, <4>1, OwnOfferInDetail, ExecutorsAreActive DEF seesRealStatus
    <3>2. isOrderParticipant(u) <=> isActiveOffer(offerStatus[u])
      BY <2>2, Viewers DEF isOrderParticipant
    <3>3. isActiveOffer(offerStatus[u]) => toOrderDetail(u).item.status = status
      BY <2>2, Viewers DEF toOrderDetail, toOrderListItem, seesProgress
    <3> QED BY <3>1, <3>2, <3>3
  <2> QED BY <2>1, <2>2, Viewers
<1> QED BY <1>1, PTL

-----------------------------------------------------------------------------
(* The mask *)

\* What a company out of play gets, in terms of what it may know.
strangersDetail(c) ==
  [item |-> [status |-> "WAITING", deal |-> Null, contractors |-> {}],
   verifiedSquareMeters |-> Null,
   clientCompletionComment |-> Null,
   correctionComment |-> Null,
   clients |-> {},
   offers |-> IF OfferDto(c).status = NoOffer THEN {} ELSE {OfferDto(c)},
   files |-> IF acceptsOffers(status)
             THEN {[ownerType |-> "CLIENT", round |-> 0, content |-> f] : f \in taskFiles}
             ELSE {},
   filesSizeBytes |-> Null,
   submissions |-> {},
   canSubmitOffer |->
     /\ acceptsOffers(status)
     /\ OfferDto(c).status \in {NoOffer, "WITHDRAWN", "REJECTED"}
     /\ ~(OfferDto(c).status = "REJECTED" /\ OfferDto(c).rejectionCount >= MAX_OFFER_REJECTIONS)]

LEMMA StrangersGet ==
  ASSUME TypeOK, NEW c \in Companies, outOfPlay(c)
  PROVE  toOrderDetail(c) = strangersDetail(c)
<1>1. ~seesProgress(c) /\ ~isParty(c) /\ ~isActiveOffer(offerStatus[c]) /\ ~isExecutorOffer(offerStatus[c])
  BY Viewers, ExecutorsAreActive DEF outOfPlay, seesProgress, isParty
<1>2. toOrderListItem(c) = [status |-> "WAITING", deal |-> Null, contractors |-> {}]
  BY <1>1 DEF toOrderListItem, shown
<1>3. OfferDto(c).status = offerStatus[c] /\ OfferDto(c).rejectionCount = rejectionCount[c]
  BY DEF OfferDto
<1>4. visibleOffers(c) = IF OfferDto(c).status = NoOffer THEN {} ELSE {OfferDto(c)}
  BY <1>3, OwnOfferInDetail
<1>5. visibleFiles(c) = IF acceptsOffers(status)
                        THEN {[ownerType |-> "CLIENT", round |-> 0, content |-> f] : f \in taskFiles}
                        ELSE {}
  <2>1. companySeesTaskFiles(status, ownStatus(c)) <=> acceptsOffers(status)
    BY <1>1, Viewers DEF companySeesTaskFiles
  <2>2. {f \in orderFiles : f.ownerType = "CLIENT"}
          = {[ownerType |-> "CLIENT", round |-> 0, content |-> f] : f \in taskFiles}
    BY DEF orderFiles
  <2> QED BY <1>1, <2>1, <2>2 DEF visibleFiles
<1>6. submissionDtos(c) = {} /\ filesSizeBytes(c) = Null /\ {x \in {Client} : isParty(c)} = {}
  BY <1>1 DEF submissionDtos, filesSizeBytes, shown
<1>7. (c # Client /\ canSubmitOffer(c)) =
        (/\ acceptsOffers(status)
         /\ OfferDto(c).status \in {NoOffer, "WITHDRAWN", "REJECTED"}
         /\ ~(OfferDto(c).status = "REJECTED" /\ OfferDto(c).rejectionCount >= MAX_OFFER_REJECTIONS))
  <2>1. canTransition(status, "OFFER_SUBMITTED", offerStatus[c]) <=>
          acceptsOffers(status) /\ offerStatus[c] \in {NoOffer, "SENT", "WITHDRAWN", "REJECTED"}
    BY DEF canTransition, ORDER_TRANSITIONS, OFFER_PRECONDITIONS, OrderStatus, OrderEventType,
           acceptsOffers, OFFER_ELIGIBLE_ORDER_STATUSES, RESUBMITTABLE_OFFER_STATUSES,
           WORK_UPLOAD_ORDER_STATUSES
  <2>2. offerStatus[c] # "SENT"
    BY <1>1 DEF isActiveOffer, ACTIVE_OFFER_STATUSES
  <2> QED BY <1>3, <2>1, <2>2, Viewers DEF canSubmitOffer, isFinallyRejected, NoOffer
<1> QED BY <1>1, <1>2, <1>4, <1>5, <1>6, <1>7 DEF toOrderDetail, strangersDetail, shown

\* No step of others shows in what a company out of play gets (order-view.ts).
THEOREM StrangersNeverSeeProgress == Spec => StrangersSeeNoProgress
<1> DEFINE Masked == \A c \in Companies : outOfPlay(c) => toOrderDetail(c) = strangersDetail(c)
           Still == \A c \in Companies :
                      /\ outOfPlay(c) /\ outOfPlay(c)'
                      /\ OfferDto(c)' = OfferDto(c)
                      /\ acceptsOffers(status') = acceptsOffers(status)
                      /\ acceptsOffers(status) => taskFiles' = taskFiles
                      => toOrderDetail(c)' = toOrderDetail(c)
<1>1. TypeOK => Masked
  BY StrangersGet
<1>2. ASSUME Masked, Masked' PROVE Still
  <2> SUFFICES ASSUME NEW c \in Companies, outOfPlay(c), outOfPlay(c)', OfferDto(c)' = OfferDto(c),
                      acceptsOffers(status') = acceptsOffers(status),
                      acceptsOffers(status) => taskFiles' = taskFiles
               PROVE  toOrderDetail(c)' = toOrderDetail(c)
    OBVIOUS
  <2>1. strangersDetail(c)' = strangersDetail(c)
    BY DEF strangersDetail
  <2> QED BY <1>2, <2>1
<1>3. Masked /\ Masked' /\ [Next]_vars => [Still]_vars
  BY <1>2
<1>4. [][Still]_vars => StrangersSeeNoProgress
  BY DEF StrangersSeeNoProgress
<1> QED BY <1>1, <1>3, <1>4, LifecycleTypes, PTL DEF Spec

-----------------------------------------------------------------------------
(* The buttons *)

\* The page takes rounds from submissions and from files; files have a round.
FilesHaveRounds == \A r \in Round : roundFiles[r] # {} => hasRow(r)

LEMMA NextFilesHaveRounds ==
  TypeOK /\ FilesHaveRounds /\ [Next]_vars => FilesHaveRounds'
<1> SUFFICES ASSUME TypeOK, FilesHaveRounds, [Next]_vars PROVE FilesHaveRounds'
  OBVIOUS
<1> USE DEF FilesHaveRounds, hasRow
<1>1. ASSUME NEW F, NEW text, OpenSubmission(F, text) PROVE FilesHaveRounds'
  BY <1>1 DEF OpenSubmission, TypeOK, roundVars
<1>2. ASSUME NEW u \in uploads, AttachWork(u) PROVE FilesHaveRounds'
  BY <1>2 DEF AttachWork, assertSubmissionOpen, TypeOK
<1>3. ASSUME NEW c \in Companies, SubmitWork(c) PROVE FilesHaveRounds'
  BY <1>3 DEF SubmitWork, TypeOK
<1>4. CASE RollbackCreate \/ Remove
  <2>1. CASE DeleteRow
    BY <2>1 DEF DeleteRow
  <2>2. CASE UNCHANGED <<status, deal, correctionComment, clientCompletionComment,
                         verifiedSquareMeters, taskFiles, offerVars, roundVars>>
    BY <2>2 DEF roundVars
  <2> QED BY <1>4, <2>1, <2>2 DEF RollbackCreate, Remove
<1>5. CASE \/ Create \/ AcceptOffer \/ DayPasses
           \/ \E F \in SUBSET Files : AttachTaskFiles(F)
           \/ \E c \in Companies, t \in Terms : StartSubmit(c, t)
           \/ \E d \in drafts : DropSubmit(d) \/ CommitSubmit(d)
           \/ \E c \in Companies : Withdraw(c) \/ Reject(c) \/ LoadOffer(c)
           \/ \E u \in uploads : DropUpload(u)
           \/ \E c \in Companies, text \in Texts \union {Null} : Confirm(c, text)
           \/ \E c \in Companies, text \in Texts : Dispute(c, text)
           \/ \E area \in Areas : VerifyArea(area)
           \/ \E n \in notices : MarkRead(n)
           \/ \E u \in Readers : MarkAllRead(u)
           \/ UNCHANGED vars
  <2>1. UNCHANGED roundVars
    BY <1>5 DEF Create, AcceptOffer, DayPasses, AttachTaskFiles, StartSubmit, DropSubmit,
         CommitSubmit, Withdraw, Reject, leaveSelection, LoadOffer, DropUpload, Confirm, Dispute,
         VerifyArea, MarkRead, MarkAllRead, vars
  <2> QED BY <2>1 DEF roundVars
<1> QED BY <1>1, <1>2, <1>3, <1>4, <1>5 DEF Next

\* What the state machine asks of an offer that has a row.
LEMMA MovesOfOffers ==
  ASSUME NEW s, NEW o, o # NoOffer
  PROVE  /\ \A e \in {"OFFER_WITHDRAWN", "OFFER_REJECTED", "OFFER_ACCEPTED"} :
              canTransition(s, e, o) <=> s = "AWAITING_CONFIRMATION" /\ o = "SENT"
         /\ canTransition(s, "OFFER_SUBMITTED", o) <=>
              acceptsOffers(s) /\ o \in {"SENT", "WITHDRAWN", "REJECTED"}
         /\ canTransition(s, "WORK_SUBMITTED", o) => isExecutorOffer(o) /\ canUploadWork(s)
  BY DEF canTransition, ORDER_TRANSITIONS, OFFER_PRECONDITIONS, OrderStatus, OrderEventType,
         acceptsOffers, OFFER_ELIGIBLE_ORDER_STATUSES, RESUBMITTABLE_OFFER_STATUSES,
         WORK_UPLOAD_ORDER_STATUSES, isExecutorOffer, EXECUTOR_OFFER_STATUSES,
         EXECUTING_OFFER_STATUSES, canUploadWork

LEMMA ClientButtonsAgree ==
  ASSUME TypeOK, NEW c \in Companies
  PROVE  clientButtons(toOrderDetail(Client), Client, c) = clientMay(c)
<1> DEFINE detail == toOrderDetail(Client)
<1>1. \A o \in detail.offers : o.company = c =>
        o = OfferDto(c) /\ isActiveOffer(offerStatus[c]) /\ offerStatus[c] # NoOffer
  <2>1. \A b \in Companies : OfferDto(b).company = b
    BY DEF OfferDto
  <2> QED BY <2>1, ClientInDetail, ExecutorsAreActive
<1>2. isActiveOffer(offerStatus[c]) => OfferDto(c) \in detail.offers
  BY ClientInDetail
<1>3. /\ OfferDto(c).company = c /\ OfferDto(c).status = offerStatus[c]
      /\ OfferDto(c).terms = proposed[c]
  BY DEF OfferDto
<1>4. isActiveOffer("SENT") /\ isPendingOffer("SENT") /\ \A o : isPendingOffer(o) <=> o = "SENT"
  BY DEF isActiveOffer, ACTIVE_OFFER_STATUSES, isPendingOffer
<1>5. \A e : Can(detail, e, OfferDto(c)) <=> canTransition(status, e, offerStatus[c])
  BY <1>3, ClientInDetail DEF Can
<1>6. OfferDto(c) \in decisions(detail, Client) <=> offerStatus[c] = "SENT"
  BY <1>1, <1>2, <1>3, <1>4, ClientInDetail DEF decisions
<1> DEFINE shows(b) == \E o \in detail.offers :
       /\ o.company = c /\ isOwner(detail, Client)
       /\ CASE b = "accept"  -> o \in decisions(detail, Client) /\ canAccept(detail, o)
            [] b = "reject"  -> o \in decisions(detail, Client) /\ Can(detail, "OFFER_REJECTED", o)
            [] b = "confirm" -> isExecutorOffer(o.status) /\ Can(detail, "WORK_CONFIRMED", o)
            [] b = "dispute" -> isExecutorOffer(o.status) /\ Can(detail, "WORK_DISPUTED", o)
<1>7. ASSUME NEW b PROVE shows(b) <=>
        /\ isActiveOffer(offerStatus[c])
        /\ LET o == OfferDto(c) IN
           CASE b = "accept"  -> o \in decisions(detail, Client) /\ canAccept(detail, o)
             [] b = "reject"  -> o \in decisions(detail, Client) /\ Can(detail, "OFFER_REJECTED", o)
             [] b = "confirm" -> isExecutorOffer(o.status) /\ Can(detail, "WORK_CONFIRMED", o)
             [] b = "dispute" -> isExecutorOffer(o.status) /\ Can(detail, "WORK_DISPUTED", o)
  BY <1>1, <1>2, <1>3, ClientInDetail
<1> HIDE DEF detail, shows
<1>8. shows("accept") <=>
        moves(c, "OFFER_ACCEPTED") /\ ~isOfferExpired(proposed[c].deadline, today)
  BY <1>3, <1>4, <1>5, <1>6, <1>7, ExecutorsAreActive, MovesOfOffers DEF canAccept, moves
<1>9. shows("reject") <=> moves(c, "OFFER_REJECTED")
  BY <1>3, <1>4, <1>5, <1>6, <1>7, ExecutorsAreActive, MovesOfOffers DEF moves
<1>10. shows("confirm") <=> isExecutor(c) /\ moves(c, "WORK_CONFIRMED")
  BY <1>3, <1>5, <1>7, ExecutorsAreActive DEF moves, isExecutor
<1>11. shows("dispute") <=> isExecutor(c) /\ moves(c, "WORK_DISPUTED")
  BY <1>3, <1>5, <1>7, ExecutorsAreActive DEF moves, isExecutor
<1>12. clientButtons(detail, Client, c) = {b \in ClientButton : shows(b)}
  BY DEF clientButtons, shows
<1>13. clientButtons(detail, Client, c) = clientMay(c)
  BY <1>8, <1>9, <1>10, <1>11, <1>12 DEF clientMay, ClientButton
<1> QED BY <1>13 DEF detail

\* The client and the executor get the order as it is.
LEMMA PartyGets ==
  ASSUME NEW u \in Users, isParty(u)
  PROVE  /\ toOrderDetail(u).item.status = status
         /\ toOrderDetail(u).item.deal = deal
         /\ toOrderDetail(u).item.contractors = executors
         /\ toOrderDetail(u).verifiedSquareMeters = verifiedSquareMeters
         /\ toOrderDetail(u).correctionComment = correctionComment
         /\ toOrderDetail(u).files = orderFiles
         /\ toOrderDetail(u).submissions = submissionDtos(u)
<1>1. seesProgress(u)
  BY ExecutorsAreActive DEF isParty, seesProgress
<1>2. toOrderListItem(u) = [status |-> status, deal |-> deal, contractors |-> executors]
  BY <1>1 DEF toOrderListItem, shown, executors
<1> QED BY <1>1, <1>2 DEF toOrderDetail, shown, visibleFiles

LEMMA FilesOfRounds ==
  ASSUME NEW detail, detail.files = orderFiles, NEW q \in Round
  PROVE  companyFiles(detail, q) =
           {[ownerType |-> "COMPANY", round |-> q, content |-> f] : f \in roundFiles[q]}
<1> DEFINE workOf(p) == {[ownerType |-> "COMPANY", round |-> p, content |-> f] : f \in roundFiles[p]}
<1>1. \A x \in orderFiles : x.ownerType = "COMPANY" => x \in UNION {workOf(p) : p \in Round}
  BY DEF orderFiles
<1>2. \A p \in Round : \A x \in workOf(p) :
        x \in orderFiles /\ x.ownerType = "COMPANY" /\ x.round = p
  BY DEF orderFiles
<1>3. companyFiles(detail, q) = {x \in orderFiles : x.ownerType = "COMPANY" /\ x.round = q}
  BY DEF companyFiles
<1> HIDE DEF workOf
<1>4. companyFiles(detail, q) = workOf(q)
  BY <1>1, <1>2, <1>3
<1> QED BY <1>4 DEF workOf

\* The rounds that the page makes of submissions and files are those of the order.
LEMMA RoundsOnPage ==
  ASSUME TypeOK, RoundsFollowStatus, FilesHaveRounds, NEW u \in Users, isParty(u)
  PROVE  LET detail == toOrderDetail(u) IN
         /\ shownRounds(detail) = {q \in Round : hasRow(q)}
         /\ \A r \in Round :
              /\ companyFiles(detail, r) # {} <=> roundFiles[r] # {}
              /\ isSubmittedRound(detail, r) <=> roundState[r] = "sent"
              /\ r \in openRound(detail) <=> isOpen(r)
<1> DEFINE detail == toOrderDetail(u)
<1>2. detail.files = orderFiles /\ detail.submissions = submissionDtos(u)
  BY PartyGets
<1>3. ASSUME NEW q \in Round PROVE companyFiles(detail, q) # {} <=> roundFiles[q] # {}
  <2>1. companyFiles(detail, q) =
          {[ownerType |-> "COMPANY", round |-> q, content |-> f] : f \in roundFiles[q]}
    BY <1>2, FilesOfRounds
  <2> QED BY <2>1
<1> DEFINE dto(q) == [round |-> q, comment |-> roundComment[q], isSubmitted |-> roundState[q] = "sent"]
<1>s. detail.submissions = {dto(q) : q \in {p \in Round : hasRow(p)}}
  BY <1>2 DEF submissionDtos
<1>d. \A q : dto(q).round = q /\ (dto(q).isSubmitted <=> roundState[q] = "sent")
  OBVIOUS
<1> HIDE DEF dto, detail
<1>4. \A q \in Round : (\E s \in detail.submissions : s.round = q) <=> hasRow(q)
  BY <1>s, <1>d
<1>5. shownRounds(detail) = {q \in Round : hasRow(q)}
  <2>1. \A s \in detail.submissions : s.round \in Round
    BY <1>s, <1>d
  <2> QED BY <1>3, <1>4, <2>1 DEF shownRounds, FilesHaveRounds
<1>6. \A r \in Round : isSubmittedRound(detail, r) <=> roundState[r] = "sent"
  BY <1>s, <1>d DEF isSubmittedRound, hasRow
<1>7. ASSUME NEW r \in Round PROVE isOpen(r) <=> r \in openRound(detail)
  <2>0. r \in openRound(detail) <=>
          /\ hasRow(r) /\ roundState[r] # "sent"
          /\ \A q \in Round : hasRow(q) => q <= r
    BY <1>5, <1>6 DEF openRound, isLatest
  <2>1. ASSUME isOpen(r), NEW q \in Round, hasRow(q) PROVE q <= r
    <3>1. q > r => roundState[r] = "sent"
      BY <2>1 DEF RoundsFollowStatus, Round
    <3> QED BY <2>1, <3>1, LifecycleAssumption DEF isOpen, Round
  <2>2. roundState[r] \in {"none", "open", "sent"}
    BY DEF TypeOK
  <2>3. ASSUME r \in openRound(detail), NEW q \in Round, q > r PROVE roundState[q] # "open"
    BY <2>0, <2>3, LifecycleAssumption DEF hasRow, Round
  <2> QED BY <2>0, <2>1, <2>2, <2>3 DEF isOpen, hasRow
<1> QED BY <1>3, <1>5, <1>6, <1>7 DEF detail

LEMMA CompanyButtonsAgree ==
  ASSUME TypeOK, SelectionConsistent, RoundsFollowStatus, FilesHaveRounds, exists,
         NEW c \in Companies
  PROVE  companyButtons(toOrderDetail(c), c) = companyMay(c)
<1> DEFINE detail == toOrderDetail(c)
<1>1. /\ ~isOwner(detail, c)
      /\ ownOffer(detail, c) = IF offerStatus[c] = NoOffer THEN {} ELSE {OfferDto(c)}
      /\ OfferDto(c).status = offerStatus[c]
      /\ \A o : isPendingOffer(o) <=> o = "SENT"
  BY OwnOfferInDetail DEF OfferDto, isPendingOffer
<1>2. /\ detail.canSubmitOffer = (c # Client /\ canSubmitOffer(c))
      /\ c # Client
  BY Viewers DEF toOrderDetail
<1>3. isExecutorOffer(offerStatus[c]) => offerStatus[c] # NoOffer /\ detail.item.status = status
  BY Viewers, ExecutorsAreActive DEF toOrderDetail, toOrderListItem, seesProgress
<1>4. mayEnter(c, "EXECUTOR") <=> isExecutorOffer(offerStatus[c])
  BY Viewers DEF mayEnter
<1>5. isExecutorOffer(offerStatus[c]) =>
        ((\E r \in openRound(detail) : companyFiles(detail, r) # {})
           <=> \E r \in Round : maySubmitRound(r))
  <2>1. openRound(detail) \subseteq Round
    BY DEF openRound
  <2>2. ASSUME isExecutorOffer(offerStatus[c]), NEW r \in Round
        PROVE  r \in openRound(detail) /\ companyFiles(detail, r) # {} <=> maySubmitRound(r)
    <3>1. c \in Users /\ isParty(c)
      BY <2>2, Viewers DEF isParty, Users
    <3> QED BY <2>2, <3>1, RoundsOnPage DEF maySubmitRound
  <2> QED BY <2>1, <2>2
<1>6. offerStatus[c] = "SENT" => status = "AWAITING_CONFIRMATION"
  <2> SUFFICES ASSUME offerStatus[c] = "SENT" PROVE status = "AWAITING_CONFIRMATION"
    OBVIOUS
  <2>1. status # "WAITING"
    BY DEF SelectionConsistent, NoOffer
  <2>2. status \notin WorkStages
    BY OneExecutor, ExecutorStatuses DEF isExecutor, NoOffer
  <2> QED BY <2>1, <2>2 DEF exists, OrderStatus, WorkStages
<1> DEFINE own == ownOffer(detail, c)
           executing == {o \in own : isExecutorOffer(o.status)}
           isPending == \E o \in own : isPendingOffer(o.status)
<1>7. isPending <=> offerStatus[c] = "SENT"
  BY <1>1 DEF NoOffer
<1>8. executing = IF isExecutorOffer(offerStatus[c]) THEN {OfferDto(c)} ELSE {}
  BY <1>1, ExecutorStatuses DEF NoOffer
<1>9. isExecutorOffer(offerStatus[c]) =>
        (Can(detail, "WORK_SUBMITTED", OfferDto(c)) <=> canTransition(status, "WORK_SUBMITTED", offerStatus[c]))
  BY <1>1, <1>3 DEF Can
<1> DEFINE shows(b) ==
      CASE b = "submitOffer" -> isPending \/ detail.canSubmitOffer
        [] b = "withdraw"    -> isPending
        [] b = "addFiles"    -> executing # {} /\ canUploadWork(detail.item.status)
        [] b = "submitWork"  -> /\ \E o \in executing : Can(detail, "WORK_SUBMITTED", o)
                                /\ \E r \in openRound(detail) : companyFiles(detail, r) # {}
        [] b = "verifyArea"  -> executing # {} /\ canVerifyArea(detail.item.status)
<1>10. companyButtons(detail, c) = {b \in CompanyButton : shows(b)}
  BY <1>1 DEF companyButtons
<1> HIDE DEF detail, own, executing, isPending
<1>11. shows("submitOffer") <=> maySubmit(c)
  <2>1. canSubmitOffer(c) <=> maySubmit(c)
    BY DEF canSubmitOffer, maySubmit, isFinallyRejected, NoOffer
  <2>2. offerStatus[c] = "SENT" => maySubmit(c)
    BY <1>6, MovesOfOffers DEF maySubmit, isFinallyRejected, acceptsOffers, NoOffer,
         OFFER_ELIGIBLE_ORDER_STATUSES
  <2> QED BY <1>2, <1>7, <2>1, <2>2
<1>12. shows("withdraw") <=> moves(c, "OFFER_WITHDRAWN")
  BY <1>6, <1>7, MovesOfOffers DEF moves, NoOffer
<1>13. shows("addFiles") <=> mayEnter(c, "EXECUTOR") /\ canUploadWork(status)
  BY <1>3, <1>4, <1>8
<1>14. shows("submitWork") <=> /\ mayEnter(c, "EXECUTOR") /\ moves(c, "WORK_SUBMITTED")
                              /\ \E r \in Round : maySubmitRound(r)
  BY <1>3, <1>4, <1>5, <1>8, <1>9 DEF moves
<1>15. shows("verifyArea") <=> mayEnter(c, "EXECUTOR") /\ mayVerifyArea
  BY <1>3, <1>4, <1>8 DEF mayVerifyArea
<1>16. companyButtons(detail, c) = companyMay(c)
  <2>1. companyButtons(detail, c) \subseteq CompanyButton /\ companyMay(c) \subseteq CompanyButton
    BY <1>10 DEF companyMay
  <2>2. \A b \in CompanyButton : b \in companyButtons(detail, c) <=> shows(b)
    BY <1>10
  <2>3. \A b \in CompanyButton : b \in companyMay(c) <=> shows(b)
    <3> HIDE DEF shows
    <3> QED BY <1>11, <1>12, <1>13, <1>14, <1>15 DEF companyMay, CompanyButton
  <2> QED BY <2>1, <2>2, <2>3
<1> QED BY <1>16 DEF detail

\* The buttons of the page are the requests on which the server would act
\* (resolveClientActions, resolveCompanyActions, CompanyOfferCard).
THEOREM ButtonsAlwaysAgree == Spec => []ButtonsAgree
<1>1. Init => FilesHaveRounds
  BY DEF Init, FilesHaveRounds
<1>2. TypeOK /\ FilesHaveRounds /\ [Next]_vars => FilesHaveRounds'
  BY NextFilesHaveRounds
<1>3. TypeOK /\ SelectionConsistent /\ RoundsFollowStatus /\ FilesHaveRounds => ButtonsAgree
  <2> SUFFICES ASSUME TypeOK, SelectionConsistent, RoundsFollowStatus, FilesHaveRounds, exists
               PROVE  /\ showsDelete(toOrderDetail(Client), Client) <=> canDeleteOrder(status)
                      /\ \A c \in Companies :
                           /\ clientButtons(toOrderDetail(Client), Client, c) = clientMay(c)
                           /\ companyButtons(toOrderDetail(c), c) = companyMay(c)
    BY DEF ButtonsAgree
  <2>1. showsDelete(toOrderDetail(Client), Client) <=> canDeleteOrder(status)
    BY ClientInDetail DEF showsDelete
  <2> QED BY <2>1, ClientButtonsAgree, CompanyButtonsAgree
<1> QED BY <1>1, <1>2, <1>3, LifecycleTypes, SelectionAlwaysConsistent, RoundsAlwaysFollow, PTL
     DEF Spec

-----------------------------------------------------------------------------
(* The three doors to an offer *)

\* The feed, the flag of the page and the state machine compute one rule.
THEOREM DoorsAlwaysAgree == Spec => []DoorsAgree
<1>1. TypeOK => DoorsAgree
  <2> SUFFICES ASSUME TypeOK, NEW c \in Companies
               PROVE  /\ canSubmitOffer(c) <=> maySubmit(c)
                      /\ inFeed(c) <=> maySubmit(c) /\ offerStatus[c] # "SENT"
    BY DEF DoorsAgree
  <2>1. rejectionCount[c] \in Nat
    BY DEF TypeOK
  <2>2. canSubmitOffer(c) <=> maySubmit(c)
    BY DEF canSubmitOffer, maySubmit, isFinallyRejected, NoOffer
  <2>3. canTransition(status, "OFFER_SUBMITTED", offerStatus[c]) <=>
          /\ acceptsOffers(status)
          /\ offerStatus[c] \in {NoOffer, "SENT", "WITHDRAWN", "REJECTED"}
    BY DEF canTransition, ORDER_TRANSITIONS, OFFER_PRECONDITIONS, OrderStatus, OrderEventType,
           acceptsOffers, OFFER_ELIGIBLE_ORDER_STATUSES, RESUBMITTABLE_OFFER_STATUSES,
           WORK_UPLOAD_ORDER_STATUSES
  <2>4. inFeed(c) <=> maySubmit(c) /\ offerStatus[c] # "SENT"
    BY <2>1, <2>3 DEF inFeed, maySubmit, isFinallyRejected, NoOffer, MAX_OFFER_REJECTIONS
  <2> QED BY <2>2, <2>4
<1> QED BY <1>1, LifecycleTypes, PTL

-----------------------------------------------------------------------------
(* How notifications change *)

\* The only writer of notifications but the bell is createNotifications: no two
\* drafts of one transaction have an addressee and a key in common.
Drafts(new) ==
  /\ \A m \in new : ~m.isRead
  /\ \A m, n \in new : m.user = n.user /\ m.key = n.key => m = n

LEMMA DraftFields ==
  ASSUME NEW u, NEW t, NEW k
  PROVE  LET d == notify(u, t, k) IN d.user = u /\ d.type = t /\ d.key = k /\ ~d.isRead
  BY DEF notify

\* Rows about other keys, or to other users, outlive a transaction.
LEMMA NoticeSurvives ==
  ASSUME NEW new, createNotifications(new), NEW n \in notices,
         \A m \in new : m.key = Null \/ m.user # n.user \/ m.key # n.key
  PROVE  n \in notices'
  BY DEF createNotifications, superseded

LEMMA BellKeepsNotices ==
  ASSUME NEW n \in notices,
         (\E m \in notices : MarkRead(m)) \/ (\E u \in Readers : MarkAllRead(u)),
         notices \subseteq Notice
  PROVE  \E m \in notices' : m.user = n.user /\ m.type = n.type /\ m.key = n.key
<1>1. ASSUME NEW m \in Notice
      PROVE  LET r == [m EXCEPT !.isRead = TRUE] IN
             r.user = m.user /\ r.type = m.type /\ r.key = m.key
  BY DEF Notice
<1>2. ASSUME NEW m \in notices, MarkRead(m)
      PROVE  \E k \in notices' : k.user = n.user /\ k.type = n.type /\ k.key = n.key
  BY <1>1, <1>2 DEF MarkRead
<1>3. ASSUME NEW u \in Readers, MarkAllRead(u)
      PROVE  \E k \in notices' : k.user = n.user /\ k.type = n.type /\ k.key = n.key
  <2>1. (IF n.user = u THEN [n EXCEPT !.isRead = TRUE] ELSE n) \in notices'
    BY <1>3 DEF MarkAllRead
  <2> QED BY <1>1, <2>1
<1> QED BY <1>2, <1>3

LEMMA BellReads ==
  ASSUME NEW n \in notices', ~n.isRead,
         (\E m \in notices : MarkRead(m)) \/ (\E u \in Readers : MarkAllRead(u)),
         notices \subseteq Notice
  PROVE  n \in notices
<1>1. ASSUME NEW m \in Notice PROVE [m EXCEPT !.isRead = TRUE].isRead
  BY DEF Notice
<1>2. ASSUME NEW m \in notices, MarkRead(m) PROVE n \in notices
  BY <1>1, <1>2 DEF MarkRead
<1>3. ASSUME NEW u \in Readers, MarkAllRead(u) PROVE n \in notices
  <2>1. PICK m \in notices : n = IF m.user = u THEN [m EXCEPT !.isRead = TRUE] ELSE m
    BY <1>3 DEF MarkAllRead
  <2> QED BY <1>1, <2>1
<1> QED BY <1>2, <1>3

\* What each step does to the notifications.
LEMMA NoticeSteps ==
  ASSUME TypeOK, [Next]_vars
  PROVE  \/ UNCHANGED notices
         \/ \E m \in notices : MarkRead(m)
         \/ \E u \in Readers : MarkAllRead(u)
         \/ \E new \in SUBSET Notice : createNotifications(new) /\ Drafts(new)
<1> DEFINE Written == \E new \in SUBSET Notice : createNotifications(new) /\ Drafts(new)
<1>1. ASSUME NEW u \in Users, NEW t \in NoticeType, NEW k \in NoticeKey \union {Null},
             createNotifications({notify(u, t, k)})
      PROVE  Written
  <2>1. {notify(u, t, k)} \in SUBSET Notice /\ Drafts({notify(u, t, k)})
    BY NotifyType DEF Drafts, notify
  <2> QED BY <1>1, <2>1
<1>2. CASE Remove
  <2> DEFINE new == {notify(c, "ORDER_DELETED", Null) : c \in affectedOfDeletion}
  <2>1. new \in SUBSET Notice
    BY NotifyType, KeysAreKeys DEF affectedOfDeletion, NoticeType
  <2>2. \A m \in new : m.user \in Companies /\ m = notify(m.user, "ORDER_DELETED", Null)
    BY DEF notify, affectedOfDeletion
  <2>3. Drafts(new)
    BY <2>2, DraftFields DEF Drafts
  <2> QED BY <1>2, <2>3, <2>1, <2>2 DEF Remove
<1>3. CASE AcceptOffer
  <2> DEFINE c == seen.company
             losers == otherActiveOffers(c)
             new == {notify(c, "OFFER_ACCEPTED", offerKey(c))} \union
                      {notify(b, "OFFER_NOT_ACCEPTED", offerKey(b)) : b \in losers}
  <2>1. c \in Companies /\ losers \subseteq Companies \ {c}
    BY <1>3 DEF AcceptOffer, TypeOK, otherActiveOffers
  <2>2. new \in SUBSET Notice
    BY <2>1, NotifyType, KeysAreKeys DEF NoticeType
  <2>3. Drafts(new)
    <3>1. \A m \in new : m = IF m.user = c THEN notify(c, "OFFER_ACCEPTED", offerKey(c))
                            ELSE notify(m.user, "OFFER_NOT_ACCEPTED", offerKey(m.user))
      BY <2>1, DraftFields
    <3> QED BY <3>1, DraftFields DEF Drafts
  <2>4. createNotifications(new)
    BY <1>3 DEF AcceptOffer
  <2> QED BY <2>2, <2>3, <2>4
<1>4. ASSUME NEW d \in drafts, CommitSubmit(d) PROVE Written
  BY <1>1, <1>4, KeysAreKeys DEF CommitSubmit, TypeOK, NoticeType
<1>5. ASSUME NEW c \in Companies, Withdraw(c) \/ Reject(c) PROVE Written
  BY <1>1, <1>5, KeysAreKeys DEF Withdraw, Reject, leaveSelection, NoticeType
<1>6. ASSUME NEW u \in uploads, AttachWork(u) PROVE Written \/ UNCHANGED notices
  BY <1>1, <1>6, KeysAreKeys DEF AttachWork, NoticeType
<1>7. ASSUME NEW c \in Companies, NEW text, SubmitWork(c) \/ Confirm(c, text) \/ Dispute(c, text)
      PROVE  Written
  BY <1>1, <1>7, KeysAreKeys DEF SubmitWork, Confirm, Dispute, NoticeType
<1>8. ASSUME NEW area \in Areas, VerifyArea(area) PROVE Written
  BY <1>1, <1>8, KeysAreKeys DEF VerifyArea, NoticeType
<1>9. CASE \/ Create \/ RollbackCreate
           \/ \E F \in SUBSET Files : AttachTaskFiles(F)
           \/ \E c \in Companies, t \in Terms : StartSubmit(c, t)
           \/ \E d \in drafts : DropSubmit(d)
           \/ \E c \in Companies : LoadOffer(c)
           \/ \E F \in (SUBSET Files) \ {{}}, text \in Texts : OpenSubmission(F, text)
           \/ \E u \in uploads : DropUpload(u)
           \/ DayPasses
           \/ UNCHANGED vars
  BY <1>9 DEF Create, RollbackCreate, AttachTaskFiles, StartSubmit, DropSubmit, LoadOffer,
              OpenSubmission, DropUpload, DayPasses, vars
<1> QED BY <1>2, <1>3, <1>4, <1>5, <1>6, <1>7, <1>8, <1>9 DEF Next

-----------------------------------------------------------------------------
(* No repeats in the bell *)

LEMMA NextOneUnread == TypeOK /\ OneUnreadPerKey /\ [Next]_vars => OneUnreadPerKey'
<1> SUFFICES ASSUME TypeOK, OneUnreadPerKey, [Next]_vars,
                    NEW m \in notices', NEW n \in notices',
                    m.user = n.user, m.key = n.key, m.key # Null, ~m.isRead, ~n.isRead
             PROVE  m = n
  BY DEF OneUnreadPerKey
<1>1. notices \subseteq Notice
  BY DEF TypeOK
<1>2. ASSUME m \in notices, n \in notices PROVE m = n
  BY <1>2 DEF OneUnreadPerKey
<1>3. CASE (\E k \in notices : MarkRead(k)) \/ (\E u \in Readers : MarkAllRead(u))
  BY <1>1, <1>2, <1>3, BellReads
<1>4. ASSUME NEW new \in SUBSET Notice, createNotifications(new), Drafts(new) PROVE m = n
  BY <1>2, <1>4 DEF createNotifications, superseded, Drafts
<1> QED BY <1>2, <1>3, <1>4, NoticeSteps

\* Whatever is read in between, and however often an offer is sent again, a user
\* has at most one unread notification with a key (createNotifications).
THEOREM OneUnreadAlways == Spec => []OneUnreadPerKey
<1>1. Init => TypeOK /\ OneUnreadPerKey
  BY InitType DEF Init, OneUnreadPerKey
<1>2. TypeOK /\ OneUnreadPerKey /\ [Next]_vars => (TypeOK /\ OneUnreadPerKey)'
  BY NextType, NextOneUnread
<1> QED BY <1>1, <1>2, PTL DEF Spec

-----------------------------------------------------------------------------
(* Collapsing does not swallow the news *)

\* What FateIsAnnounced says of one company.
FateOf(c) ==
  LET s == offerStatus[c] IN
  /\ s = "SENT" => announced(Client, "OFFER_RECEIVED", offerKey(c))
  /\ s = "WITHDRAWN" => announced(Client, "OFFER_WITHDRAWN", offerKey(c))
  /\ s = "REJECTED" => announced(c, "OFFER_REJECTED", offerKey(c))
  /\ s = "NOT_ACCEPTED" => announced(c, "OFFER_NOT_ACCEPTED", offerKey(c))
  /\ isExecutorOffer(s) => announced(c, "OFFER_ACCEPTED", offerKey(c))

LEMMA FateByCompany == FateIsAnnounced <=> \A c \in Companies : FateOf(c)
  BY DEF FateIsAnnounced, FateOf

LEMMA JustAnnounced ==
  ASSUME NEW new, createNotifications(new), NEW u, NEW t, NEW k, notify(u, t, k) \in new
  PROVE  announced(u, t, k)'
<1>1. notify(u, t, k) \in notices'
  BY DEF createNotifications
<1> QED BY <1>1, DraftFields DEF announced

\* A transaction that writes nothing under the key of an offer leaves its news.
LEMMA FateSurvives ==
  ASSUME NEW x \in Companies, FateOf(x),
         \/ offerStatus'[x] = offerStatus[x]
         \/ isExecutorOffer(offerStatus[x]) /\ isExecutorOffer(offerStatus'[x]),
         NEW new, createNotifications(new), \A m \in new : m.key # offerKey(x)
  PROVE  FateOf(x)'
<1>1. ASSUME NEW u, NEW t, announced(u, t, offerKey(x)) PROVE announced(u, t, offerKey(x))'
  <2>1. PICK n \in notices : n.user = u /\ n.type = t /\ n.key = offerKey(x)
    BY <1>1 DEF announced
  <2>2. n \in notices'
    BY <2>1, NoticeSurvives
  <2> QED BY <2>1, <2>2 DEF announced
<1>2. isExecutorOffer(offerStatus[x]) => offerStatus[x] \notin {"SENT", "WITHDRAWN", "REJECTED", "NOT_ACCEPTED"}
  BY ExecutorStatuses
<1>3. isExecutorOffer(offerStatus'[x]) => offerStatus'[x] \notin {"SENT", "WITHDRAWN", "REJECTED", "NOT_ACCEPTED"}
  BY ExecutorStatuses
<1> QED BY <1>1, <1>2, <1>3 DEF FateOf

\* Keys of different offers differ, and from those of the order.
LEMMA KeysDiffer ==
  /\ \A b, c \in Companies : offerKey(b) = offerKey(c) => b = c
  /\ \A c \in Companies : offerKey(c) \notin {orderFilesKey, orderAreaKey, Null}
  BY LifecycleAssumption, KeysAreKeys DEF offerKey, orderFilesKey, orderAreaKey, NoticeKey

\* The offer of c changes, its news is written, and other offers are left alone.
LEMMA FateOfOne ==
  ASSUME FateIsAnnounced, NEW c \in Companies, FateOf(c)', NEW u, NEW t,
         \A b \in Companies \ {c} : offerStatus'[b] = offerStatus[b],
         createNotifications({notify(u, t, offerKey(c))})
  PROVE  FateIsAnnounced'
<1>1. ASSUME NEW b \in Companies \ {c} PROVE FateOf(b)'
  <2>1. \A m \in {notify(u, t, offerKey(c))} : m.key # offerKey(b)
    BY KeysDiffer, DraftFields
  <2>2. b \in Companies /\ FateOf(b) /\ offerStatus'[b] = offerStatus[b]
    BY FateByCompany
  <2> QED BY <2>1, <2>2, FateSurvives
<1> QED BY <1>1 DEF FateIsAnnounced, FateOf

\* Nothing is written under the key of any offer.
LEMMA FateOfNone ==
  ASSUME FateIsAnnounced, NEW u, NEW t, NEW k \in {orderFilesKey, orderAreaKey, Null},
         createNotifications({notify(u, t, k)}),
         \A b \in Companies :
           \/ offerStatus'[b] = offerStatus[b]
           \/ isExecutorOffer(offerStatus[b]) /\ isExecutorOffer(offerStatus'[b])
  PROVE  FateIsAnnounced'
<1>1. ASSUME NEW b \in Companies PROVE FateOf(b)'
  <2>1. \A m \in {notify(u, t, k)} : m.key # offerKey(b)
    BY KeysDiffer, DraftFields
  <2>2. FateOf(b)
    BY FateByCompany
  <2> QED BY <2>1, <2>2, FateSurvives
<1> QED BY <1>1 DEF FateIsAnnounced, FateOf

LEMMA NextFate == TypeOK /\ SelectionConsistent /\ FateIsAnnounced /\ [Next]_vars => FateIsAnnounced'
<1> SUFFICES ASSUME TypeOK, SelectionConsistent, FateIsAnnounced, [Next]_vars
             PROVE  FateIsAnnounced'
  OBVIOUS
<1>p. FateIsAnnounced' <=> \A c \in Companies : FateOf(c)'
  BY DEF FateIsAnnounced, FateOf
<1>s. ASSUME UNCHANGED <<offerStatus, notices>> PROVE FateIsAnnounced'
  BY <1>s DEF FateIsAnnounced, announced
<1>d. ASSUME DeleteRow PROVE FateIsAnnounced'
  BY <1>d, ExecutorStatuses DEF DeleteRow, FateIsAnnounced, NoOffer
<1>1. CASE RollbackCreate \/ Remove
  <2>1. DeleteRow \/ UNCHANGED <<offerStatus, notices>>
    BY <1>1 DEF RollbackCreate, Remove, offerVars
  <2> QED BY <1>d, <1>s, <2>1
<1>2. ASSUME NEW d \in drafts, CommitSubmit(d) PROVE FateIsAnnounced'
  <2> DEFINE c == d.company
  <2>1. c \in Companies
    BY DEF TypeOK
  <2>2. /\ offerStatus'[c] = "SENT" /\ \A b \in Companies \ {c} : offerStatus'[b] = offerStatus[b]
        /\ createNotifications({notify(Client, "OFFER_RECEIVED", offerKey(c))})
    BY <1>2, <2>1 DEF CommitSubmit, TypeOK
  <2>3. announced(Client, "OFFER_RECEIVED", offerKey(c))'
    BY <2>2, JustAnnounced
  <2>4. FateOf(c)'
    BY <2>2, <2>3, ExecutorStatuses DEF FateOf
  <2> QED BY <2>1, <2>2, <2>4, FateOfOne
<1>3. ASSUME NEW c \in Companies, Withdraw(c) PROVE FateIsAnnounced'
  <2>1. /\ offerStatus'[c] = "WITHDRAWN"
        /\ \A b \in Companies \ {c} : offerStatus'[b] = offerStatus[b]
        /\ createNotifications({notify(Client, "OFFER_WITHDRAWN", offerKey(c))})
    BY <1>3 DEF Withdraw, leaveSelection, TypeOK
  <2>2. announced(Client, "OFFER_WITHDRAWN", offerKey(c))'
    BY <2>1, JustAnnounced
  <2>3. FateOf(c)'
    BY <2>1, <2>2, ExecutorStatuses DEF FateOf
  <2> QED BY <2>1, <2>3, FateOfOne
<1>4. ASSUME NEW c \in Companies, Reject(c) PROVE FateIsAnnounced'
  <2>1. /\ offerStatus'[c] = "REJECTED"
        /\ \A b \in Companies \ {c} : offerStatus'[b] = offerStatus[b]
        /\ createNotifications({notify(c, "OFFER_REJECTED", offerKey(c))})
    BY <1>4 DEF Reject, leaveSelection, TypeOK
  <2>2. announced(c, "OFFER_REJECTED", offerKey(c))'
    BY <2>1, JustAnnounced
  <2>3. FateOf(c)'
    BY <2>1, <2>2, ExecutorStatuses DEF FateOf
  <2> QED BY <2>1, <2>3, FateOfOne
<1>5. CASE AcceptOffer
  <2>0. PICK c \in Companies : c = seen.company
    BY <1>5 DEF AcceptOffer, TypeOK
  <2> DEFINE losers == otherActiveOffers(c)
             new == {notify(c, "OFFER_ACCEPTED", offerKey(c))} \union
                      {notify(b, "OFFER_NOT_ACCEPTED", offerKey(b)) : b \in losers}
  <2>1. losers \subseteq Companies \ {c} /\ createNotifications(new)
    BY <1>5, <2>0 DEF AcceptOffer, TypeOK, otherActiveOffers
  <2>2. \A b \in Companies : offerStatus'[b] = IF b = c THEN "ACCEPTED"
                                              ELSE IF b \in losers THEN "NOT_ACCEPTED"
                                              ELSE offerStatus[b]
    BY <1>5, <2>0 DEF AcceptOffer
  <2>3. FateOf(c)'
    <3>1. notify(c, "OFFER_ACCEPTED", offerKey(c)) \in new
      OBVIOUS
    <3>2. announced(c, "OFFER_ACCEPTED", offerKey(c))'
      BY <2>1, <3>1, JustAnnounced
    <3>3. offerStatus'[c] = "ACCEPTED"
      BY <2>1, <2>2
    <3> QED BY <3>2, <3>3 DEF FateOf
  <2>4. ASSUME NEW b \in losers PROVE FateOf(b)'
    <3>1. notify(b, "OFFER_NOT_ACCEPTED", offerKey(b)) \in new
      OBVIOUS
    <3>2. announced(b, "OFFER_NOT_ACCEPTED", offerKey(b))'
      BY <2>1, <3>1, JustAnnounced
    <3>3. offerStatus'[b] = "NOT_ACCEPTED"
      BY <2>1, <2>2
    <3> QED BY <3>2, <3>3, ExecutorStatuses DEF FateOf
  <2>5. ASSUME NEW b \in Companies, b # c, b \notin losers PROVE FateOf(b)'
    <3>1. \A m \in new : m.key # offerKey(b)
      BY <2>1, <2>5, KeysDiffer, DraftFields
    <3>2. FateOf(b) /\ offerStatus'[b] = offerStatus[b]
      BY <2>2, <2>5, FateByCompany
    <3> QED BY <2>1, <3>1, <3>2, FateSurvives
  <2>6. ASSUME NEW b \in Companies PROVE FateOf(b)'
    BY <2>3, <2>4, <2>5
  <2> QED BY <1>p, <2>6
<1>6. ASSUME NEW c \in Companies, NEW text, SubmitWork(c) \/ Confirm(c, text) \/ Dispute(c, text)
      PROVE  FateIsAnnounced'
  <2>1. PICK u, t : createNotifications({notify(u, t, Null)})
    BY <1>6 DEF SubmitWork, Confirm, Dispute
  <2>2. /\ isExecutorOffer(offerStatus[c]) /\ isExecutorOffer(offerStatus'[c])
        /\ \A b \in Companies \ {c} : offerStatus'[b] = offerStatus[b]
    BY <1>6 DEF SubmitWork, Confirm, Dispute, workTransition, isExecutor, TypeOK, isExecutorOffer,
                EXECUTOR_OFFER_STATUSES, EXECUTING_OFFER_STATUSES
  <2> QED BY <2>1, <2>2, FateOfNone
<1>8. ASSUME NEW u \in uploads, AttachWork(u) PROVE FateIsAnnounced'
  BY <1>8, <1>s, FateOfNone DEF AttachWork, offerVars
<1>9. ASSUME NEW area \in Areas, VerifyArea(area) PROVE FateIsAnnounced'
  BY <1>9, FateOfNone DEF VerifyArea, offerVars
<1>10. CASE (\E n \in notices : MarkRead(n)) \/ (\E u \in Readers : MarkAllRead(u))
  <2>1. offerStatus' = offerStatus
    BY <1>10 DEF MarkRead, MarkAllRead, offerVars
  <2>2. ASSUME NEW u, NEW t, NEW k, announced(u, t, k) PROVE announced(u, t, k)'
    BY <1>10, <2>2, BellKeepsNotices DEF announced, TypeOK
  <2> QED BY <2>1, <2>2 DEF FateIsAnnounced
<1>11. CASE \/ Create
            \/ \E F \in SUBSET Files : AttachTaskFiles(F)
            \/ \E c \in Companies, t \in Terms : StartSubmit(c, t)
            \/ \E d \in drafts : DropSubmit(d)
            \/ \E c \in Companies : LoadOffer(c)
            \/ \E F \in (SUBSET Files) \ {{}}, text \in Texts : OpenSubmission(F, text)
            \/ \E u \in uploads : DropUpload(u)
            \/ DayPasses
            \/ UNCHANGED vars
  BY <1>11, <1>s DEF Create, AttachTaskFiles, StartSubmit, DropSubmit, LoadOffer,
              OpenSubmission, DropUpload, DayPasses, vars, offerVars
<1> QED BY <1>1, <1>2, <1>3, <1>4, <1>5, <1>6, <1>8, <1>9, <1>10, <1>11 DEF Next

\* The present status of every offer is announced to the side that did not act,
\* however notifications collapse (createNotifications, notificationKey).
THEOREM FateAlwaysAnnounced == Spec => []FateIsAnnounced
<1> DEFINE Inv == TypeOK /\ SelectionConsistent /\ FateIsAnnounced
<1>1. Init => Inv
  BY InitType, InitSelection, ExecutorStatuses DEF Init, FateIsAnnounced, NoOffer
<1>2. Inv /\ [Next]_vars => Inv'
  BY NextType, NextSelection, NextFate
<1>3. Inv => FateIsAnnounced
  OBVIOUS
<1> QED BY <1>1, <1>2, <1>3, PTL DEF Spec

-----------------------------------------------------------------------------
(* Who is told of a removal *)

\* Companies with an offer in play learn that the client removed the order
\* (affectedOfDeletion, deleteWithNotices).
THEOREM RemovalAlwaysTold == Spec => RemovalIsTold
<1>1. ASSUME TypeOK, Next, creating' = creating, status \in OrderStatus, status' = "DELETED",
             NEW c \in Companies, isActiveOffer(offerStatus[c])
      PROVE  \E n \in notices' : n.user = c /\ n.type = "ORDER_DELETED" /\ ~n.isRead
  <2>1. "DELETED" \notin OrderStatus
    BY DEF OrderStatus
  <2>2. CASE Remove
    <3>1. notify(c, "ORDER_DELETED", Null) \in notices'
      BY <1>1, <2>2 DEF Remove, createNotifications, affectedOfDeletion
    <3> QED BY <3>1, DraftFields
  <2>3. ~RollbackCreate
    BY <1>1 DEF RollbackCreate, TypeOK
  <2>4. CASE Create \/ (\E d \in drafts : CommitSubmit(d)) \/ AcceptOffer
    BY <1>1, <2>4 DEF Create, CommitSubmit, AcceptOffer
  <2>5. ASSUME NEW b \in Companies, Withdraw(b) \/ Reject(b) PROVE FALSE
    BY <1>1, <2>5 DEF Withdraw, Reject, leaveSelection, statusAfterLeaving
  <2>6. ASSUME NEW b \in Companies, NEW text, SubmitWork(b) \/ Confirm(b, text) \/ Dispute(b, text)
        PROVE  FALSE
    BY <1>1, <2>6 DEF SubmitWork, Confirm, Dispute, workTransition
  <2>7. CASE \/ \E F \in SUBSET Files : AttachTaskFiles(F)
             \/ \E b \in Companies, t \in Terms : StartSubmit(b, t)
             \/ \E d \in drafts : DropSubmit(d)
             \/ \E b \in Companies : LoadOffer(b)
             \/ \E F \in (SUBSET Files) \ {{}}, text \in Texts : OpenSubmission(F, text)
             \/ \E u \in uploads : DropUpload(u) \/ AttachWork(u)
             \/ \E area \in Areas : VerifyArea(area)
             \/ \E n \in notices : MarkRead(n)
             \/ \E u \in Readers : MarkAllRead(u)
             \/ DayPasses
    <3>1. status' = status
      BY <2>7 DEF AttachTaskFiles, StartSubmit, DropSubmit, LoadOffer, OpenSubmission, DropUpload,
                  AttachWork, VerifyArea, MarkRead, MarkAllRead, DayPasses, orderVars
    <3> QED BY <1>1, <2>1, <3>1
  <2> QED BY <1>1, <2>2, <2>3, <2>4, <2>5, <2>6, <2>7 DEF Next
<1> DEFINE Told == creating' = creating /\ status \in OrderStatus /\ status' = "DELETED" =>
                     \A c \in Companies : isActiveOffer(offerStatus[c]) =>
                       \E n \in notices' : n.user = c /\ n.type = "ORDER_DELETED" /\ ~n.isRead
<1>2. TypeOK /\ [Next]_vars => [Told]_vars
  BY <1>1
<1>3. [][Told]_vars => RemovalIsTold
  BY DEF RemovalIsTold
<1> QED BY <1>2, <1>3, LifecycleTypes, PTL DEF Spec

-----------------------------------------------------------------------------
(* Who takes part *)

takingPart == {c \in Companies : isActiveOffer(offerStatus[c])}

LEMMA ActiveStatuses ==
  ASSUME NEW o
  PROVE  /\ isActiveOffer(o) <=> o = "SENT" \/ isExecutorOffer(o)
         /\ o \in {NoOffer, "WITHDRAWN", "REJECTED", "NOT_ACCEPTED"} => ~isActiveOffer(o)
         /\ isActiveOffer("SENT") /\ isActiveOffer("ACCEPTED")
  BY ExecutorStatuses DEF isActiveOffer, ACTIVE_OFFER_STATUSES, isExecutorOffer,
     EXECUTOR_OFFER_STATUSES, EXECUTING_OFFER_STATUSES, NoOffer

LEMMA Stages ==
  /\ status \in {"NONE", "WAITING", "AWAITING_CONFIRMATION"} => participantStage = "open"
  /\ status \in WorkStages => participantStage = "work"
  /\ status = "DELETED" => participantStage = "gone"
  BY DEF participantStage, WorkStages

LEMMA NextStages ==
  /\ status' \in {"NONE", "WAITING", "AWAITING_CONFIRMATION"} => participantStage' = "open"
  /\ status' \in WorkStages => participantStage' = "work"
  /\ status' = "DELETED" => participantStage' = "gone"
  BY DEF participantStage, WorkStages

\* Every step of the lifecycle is a step of the participants, or none.
LEMMA StepKeepsParticipants ==
  TypeOK /\ SelectionConsistent /\ [Next]_vars
    => [Participants!ParticipantsNext]_(Participants!partVars)
<1> SUFFICES ASSUME TypeOK, SelectionConsistent, [Next]_vars
             PROVE  Participants!ParticipantsNext \/ UNCHANGED <<participantStage, takingPart>>
  BY DEF Participants!partVars, takingPart
<1>u. ASSUME UNCHANGED <<status, offerStatus>> PROVE UNCHANGED <<participantStage, takingPart>>
  BY <1>u DEF participantStage, takingPart
<1>1. CASE Create
  <2>1. UNCHANGED <<participantStage, takingPart>>
    BY <1>1, Stages, NextStages DEF Create, offerVars, takingPart
  <2> QED BY <2>1
<1>2. CASE RollbackCreate \/ Remove
  <2>1. CASE DeleteRow
    <3>1. participantStage' = "gone" /\ takingPart' = {}
      BY <2>1, NextStages, ActiveStatuses DEF DeleteRow, takingPart
    <3>2. CASE status = "DELETED"
      <4>1. participantStage = "gone" /\ takingPart = {}
        BY <3>2, Stages, ActiveStatuses DEF takingPart, SelectionConsistent
      <4> QED BY <3>1, <4>1
    <3>3. CASE status # "DELETED"
      <4>1. participantStage # "gone"
        BY <3>3, Stages DEF TypeOK, WorkStages, OrderStatus
      <4>2. Participants!OrderVanishes
        BY <3>1, <4>1 DEF Participants!OrderVanishes, takingPart
      <4> QED BY <4>2 DEF Participants!ParticipantsNext
    <3> QED BY <3>2, <3>3
  <2>2. DeleteRow \/ UNCHANGED <<status, offerStatus>>
    BY <1>2 DEF RollbackCreate, Remove, offerVars
  <2> QED BY <1>u, <2>1, <2>2
<1>3. ASSUME NEW d \in drafts, CommitSubmit(d) PROVE Participants!ParticipantsNext
  <2>1. PICK c \in Companies : c = d.company
    BY DEF TypeOK
  <2>2. status \in {"WAITING", "AWAITING_CONFIRMATION"} /\ status' = "AWAITING_CONFIRMATION"
    BY <1>3, TableOfOffers DEF CommitSubmit, maySubmit, OFFER_ELIGIBLE_ORDER_STATUSES
  <2>3. offerStatus'[c] = "SENT" /\ \A b \in Companies \ {c} : offerStatus'[b] = offerStatus[b]
    BY <1>3, <2>1 DEF CommitSubmit, TypeOK
  <2>4. participantStage = "open" /\ participantStage' = "open" /\ takingPart' = takingPart \union {c}
    BY <2>1, <2>2, <2>3, Stages, NextStages, ActiveStatuses DEF takingPart
  <2>5. Participants!OfferSent(c)
    BY <2>4 DEF Participants!OfferSent, takingPart
  <2> QED BY <2>1, <2>5 DEF Participants!ParticipantsNext
<1>4. ASSUME NEW c \in Companies, Withdraw(c) \/ Reject(c) PROVE Participants!ParticipantsNext
  <2>1. status = "AWAITING_CONFIRMATION" /\ offerStatus[c] = "SENT"
    BY <1>4, TableOfOffers DEF Withdraw, Reject, leaveSelection
  <2>2. /\ status' \in {"WAITING", "AWAITING_CONFIRMATION"}
        /\ offerStatus'[c] \in {"WITHDRAWN", "REJECTED"}
        /\ \A b \in Companies \ {c} : offerStatus'[b] = offerStatus[b]
    BY <1>4 DEF Withdraw, Reject, leaveSelection, statusAfterLeaving, TypeOK
  <2>3. /\ participantStage = "open" /\ participantStage' = "open"
        /\ c \in takingPart /\ takingPart' = takingPart \ {c}
    BY <2>1, <2>2, Stages, NextStages, ActiveStatuses DEF takingPart
  <2>4. Participants!OfferLeft(c)
    BY <2>3 DEF Participants!OfferLeft, takingPart
  <2> QED BY <2>4 DEF Participants!ParticipantsNext
<1>5. CASE AcceptOffer
  <2>1. PICK c \in Companies : c = seen.company
    BY <1>5 DEF AcceptOffer, TypeOK
  <2>2. status = "AWAITING_CONFIRMATION" /\ offerStatus[c] = "SENT" /\ status' = "IN_PROGRESS"
    BY <1>5, <2>1, TableOfOffers DEF AcceptOffer
  <2>3. \A b \in Companies : offerStatus'[b] = IF b = c THEN "ACCEPTED"
                               ELSE IF offerStatus[b] = "SENT" THEN "NOT_ACCEPTED" ELSE offerStatus[b]
    BY <1>5, <2>1 DEF AcceptOffer, otherActiveOffers
  <2>4. \A b \in Companies : offerStatus[b] \in {NoOffer, "SENT", "WITHDRAWN", "REJECTED"}
    BY <2>2 DEF SelectionConsistent
  <2>5. /\ participantStage = "open" /\ participantStage' = "work"
        /\ c \in takingPart /\ takingPart' = {c}
    BY <2>2, <2>3, <2>4, Stages, NextStages, ActiveStatuses DEF takingPart, WorkStages
  <2>6. Participants!OfferTaken(c)
    BY <2>5 DEF Participants!OfferTaken, takingPart
  <2> QED BY <2>6 DEF Participants!ParticipantsNext
<1>6. ASSUME NEW c \in Companies, NEW text,
             SubmitWork(c) \/ Confirm(c, text) \/ Dispute(c, text)
      PROVE  UNCHANGED <<participantStage, takingPart>>
  <2>1. /\ status \in WorkStages /\ status' \in WorkStages
        /\ isExecutorOffer(offerStatus[c]) /\ isExecutorOffer(offerStatus'[c])
        /\ \A b \in Companies \ {c} : offerStatus'[b] = offerStatus[b]
    BY <1>6, TableOfWork DEF SubmitWork, Confirm, Dispute, workTransition, WorkStages, isExecutor,
         WORK_UPLOAD_ORDER_STATUSES, TypeOK, isExecutorOffer, EXECUTOR_OFFER_STATUSES,
         EXECUTING_OFFER_STATUSES
  <2>2. takingPart' = takingPart
    BY <2>1, ActiveStatuses DEF takingPart
  <2> QED BY <2>1, <2>2, Stages, NextStages
<1>7. CASE \/ \E F \in SUBSET Files : AttachTaskFiles(F)
           \/ \E c \in Companies, t \in Terms : StartSubmit(c, t)
           \/ \E d \in drafts : DropSubmit(d)
           \/ \E c \in Companies : LoadOffer(c)
           \/ \E F \in (SUBSET Files) \ {{}}, text \in Texts : OpenSubmission(F, text)
           \/ \E u \in uploads : DropUpload(u) \/ AttachWork(u)
           \/ \E area \in Areas : VerifyArea(area)
           \/ \E n \in notices : MarkRead(n)
           \/ \E u \in Readers : MarkAllRead(u)
           \/ DayPasses
           \/ UNCHANGED vars
  <2>1. UNCHANGED <<status, offerStatus>>
    BY <1>7 DEF AttachTaskFiles, StartSubmit, DropSubmit, LoadOffer, OpenSubmission, DropUpload,
                AttachWork, VerifyArea, MarkRead, MarkAllRead, DayPasses, vars, orderVars, offerVars
  <2> QED BY <1>u, <2>1
<1> QED BY <1>1, <1>2, <1>3, <1>4, <1>5, <1>6, <1>7 DEF Next

\* The lifecycle implements the abstract participants, on which the model of the
\* gateway's rooms is built: nobody joins or leaves during the work.
THEOREM LifecycleKeepsParticipants == Spec => KeepsParticipants
<1>1. Init => Participants!ParticipantsInit
  <2>1. ASSUME Init PROVE participantStage = "open" /\ takingPart = {}
    BY <2>1, Stages, ActiveStatuses DEF Init, takingPart
  <2> QED BY <2>1 DEF Participants!ParticipantsInit, takingPart
<1>2. TypeOK /\ SelectionConsistent /\ [Next]_vars
        => [Participants!ParticipantsNext]_(Participants!partVars)
  BY StepKeepsParticipants
<1> QED BY <1>1, <1>2, LifecycleTypes, SelectionAlwaysConsistent, PTL
     DEF Spec, KeepsParticipants, Participants!ParticipantsSpec

-----------------------------------------------------------------------------
(* Plans are well formed *)

LEMMA TransitionsGoForward ==
  /\ DOMAIN ORDER_TRANSITIONS = OrderStatus
  /\ \A s \in OrderStatus : ORDER_TRANSITIONS[s] \subseteq OrderEventType
  BY DEF ORDER_TRANSITIONS, OrderStatus, OrderEventType, WORK_UPLOAD_ORDER_STATUSES

LEMMA TellIsEffect ==
  ASSUME NEW u \in Users, NEW t \in NoticeType, NEW k \in NoticeKey \union {Null}
  PROVE  tell(u, t, k) \in OrderSideEffect
  BY NotifyType DEF tell, OrderSideEffect

LEMMA SetStatusIsEffect ==
  ASSUME NEW c \in Companies, NEW s \in OfferStatus
  PROVE  setOfferStatus(c, s) \in OrderSideEffect
  BY DEF setOfferStatus, OrderSideEffect

\* For every event there is a handler, and what it plans has the type that the
\* service expects: no status outside the table, no effect of another kind.
LEMMA PlansAreWellFormed ==
  \A context \in OrderStateContext, event \in OrderEvent :
    /\ handlerFor(context, event).nextStatus \in OrderStatus
    /\ handlerFor(context, event).effects \subseteq OrderSideEffect
<1> SUFFICES ASSUME NEW context \in OrderStateContext, NEW event \in OrderEvent
             PROVE  /\ handlerFor(context, event).nextStatus \in OrderStatus
                    /\ handlerFor(context, event).effects \subseteq OrderSideEffect
  OBVIOUS
<1> DEFINE c == event.company
<1>1. c \in Companies /\ c \in Users /\ context.client \in Users
  BY DEF OrderEvent, offerEvent, OrderStateContext, Users
<1>2. Null \in NoticeKey \union {Null} /\ \A b \in Companies : b \in Users /\ offerKey(b) \in NoticeKey
  BY KeysAreKeys
<1>3. CASE event.type = "OFFER_SUBMITTED"
  <2>1. handlerFor(context, event) = offerSubmitted(context, event)
    BY <1>3 DEF handlerFor
  <2>2. setOfferStatus(c, "SENT") \in OrderSideEffect
    BY <1>1, SetStatusIsEffect DEF OfferStatus
  <2>3. tell(context.client, "OFFER_RECEIVED", offerKey(c)) \in OrderSideEffect
    BY <1>1, <1>2, TellIsEffect DEF NoticeType
  <2>4. QED
    BY <2>1, <2>2, <2>3 DEF offerSubmitted, plan, OrderStatus
<1>4. CASE event.type \in {"OFFER_WITHDRAWN", "OFFER_REJECTED"}
  <2>1. PICK s \in {"WITHDRAWN", "REJECTED"}, u \in Users :
          handlerFor(context, event) = offerLeftSelection(context, event, s, u)
    BY <1>1, <1>4 DEF handlerFor
  <2>2. setOfferStatus(c, s) \in OrderSideEffect
    BY <1>1, SetStatusIsEffect DEF OfferStatus
  <2>3. tell(u, event.type, offerKey(c)) \in OrderSideEffect
    BY <1>1, <1>2, <1>4, TellIsEffect DEF NoticeType
  <2>4. QED
    BY <2>1, <2>2, <2>3 DEF offerLeftSelection, plan, OrderStatus
<1>5. CASE event.type = "OFFER_ACCEPTED"
  <2>1. handlerFor(context, event) = offerAccepted(context, event)
    BY <1>5 DEF handlerFor
  <2>2. event.terms \in Terms /\ event.otherOffers \subseteq Companies
    BY <1>5 DEF OrderEvent, offerEvent
  <2>3. setOfferStatus(c, "ACCEPTED") \in OrderSideEffect
    BY <1>1, SetStatusIsEffect DEF OfferStatus
  <2>4. setDeal(event.terms) \in OrderSideEffect
    BY <2>2 DEF OrderSideEffect, setDeal
  <2>5. tell(c, "OFFER_ACCEPTED", offerKey(c)) \in OrderSideEffect
    BY <1>1, <1>2, TellIsEffect DEF NoticeType
  <2>6. \A b \in event.otherOffers : setOfferStatus(b, "NOT_ACCEPTED") \in OrderSideEffect
    BY <2>2, SetStatusIsEffect DEF OfferStatus
  <2>7. \A b \in event.otherOffers :
          tell(b, "OFFER_NOT_ACCEPTED", offerKey(b)) \in OrderSideEffect
    BY <1>2, <2>2, TellIsEffect DEF NoticeType
  <2>8. QED
    BY <2>1, <2>3, <2>4, <2>5, <2>6, <2>7 DEF offerAccepted, plan, OrderStatus
<1>6. CASE event.type = "WORK_SUBMITTED"
  <2>1. handlerFor(context, event) = workSubmitted(context, event)
    BY <1>6 DEF handlerFor
  <2>2. setOfferStatus(c, "WORK_SUBMITTED") \in OrderSideEffect
    BY <1>1, SetStatusIsEffect DEF OfferStatus
  <2>3. tell(context.client, "WORK_SUBMITTED", Null) \in OrderSideEffect
    BY <1>1, TellIsEffect DEF NoticeType
  <2>4. QED
    BY <2>1, <2>2, <2>3 DEF workSubmitted, plan, OrderStatus
<1>7. CASE event.type = "WORK_CONFIRMED"
  <2>1. handlerFor(context, event) = workConfirmed(context, event)
    BY <1>7 DEF handlerFor
  <2>2. setOfferStatus(c, "COMPLETED") \in OrderSideEffect
    BY <1>1, SetStatusIsEffect DEF OfferStatus
  <2>3. setCompletion(event.completionComment) \in OrderSideEffect
    BY <1>7 DEF setCompletion, OrderSideEffect, OrderEvent, offerEvent
  <2>4. tell(c, "WORK_CONFIRMED", Null) \in OrderSideEffect
    BY <1>1, TellIsEffect DEF NoticeType
  <2>5. QED
    BY <2>1, <2>2, <2>3, <2>4 DEF workConfirmed, plan, OrderStatus
<1>8. CASE event.type = "WORK_DISPUTED"
  <2>1. handlerFor(context, event) = workDisputed(context, event)
    BY <1>8 DEF handlerFor
  <2>2. setOfferStatus(c, "BACK_FOR_OVERRIDE") \in OrderSideEffect
    BY <1>1, SetStatusIsEffect DEF OfferStatus
  <2>3. setCorrection(event.correctionComment) \in OrderSideEffect
    BY <1>8 DEF setCorrection, OrderSideEffect, OrderEvent, offerEvent
  <2>4. tell(c, "WORK_DISPUTED", Null) \in OrderSideEffect
    BY <1>1, TellIsEffect DEF NoticeType
  <2>5. QED
    BY <2>1, <2>2, <2>3, <2>4 DEF workDisputed, plan, OrderStatus
<1>9. event.type \in {"OFFER_SUBMITTED", "OFFER_WITHDRAWN", "OFFER_REJECTED", "OFFER_ACCEPTED",
                      "WORK_SUBMITTED", "WORK_CONFIRMED", "WORK_DISPUTED"}
  BY DEF OrderEvent, offerEvent
<1>10. QED
  BY <1>3, <1>4, <1>5, <1>6, <1>7, <1>8, <1>9

\* What the service reads for a command makes an event that the machine knows.
LEMMA EventsAreEvents ==
  ASSUME TypeOK, NEW command \in Command, NEW c \in resolveOffer(command)
  PROVE  buildEvent(command, c) \in OrderEvent
<1>1. c \in Companies
  BY DEF resolveOffer, Command
<1>2. /\ offerStatus[c] \in OfferStatus \union {NoOffer}
      /\ offerStatus[c] # NoOffer => proposed[c] \in Terms
      /\ editedAt[c] \in Nat \union {Null} /\ rejectionCount[c] \in Nat /\ today \in Nat
  BY <1>1 DEF TypeOK
<1>3. otherActiveOffers(c) \in SUBSET Companies
  BY DEF otherActiveOffers
<1>4. isExecutor(c) => offerStatus[c] # NoOffer
  BY DEF isExecutor, isExecutorOffer, NoOffer, EXECUTOR_OFFER_STATUSES, EXECUTING_OFFER_STATUSES
<1>5. CASE command.type = "OFFER_SUBMITTED"
  <2>1. /\ c = command.company
        /\ command.offerStatusBefore \in OfferStatus \union {NoOffer}
    BY <1>5 DEF resolveOffer, Command
  <2>2. QED
    BY <1>1, <1>2, <1>5, <2>1 DEF buildEvent, OrderEvent
<1>6. CASE command.type \in {"OFFER_WITHDRAWN", "OFFER_REJECTED"}
  <2>1. offerStatus[c] \in OfferStatus
    BY <1>2, <1>6 DEF resolveOffer
  <2>2. QED
    BY <1>1, <1>3, <1>6, <2>1 DEF buildEvent, OrderEvent
<1>7. CASE command.type = "OFFER_ACCEPTED"
  <2>1. /\ offerStatus[c] \in OfferStatus /\ proposed[c] \in Terms
        /\ command.seenOfferEditedAt \in Nat \union {Null}
    BY <1>2, <1>7 DEF resolveOffer, Command
  <2>2. QED
    BY <1>1, <1>2, <1>3, <1>7, <2>1 DEF buildEvent, OrderEvent
<1>8. CASE command.type = "WORK_SUBMITTED"
  <2>1. offerStatus[c] \in OfferStatus
    BY <1>2, <1>4, <1>8 DEF resolveOffer
  <2>2. QED
    BY <1>1, <1>8, <2>1 DEF buildEvent, OrderEvent, offerEvent
<1>9. CASE command.type = "WORK_CONFIRMED"
  <2>1. offerStatus[c] \in OfferStatus /\ command.completionComment \in Texts \union {Null}
    BY <1>2, <1>4, <1>9 DEF resolveOffer, Command
  <2>2. QED
    BY <1>1, <1>9, <2>1 DEF buildEvent, OrderEvent
<1>10. CASE command.type = "WORK_DISPUTED"
  <2>1. offerStatus[c] \in OfferStatus /\ command.correctionComment \in Texts
    BY <1>2, <1>4, <1>10 DEF resolveOffer, Command
  <2>2. QED
    BY <1>1, <1>10, <2>1 DEF buildEvent, OrderEvent
<1>11. QED
  BY <1>5, <1>6, <1>7, <1>8, <1>9, <1>10 DEF Command

\* Whatever the callers ask, of whatever row: the machine has an answer, one of
\* its refusals or a plan the service can carry out.
THEOREM EveryCommandIsAnswered ==
  TypeOK /\ status \in OrderStatus =>
    \A command \in Command : \A c \in resolveOffer(command) :
      LET event == buildEvent(command, c) IN
      /\ refusal(contextOf, event) \in Refusal \union {"none"}
      /\ handlerFor(contextOf, event).nextStatus \in OrderStatus
      /\ handlerFor(contextOf, event).effects \subseteq OrderSideEffect
<1> SUFFICES ASSUME TypeOK, status \in OrderStatus,
                    NEW command \in Command, NEW c \in resolveOffer(command)
             PROVE  LET event == buildEvent(command, c) IN
                    /\ refusal(contextOf, event) \in Refusal \union {"none"}
                    /\ handlerFor(contextOf, event).nextStatus \in OrderStatus
                    /\ handlerFor(contextOf, event).effects \subseteq OrderSideEffect
  OBVIOUS
<1>1. buildEvent(command, c) \in OrderEvent
  BY EventsAreEvents
<1>2. contextOf \in OrderStateContext
  BY DEF contextOf, OrderStateContext
<1>3. \A event : refusal(contextOf, event) \in Refusal \union {"none"}
  BY DEF refusal, Refusal
<1>4. QED
  BY <1>1, <1>2, <1>3, PlansAreWellFormed

-----------------------------------------------------------------------------
(* Effects as the service writes them *)

\* Effects of different kinds are different, and each says what it was made of.
LEMMA KindsDiffer ==
  /\ \A c, s, n : setOfferStatus(c, s) # [kind |-> "CREATE_NOTIFICATION", notice |-> n]
  /\ \A c, s, x : setOfferStatus(c, s) \notin {setDeal(x), setCorrection(x), setCompletion(x)}
  /\ \A x, n : [kind |-> "CREATE_NOTIFICATION", notice |-> n]
                 \notin {setDeal(x), setCorrection(x), setCompletion(x)}
  /\ \A x, y : setDeal(x) \notin {setCorrection(y), setCompletion(y)}
               /\ setCorrection(x) # setCompletion(y)
  BY DEF setOfferStatus, setDeal, setCorrection, setCompletion

LEMMA EffectsAreMadeOf ==
  /\ \A b, t, c, s : setOfferStatus(b, t) = setOfferStatus(c, s) => b = c /\ t = s
  /\ \A x, y : setDeal(x) = setDeal(y) => x = y
  /\ \A x, y : setCorrection(x) = setCorrection(y) => x = y
  /\ \A x, y : setCompletion(x) = setCompletion(y) => x = y
<1>1. /\ \A c, s : setOfferStatus(c, s).company = c /\ setOfferStatus(c, s).status = s
      /\ \A x : setDeal(x).terms = x
      /\ \A x : setCorrection(x).comment = x /\ setCompletion(x).comment = x
  BY DEF setOfferStatus, setDeal, setCorrection, setCompletion
<1>2. QED
  BY <1>1

\* Effects that give a status to one offer leave the others alone, and count a
\* rejection exactly when that status is one.
writesOne(effects, c, s) ==
  \A b \in Companies, t \in OfferStatus :
    setOfferStatus(b, t) \in effects <=> b = c /\ t = s

LEMMA OneOfferWritten ==
  ASSUME NEW effects, NEW c \in Companies, NEW s \in OfferStatus, writesOne(effects, c, s)
  PROVE  \A b \in Companies :
           /\ statusAfter(effects, b) = IF b = c THEN s ELSE offerStatus[b]
           /\ b \in offersTo(effects, "REJECTED") <=> b = c /\ s = "REJECTED"
<1>1. \A t \in OfferStatus, b \in Companies :
        b \in offersTo(effects, t) <=> (b = c /\ t = s)
  BY DEF offersTo, writesOne
<1>2. "REJECTED" \in OfferStatus
  BY DEF OfferStatus
<1>3. QED
  BY <1>1, <1>2 DEF statusAfter

isOnly(values, v) == values = {v}
isNone(values) == values = {}

LEMMA ColumnWritten ==
  ASSUME NEW column, NEW values
  PROVE  /\ isNone(values) => columnAfter(column, values) = column
         /\ \A v : isOnly(values, v) => columnAfter(column, values) = v
  BY DEF columnAfter, isOnly, isNone

\* A plan that sets one offer, notifies one user, and at most writes a comment.
plansOne(p, c, s, u, t, k, more) ==
  /\ p.effects = {setOfferStatus(c, s), tell(u, t, k)} \union more
  /\ \/ more = {}
     \/ \E x \in Texts : more = {setCorrection(x)}
     \/ \E x \in Texts \union {Null} : more = {setCompletion(x)}

\* What then becomes of the rows.
changesOne(next, c, s, u, t, k) ==
  /\ status' = next
  /\ offerStatus' = [offerStatus EXCEPT ![c] = s]
  /\ rejectionCount' = IF s = "REJECTED" THEN [rejectionCount EXCEPT ![c] = @ + 1]
                       ELSE rejectionCount
  /\ createNotifications({notify(u, t, k)})
  /\ UNCHANGED <<deal, creating, verifiedSquareMeters, taskFiles>>

commentsAfter(more) ==
  /\ \A x \in Texts : more = {setCorrection(x)} => correctionComment' = x
  /\ (\A x \in Texts : more # {setCorrection(x)}) => UNCHANGED correctionComment
  /\ \A x \in Texts \union {Null} : more = {setCompletion(x)} => clientCompletionComment' = x
  /\ (\A x \in Texts \union {Null} : more # {setCompletion(x)}) =>
       UNCHANGED clientCompletionComment

LEMMA SimpleEffects ==
  ASSUME TypeOK, NEW p, NEW c \in Companies, NEW s \in OfferStatus, NEW u, NEW t, NEW k,
         NEW more, plansOne(p, c, s, u, t, k, more), applyEffects(p)
  PROVE  changesOne(p.nextStatus, c, s, u, t, k) /\ commentsAfter(more)
<1> DEFINE E == p.effects
           deals == {x \in Terms : setDeal(x) \in E}
           corrections == {x \in Texts : setCorrection(x) \in E}
           completions == {x \in Texts \union {Null} : setCompletion(x) \in E}
<1> USE DEF plansOne
<1>1. tell(u, t, k) = [kind |-> "CREATE_NOTIFICATION", notice |-> notify(u, t, k)]
  BY DEF tell
<1>2. writesOne(E, c, s)
  BY <1>1, KindsDiffer, EffectsAreMadeOf DEF writesOne
<1>3. newNotices(E) = {notify(u, t, k)}
  <2>1. /\ tell(u, t, k).kind = "CREATE_NOTIFICATION"
        /\ tell(u, t, k).notice = notify(u, t, k)
        /\ setOfferStatus(c, s).kind = "SET_OFFER_STATUS"
    BY DEF tell, setOfferStatus
  <2>2. \A e \in more : e.kind # "CREATE_NOTIFICATION"
    BY DEF setCorrection, setCompletion
  <2>3. {f \in E : f.kind = "CREATE_NOTIFICATION"} = {tell(u, t, k)}
    BY <2>1, <2>2
  <2>4. QED
    BY <2>1, <2>3 DEF newNotices
<1>4. /\ isNone(deals)
      /\ corrections = {x \in Texts : setCorrection(x) \in more}
      /\ completions = {x \in Texts \union {Null} : setCompletion(x) \in more}
  BY <1>1, KindsDiffer DEF isNone
<1>5. /\ \A x \in Texts : more = {setCorrection(x)} => isOnly(corrections, x)
      /\ \A x \in Texts \union {Null} : more = {setCompletion(x)} => isOnly(completions, x)
  BY <1>4, EffectsAreMadeOf DEF isOnly
<1>6. (\A x \in Texts : more # {setCorrection(x)}) => isNone(corrections)
  <2>1. ASSUME NEW y \in Texts, setCorrection(y) \in more
        PROVE  more = {setCorrection(y)}
    BY <2>1, KindsDiffer, EffectsAreMadeOf
  <2>2. QED
    BY <1>4, <2>1 DEF isNone
<1>7. (\A x \in Texts \union {Null} : more # {setCompletion(x)}) => isNone(completions)
  <2>1. ASSUME NEW y \in Texts \union {Null}, setCompletion(y) \in more
        PROVE  more = {setCompletion(y)}
    BY <2>1, KindsDiffer, EffectsAreMadeOf
  <2>2. QED
    BY <1>4, <2>1 DEF isNone
<1>8. /\ status' = p.nextStatus
      /\ offerStatus' = [b \in Companies |-> statusAfter(E, b)]
      /\ rejectionCount' = [b \in Companies |-> rejectionsAfter(E, b)]
      /\ deal' = columnAfter(deal, deals)
      /\ correctionComment' = columnAfter(correctionComment, corrections)
      /\ clientCompletionComment' = columnAfter(clientCompletionComment, completions)
      /\ createNotifications(newNotices(E))
      /\ UNCHANGED <<creating, verifiedSquareMeters, taskFiles>>
  BY DEF applyEffects
<1> HIDE DEF E, deals, corrections, completions, plansOne
<1>9. \A b \in Companies :
        /\ statusAfter(E, b) = IF b = c THEN s ELSE offerStatus[b]
        /\ b \in offersTo(E, "REJECTED") <=> b = c /\ s = "REJECTED"
  BY <1>2, OneOfferWritten
<1>10. /\ offerStatus \in [Companies -> OfferStatus \union {NoOffer}]
       /\ rejectionCount \in [Companies -> Nat]
  BY DEF TypeOK
<1>11. offerStatus' = [offerStatus EXCEPT ![c] = s]
  BY <1>8, <1>9, <1>10
<1>12. rejectionCount' = IF s = "REJECTED" THEN [rejectionCount EXCEPT ![c] = @ + 1]
                         ELSE rejectionCount
  <2>1. \A b \in Companies :
          rejectionsAfter(E, b) =
            rejectionCount[b] + (IF b = c /\ s = "REJECTED" THEN 1 ELSE 0)
    BY <1>9 DEF rejectionsAfter
  <2>2. CASE s = "REJECTED"
    <3>1. \A b \in Companies :
            rejectionsAfter(E, b) = IF b = c THEN rejectionCount[b] + 1 ELSE rejectionCount[b]
      BY <1>10, <2>1, <2>2
    <3>2. QED
      BY <1>8, <1>10, <2>2, <3>1
  <2>3. CASE s # "REJECTED"
    <3>1. \A b \in Companies : rejectionsAfter(E, b) = rejectionCount[b]
      BY <1>10, <2>1, <2>3
    <3>2. QED
      BY <1>8, <1>10, <2>3, <3>1
  <2>4. QED
    BY <2>2, <2>3
<1>13. /\ deal' = deal
       /\ \A x \in Texts : more = {setCorrection(x)} => correctionComment' = x
       /\ (\A x \in Texts : more # {setCorrection(x)}) => UNCHANGED correctionComment
  BY <1>4, <1>5, <1>6, <1>8, ColumnWritten
<1>14. /\ \A x \in Texts \union {Null} :
            more = {setCompletion(x)} => clientCompletionComment' = x
       /\ (\A x \in Texts \union {Null} : more # {setCompletion(x)}) =>
            UNCHANGED clientCompletionComment
  BY <1>5, <1>7, <1>8, ColumnWritten
<1>15. QED
  BY <1>3, <1>8, <1>11, <1>12, <1>13, <1>14 DEF changesOne, commentsAfter

\* The plan of an acceptance: one offer wins, the others pending lose.
LEMMA AcceptanceEffects ==
  ASSUME TypeOK, NEW context, NEW event, NEW c \in Companies, NEW R \in SUBSET Companies,
         c \notin R, event.company = c, event.otherOffers = R, event.terms \in Terms,
         applyEffects(offerAccepted(context, event))
  PROVE  /\ status' = "IN_PROGRESS"
         /\ offerStatus' = [b \in Companies |-> IF b = c THEN "ACCEPTED"
                                                ELSE IF b \in R THEN "NOT_ACCEPTED"
                                                ELSE offerStatus[b]]
         /\ deal' = event.terms
         /\ createNotifications({notify(c, "OFFER_ACCEPTED", offerKey(c))} \union
                                {notify(b, "OFFER_NOT_ACCEPTED", offerKey(b)) : b \in R})
         /\ UNCHANGED <<rejectionCount, correctionComment, clientCompletionComment, creating,
                        verifiedSquareMeters, taskFiles>>
<1> DEFINE E == offerAccepted(context, event).effects
           win == tell(c, "OFFER_ACCEPTED", offerKey(c))
           lose(b) == tell(b, "OFFER_NOT_ACCEPTED", offerKey(b))
           deals == {x \in Terms : setDeal(x) \in E}
           corrections == {x \in Texts : setCorrection(x) \in E}
           completions == {x \in Texts \union {Null} : setCompletion(x) \in E}
           told == {notify(c, "OFFER_ACCEPTED", offerKey(c))} \union
                   {notify(b, "OFFER_NOT_ACCEPTED", offerKey(b)) : b \in R}
<1>1. /\ E = {setOfferStatus(c, "ACCEPTED"), setDeal(event.terms), win}
             \union {setOfferStatus(b, "NOT_ACCEPTED") : b \in R} \union {lose(b) : b \in R}
      /\ offerAccepted(context, event).nextStatus = "IN_PROGRESS"
  BY DEF offerAccepted, plan
<1>2. /\ status' = "IN_PROGRESS"
      /\ offerStatus' = [b \in Companies |-> statusAfter(E, b)]
      /\ rejectionCount' = [b \in Companies |-> rejectionsAfter(E, b)]
      /\ deal' = columnAfter(deal, deals)
      /\ correctionComment' = columnAfter(correctionComment, corrections)
      /\ clientCompletionComment' = columnAfter(clientCompletionComment, completions)
      /\ createNotifications(newNotices(E))
      /\ UNCHANGED <<creating, verifiedSquareMeters, taskFiles>>
  BY <1>1 DEF applyEffects
<1>3. /\ \A b : win # setOfferStatus(b, "ACCEPTED")
      /\ \A b, t, d : lose(d) # setOfferStatus(b, t) /\ win # setOfferStatus(b, t)
      /\ \A x, d : {lose(d), win} \intersect {setDeal(x), setCorrection(x), setCompletion(x)} = {}
  BY KindsDiffer DEF tell
<1> HIDE DEF win, lose, E
<1>4. \A b \in Companies, t \in OfferStatus :
        setOfferStatus(b, t) \in E <=> (b = c /\ t = "ACCEPTED") \/ (b \in R /\ t = "NOT_ACCEPTED")
  BY <1>1, <1>3, KindsDiffer, EffectsAreMadeOf
<1>5. \A b \in Companies, t \in OfferStatus :
        b \in offersTo(E, t) <=> (b = c /\ t = "ACCEPTED") \/ (b \in R /\ t = "NOT_ACCEPTED")
  BY <1>4 DEF offersTo
<1>6. {"ACCEPTED", "NOT_ACCEPTED", "REJECTED"} \subseteq OfferStatus
  BY DEF OfferStatus
<1>7. \A b \in Companies :
        statusAfter(E, b) = IF b = c THEN "ACCEPTED"
                            ELSE IF b \in R THEN "NOT_ACCEPTED"
                            ELSE offerStatus[b]
  BY <1>5, <1>6 DEF statusAfter
<1>8. UNCHANGED rejectionCount
  <2>1. \A b \in Companies : b \notin offersTo(E, "REJECTED") /\ rejectionCount[b] \in Nat
    BY <1>5, <1>6 DEF TypeOK
  <2>2. \A b \in Companies : rejectionsAfter(E, b) = rejectionCount[b]
    BY <2>1 DEF rejectionsAfter
  <2>3. QED
    BY <1>2, <2>2 DEF TypeOK
<1>9. /\ isOnly(deals, event.terms)
      /\ isNone(corrections)
      /\ isNone(completions)
  <2>1. \A x : setDeal(x) \in E <=> x = event.terms
    BY <1>1, <1>3, KindsDiffer, EffectsAreMadeOf
  <2>2. \A x : setCorrection(x) \notin E /\ setCompletion(x) \notin E
    BY <1>1, <1>3, KindsDiffer
  <2>3. QED
    BY <2>1, <2>2 DEF isOnly, isNone
<1>10. newNotices(E) = told
  <2>1. /\ win.kind = "CREATE_NOTIFICATION"
        /\ win.notice = notify(c, "OFFER_ACCEPTED", offerKey(c))
        /\ \A b : /\ lose(b).kind = "CREATE_NOTIFICATION"
                  /\ lose(b).notice = notify(b, "OFFER_NOT_ACCEPTED", offerKey(b))
    BY DEF win, lose, tell
  <2>2. /\ \A b, t : setOfferStatus(b, t).kind # "CREATE_NOTIFICATION"
        /\ setDeal(event.terms).kind # "CREATE_NOTIFICATION"
    BY DEF setOfferStatus, setDeal
  <2>3. {f \in E : f.kind = "CREATE_NOTIFICATION"} = {win} \union {lose(b) : b \in R}
    BY <1>1, <2>1, <2>2
  <2>4. QED
    BY <2>1, <2>3 DEF newNotices
<1> HIDE DEF deals, corrections, completions, told
<1>11. deal' = event.terms /\ UNCHANGED <<correctionComment, clientCompletionComment>>
  BY <1>2, <1>9, ColumnWritten
<1>12. createNotifications(told)
  BY <1>2, <1>10
<1>13. QED
  BY <1>2, <1>7, <1>8, <1>11, <1>12 DEF told

-----------------------------------------------------------------------------
(* Each transition *)

\* What the machine lets through satisfies every rule.
LEMMA NothingRefused ==
  ASSUME NEW context, NEW event, refusal(context, event) = "none"
  PROVE  /\ event.type \in ORDER_TRANSITIONS[context.status]
         /\ event.offerStatus = NoOffer \/ event.offerStatus \in OFFER_PRECONDITIONS[event.type]
         /\ ~isOut(event) /\ ~isLate(event) /\ ~isChanged(event)
  BY DEF refusal, isForbidden, isBadOffer

LEMMA ContextFields == contextOf.client = Client /\ contextOf.status = status
  BY DEF contextOf

\* The order is locked, a row is found, and its event is not refused.
LEMMA Applied ==
  ASSUME NEW command, apply(command)
  PROVE  /\ status \in OrderStatus
         /\ \E c \in resolveOffer(command) :
              /\ refusal(contextOf, buildEvent(command, c)) = "none"
              /\ applyEffects(handlerFor(contextOf, buildEvent(command, c)))
  BY DEF apply

LEMMA SubmitIsCommit ==
  ASSUME TypeOK, NEW d \in drafts, SubmitByMachine(d)
  PROVE  CommitSubmit(d)
<1> DEFINE c == d.company
           command == [type |-> "OFFER_SUBMITTED", company |-> c,
                       offerStatusBefore |-> offerStatus[c]]
           event == [type |-> "OFFER_SUBMITTED", company |-> c, offerStatus |-> offerStatus[c],
                     rejectionCount |-> rejectionCount[c]]
           p == handlerFor(contextOf, event)
<1>1. c \in Companies
  BY DEF TypeOK
<1>2. resolveOffer(command) = {c}
  BY DEF resolveOffer
<1>3. buildEvent(command, c) = event
  BY DEF buildEvent
<1>4. apply(command)
  BY DEF SubmitByMachine
<1>5. status \in OrderStatus /\ refusal(contextOf, event) = "none" /\ applyEffects(p)
  BY <1>2, <1>3, <1>4, Applied
<1>6. maySubmit(c)
  BY <1>5, NothingRefused, ContextFields DEF maySubmit, canTransition, isOut
<1>7. /\ p.nextStatus = "AWAITING_CONFIRMATION"
      /\ p.effects = {setOfferStatus(c, "SENT"), tell(Client, "OFFER_RECEIVED", offerKey(c))}
  BY ContextFields DEF handlerFor, offerSubmitted, plan
<1> HIDE DEF p, event, command
<1>8. /\ changesOne("AWAITING_CONFIRMATION", c, "SENT", Client, "OFFER_RECEIVED", offerKey(c))
      /\ commentsAfter({})
  <2>1. plansOne(p, c, "SENT", Client, "OFFER_RECEIVED", offerKey(c), {})
    BY <1>7 DEF plansOne
  <2>2. "SENT" \in OfferStatus
    BY DEF OfferStatus
  <2>3. QED
    BY <1>1, <1>5, <1>7, <2>1, <2>2, SimpleEffects
<1>9. UNCHANGED <<correctionComment, clientCompletionComment>>
  BY <1>8 DEF commentsAfter
<1>10. QED
  BY <1>6, <1>8, <1>9 DEF changesOne, CommitSubmit, SubmitByMachine, rowUnchanged

\* Both ways of leaving the choice: one handler, one effect on the rows.
leftAs(c, event, newStatus, u) ==
  /\ offerStatus[c] # NoOffer
  /\ canTransition(status, event, offerStatus[c])
  /\ changesOne(statusAfterLeaving(c), c, newStatus, u, event, offerKey(c))
  /\ UNCHANGED <<correctionComment, clientCompletionComment>>

LEMMA LeaveIsLeft ==
  ASSUME TypeOK, NEW c \in Companies,
         NEW type, NEW newStatus, NEW u,
         \/ type = "OFFER_WITHDRAWN" /\ newStatus = "WITHDRAWN" /\ u = Client
         \/ type = "OFFER_REJECTED" /\ newStatus = "REJECTED" /\ u = c,
         LeaveByMachine(c, type)
  PROVE  leftAs(c, type, newStatus, u)
<1> DEFINE command == [type |-> type, company |-> c]
           event == [type |-> type, company |-> c, offerStatus |-> offerStatus[c],
                     otherActiveOffers |-> otherActiveOffers(c)]
           p == handlerFor(contextOf, event)
<1>1. \A b \in resolveOffer(command) : b = c /\ offerStatus[c] # NoOffer
  BY DEF resolveOffer
<1>2. buildEvent(command, c) = event
  BY DEF buildEvent
<1>3. apply(command)
  BY DEF LeaveByMachine
<1>4. /\ status \in OrderStatus /\ offerStatus[c] # NoOffer
      /\ refusal(contextOf, event) = "none" /\ applyEffects(p)
  BY <1>1, <1>2, <1>3, Applied
<1>5. canTransition(status, type, offerStatus[c])
  BY <1>4, NothingRefused, ContextFields DEF canTransition
<1>6. /\ p.nextStatus = statusAfterLeaving(c)
      /\ p.effects = {setOfferStatus(c, newStatus), tell(u, type, offerKey(c))}
  BY ContextFields DEF handlerFor, offerLeftSelection, plan, statusAfterLeaving
<1> HIDE DEF p, event, command
<1>7. /\ changesOne(statusAfterLeaving(c), c, newStatus, u, type, offerKey(c))
      /\ commentsAfter({})
  <2>1. plansOne(p, c, newStatus, u, type, offerKey(c), {})
    BY <1>6 DEF plansOne
  <2>2. newStatus \in OfferStatus
    BY DEF OfferStatus
  <2>3. QED
    BY <1>4, <1>6, <2>1, <2>2, SimpleEffects
<1>8. UNCHANGED <<correctionComment, clientCompletionComment>>
  BY <1>7 DEF commentsAfter
<1>9. QED
  BY <1>4, <1>5, <1>7, <1>8 DEF leftAs

LEMMA WithdrawalIsWithdraw ==
  ASSUME TypeOK, NEW c \in Companies, LeaveByMachine(c, "OFFER_WITHDRAWN")
  PROVE  Withdraw(c)
<1>1. leftAs(c, "OFFER_WITHDRAWN", "WITHDRAWN", Client)
  BY LeaveIsLeft
<1>2. QED
  BY <1>1 DEF leftAs, changesOne, LeaveByMachine, Withdraw, leaveSelection, rowUnchanged

LEMMA RejectionIsReject ==
  ASSUME TypeOK, NEW c \in Companies, LeaveByMachine(c, "OFFER_REJECTED")
  PROVE  Reject(c)
<1>1. leftAs(c, "OFFER_REJECTED", "REJECTED", c)
  BY LeaveIsLeft
<1>2. QED
  BY <1>1 DEF leftAs, changesOne, LeaveByMachine, Reject, leaveSelection, rowUnchanged

LEMMA AcceptIsAcceptOffer ==
  ASSUME TypeOK, AcceptByMachine
  PROVE  AcceptOffer
<1> DEFINE c == seen.company
           command == [type |-> "OFFER_ACCEPTED", company |-> c,
                       seenOfferEditedAt |-> seen.editedAt]
           event == [type |-> "OFFER_ACCEPTED", company |-> c, offerStatus |-> offerStatus[c],
                     terms |-> proposed[c], today |-> today, offerEditedAt |-> editedAt[c],
                     seenOfferEditedAt |-> seen.editedAt, otherOffers |-> otherActiveOffers(c)]
           R == otherActiveOffers(c)
<1>1. seen # Null /\ c \in Companies
  BY DEF AcceptByMachine, TypeOK
<1>2. \A b \in resolveOffer(command) : b = c /\ offerStatus[c] # NoOffer
  BY DEF resolveOffer
<1>3. buildEvent(command, c) = event
  BY DEF buildEvent
<1>4. apply(command)
  BY DEF AcceptByMachine
<1>5. /\ status \in OrderStatus /\ offerStatus[c] # NoOffer
      /\ refusal(contextOf, event) = "none"
      /\ applyEffects(handlerFor(contextOf, event))
  BY <1>2, <1>3, <1>4, Applied
<1>6. /\ canTransition(status, "OFFER_ACCEPTED", offerStatus[c])
      /\ ~isOfferExpired(proposed[c].deadline, today)
      /\ offerUnchanged(c)
  BY <1>5, NothingRefused, ContextFields DEF canTransition, isLate, isChanged, offerUnchanged
<1>7. handlerFor(contextOf, event) = offerAccepted(contextOf, event)
  BY DEF handlerFor
<1>8. /\ R \in SUBSET Companies /\ c \notin R
      /\ event.company = c /\ event.otherOffers = R /\ event.terms = proposed[c]
  BY DEF otherActiveOffers
<1>9. proposed[c] \in Terms
  BY <1>1, <1>5 DEF TypeOK
<1>10. applyEffects(offerAccepted(contextOf, event)) /\ event.terms \in Terms
  BY <1>5, <1>7, <1>8, <1>9
<1> HIDE DEF event, command, R, c
<1>11. /\ status' = "IN_PROGRESS"
       /\ offerStatus' = [b \in Companies |-> IF b = c THEN "ACCEPTED"
                                              ELSE IF b \in R THEN "NOT_ACCEPTED"
                                              ELSE offerStatus[b]]
       /\ deal' = event.terms
       /\ createNotifications({notify(c, "OFFER_ACCEPTED", offerKey(c))} \union
                              {notify(b, "OFFER_NOT_ACCEPTED", offerKey(b)) : b \in R})
       /\ UNCHANGED <<rejectionCount, correctionComment, clientCompletionComment, creating,
                      verifiedSquareMeters, taskFiles>>
  BY <1>1, <1>8, <1>10, AcceptanceEffects
<1>12. QED
  BY <1>1, <1>5, <1>6, <1>8, <1>11 DEF AcceptOffer, AcceptByMachine, rowUnchanged, R, c

\* Work is done, confirmed and sent back under the executor's offer.
workedAs(c, type, newStatus) ==
  /\ isExecutor(c)
  /\ canTransition(status, type, offerStatus[c])
  /\ offerStatus' = [offerStatus EXCEPT ![c] = newStatus]
  /\ UNCHANGED <<rejectionCount, deal, creating, verifiedSquareMeters, taskFiles>>

LEMMA SubmissionIsSubmitWork ==
  ASSUME TypeOK, SubmitWorkByMachine
  PROVE  \E c \in Companies : SubmitWork(c)
<1> DEFINE command == [type |-> "WORK_SUBMITTED"]
           event(c) == [type |-> "WORK_SUBMITTED", company |-> c, offerStatus |-> offerStatus[c]]
<1>1. apply(command) /\ status \in OrderStatus
  BY Applied DEF SubmitWorkByMachine
<1>2. PICK c \in resolveOffer(command) :
        /\ refusal(contextOf, buildEvent(command, c)) = "none"
        /\ applyEffects(handlerFor(contextOf, buildEvent(command, c)))
  BY <1>1, Applied
<1>3. c \in Companies /\ isExecutor(c)
  BY DEF resolveOffer
<1>4. buildEvent(command, c) = event(c)
  BY DEF buildEvent
<1> DEFINE p == handlerFor(contextOf, event(c))
<1>5. refusal(contextOf, event(c)) = "none" /\ applyEffects(p)
  BY <1>2, <1>4
<1>6. canTransition(status, "WORK_SUBMITTED", offerStatus[c])
  BY <1>1, <1>3, <1>5, NothingRefused, ContextFields DEF canTransition
<1>7. /\ p.nextStatus = "AWAITING_COMPLETION_CONFIRMATION"
      /\ p.effects = {setOfferStatus(c, "WORK_SUBMITTED"), tell(Client, "WORK_SUBMITTED", Null)}
  BY ContextFields DEF handlerFor, workSubmitted, plan
<1> HIDE DEF p, event, command
<1>8. /\ changesOne("AWAITING_COMPLETION_CONFIRMATION", c, "WORK_SUBMITTED", Client,
                    "WORK_SUBMITTED", Null)
      /\ commentsAfter({})
  <2>1. plansOne(p, c, "WORK_SUBMITTED", Client, "WORK_SUBMITTED", Null, {})
    BY <1>7 DEF plansOne
  <2>2. "WORK_SUBMITTED" \in OfferStatus
    BY DEF OfferStatus
  <2>3. QED
    BY <1>3, <1>5, <1>7, <2>1, <2>2, SimpleEffects
<1>9. UNCHANGED <<correctionComment, clientCompletionComment>>
  BY <1>8 DEF commentsAfter
<1>10. SubmitWork(c)
  BY <1>3, <1>6, <1>8, <1>9 DEF changesOne, SubmitWork, workTransition, SubmitWorkByMachine
<1>11. QED
  BY <1>3, <1>10

LEMMA ConfirmationIsConfirm ==
  ASSUME TypeOK, NEW text \in Texts \union {Null},
         JudgeByMachine([type |-> "WORK_CONFIRMED", completionComment |-> text])
  PROVE  \E c \in Companies : Confirm(c, text)
<1> DEFINE command == [type |-> "WORK_CONFIRMED", completionComment |-> text]
           event(c) == [type |-> "WORK_CONFIRMED", company |-> c, offerStatus |-> offerStatus[c],
                        completionComment |-> text]
           more == {setCompletion(text)}
<1>1. apply(command) /\ status \in OrderStatus
  BY Applied DEF JudgeByMachine
<1>2. PICK c \in resolveOffer(command) :
        /\ refusal(contextOf, buildEvent(command, c)) = "none"
        /\ applyEffects(handlerFor(contextOf, buildEvent(command, c)))
  BY <1>1, Applied
<1>3. c \in Companies /\ isExecutor(c)
  BY DEF resolveOffer
<1>4. buildEvent(command, c) = event(c)
  BY DEF buildEvent
<1> DEFINE p == handlerFor(contextOf, event(c))
<1>5. refusal(contextOf, event(c)) = "none" /\ applyEffects(p)
  BY <1>2, <1>4
<1>6. canTransition(status, "WORK_CONFIRMED", offerStatus[c])
  BY <1>1, <1>3, <1>5, NothingRefused, ContextFields DEF canTransition
<1>7. /\ p.nextStatus = "COMPLETED"
      /\ p.effects = {setOfferStatus(c, "COMPLETED"), tell(c, "WORK_CONFIRMED", Null)} \union more
  BY DEF handlerFor, workConfirmed, plan
<1>8. /\ \E x \in Texts \union {Null} : more = {setCompletion(x)}
      /\ \A x \in Texts : more # {setCorrection(x)}
      /\ more = {setCompletion(text)}
  BY KindsDiffer DEF setCorrection, setCompletion
<1> HIDE DEF p, event, command, more
<1>9. /\ changesOne("COMPLETED", c, "COMPLETED", c, "WORK_CONFIRMED", Null)
      /\ commentsAfter(more)
  <2>1. plansOne(p, c, "COMPLETED", c, "WORK_CONFIRMED", Null, more)
    BY <1>7, <1>8 DEF plansOne
  <2>2. "COMPLETED" \in OfferStatus
    BY DEF OfferStatus
  <2>3. QED
    BY <1>3, <1>5, <1>7, <2>1, <2>2, SimpleEffects
<1>10. clientCompletionComment' = text /\ UNCHANGED correctionComment
  BY <1>8, <1>9 DEF commentsAfter
<1>11. Confirm(c, text)
  BY <1>3, <1>6, <1>9, <1>10 DEF changesOne, Confirm, workTransition, JudgeByMachine
<1>12. QED
  BY <1>3, <1>11

LEMMA DisputeIsDispute ==
  ASSUME TypeOK, NEW text \in Texts,
         JudgeByMachine([type |-> "WORK_DISPUTED", correctionComment |-> text])
  PROVE  \E c \in Companies : Dispute(c, text)
<1> DEFINE command == [type |-> "WORK_DISPUTED", correctionComment |-> text]
           event(c) == [type |-> "WORK_DISPUTED", company |-> c, offerStatus |-> offerStatus[c],
                        correctionComment |-> text]
           more == {setCorrection(text)}
<1>1. apply(command) /\ status \in OrderStatus
  BY Applied DEF JudgeByMachine
<1>2. PICK c \in resolveOffer(command) :
        /\ refusal(contextOf, buildEvent(command, c)) = "none"
        /\ applyEffects(handlerFor(contextOf, buildEvent(command, c)))
  BY <1>1, Applied
<1>3. c \in Companies /\ isExecutor(c)
  BY DEF resolveOffer
<1>4. buildEvent(command, c) = event(c)
  BY DEF buildEvent
<1> DEFINE p == handlerFor(contextOf, event(c))
<1>5. refusal(contextOf, event(c)) = "none" /\ applyEffects(p)
  BY <1>2, <1>4
<1>6. canTransition(status, "WORK_DISPUTED", offerStatus[c])
  BY <1>1, <1>3, <1>5, NothingRefused, ContextFields DEF canTransition
<1>7. /\ p.nextStatus = "COMPLETION_DISPUTED"
      /\ p.effects = {setOfferStatus(c, "BACK_FOR_OVERRIDE"), tell(c, "WORK_DISPUTED", Null)}
                     \union more
  BY DEF handlerFor, workDisputed, plan
<1>8. /\ \E x \in Texts : more = {setCorrection(x)}
      /\ \A x \in Texts \union {Null} : more # {setCompletion(x)}
      /\ more = {setCorrection(text)}
  BY KindsDiffer DEF setCorrection, setCompletion
<1> HIDE DEF p, event, command, more
<1>9. /\ changesOne("COMPLETION_DISPUTED", c, "BACK_FOR_OVERRIDE", c, "WORK_DISPUTED", Null)
      /\ commentsAfter(more)
  <2>1. plansOne(p, c, "BACK_FOR_OVERRIDE", c, "WORK_DISPUTED", Null, more)
    BY <1>7, <1>8 DEF plansOne
  <2>2. "BACK_FOR_OVERRIDE" \in OfferStatus
    BY DEF OfferStatus
  <2>3. QED
    BY <1>3, <1>5, <1>7, <2>1, <2>2, SimpleEffects
<1>10. correctionComment' = text /\ UNCHANGED clientCompletionComment
  BY <1>8, <1>9 DEF commentsAfter
<1>11. Dispute(c, text)
  BY <1>3, <1>6, <1>9, <1>10 DEF changesOne, Dispute, workTransition, JudgeByMachine
<1>12. QED
  BY <1>3, <1>11

-----------------------------------------------------------------------------
(* The refinement *)

LEMMA EveryStepIsALifecycleStep ==
  ASSUME TypeOK, [MachineNext]_vars
  PROVE  [Next]_vars
<1>1. CASE \E d \in drafts : SubmitByMachine(d)
  BY <1>1, SubmitIsCommit DEF Next
<1>2. CASE \E c \in Companies, event \in {"OFFER_WITHDRAWN", "OFFER_REJECTED"} :
             LeaveByMachine(c, event)
  <2>1. PICK c \in Companies :
          LeaveByMachine(c, "OFFER_WITHDRAWN") \/ LeaveByMachine(c, "OFFER_REJECTED")
    BY <1>2
  <2>2. Withdraw(c) \/ Reject(c)
    BY <2>1, WithdrawalIsWithdraw, RejectionIsReject
  <2>3. QED
    BY <2>2 DEF Next
<1>3. CASE AcceptByMachine
  BY <1>3, AcceptIsAcceptOffer DEF Next
<1>4. CASE SubmitWorkByMachine
  BY <1>4, SubmissionIsSubmitWork DEF Next
<1>5. CASE \E text \in Texts \union {Null} :
             JudgeByMachine([type |-> "WORK_CONFIRMED", completionComment |-> text])
  BY <1>5, ConfirmationIsConfirm DEF Next
<1>6. CASE \E text \in Texts :
             JudgeByMachine([type |-> "WORK_DISPUTED", correctionComment |-> text])
  BY <1>6, DisputeIsDispute DEF Next
<1>7. CASE \/ Create
           \/ \E F \in SUBSET Files : AttachTaskFiles(F)
           \/ RollbackCreate
           \/ Remove
           \/ \E c \in Companies, t \in Terms : StartSubmit(c, t)
           \/ \E d \in drafts : DropSubmit(d)
           \/ \E c \in Companies : LoadOffer(c)
           \/ \E F \in (SUBSET Files) \ {{}}, text \in Texts : OpenSubmission(F, text)
           \/ \E u \in uploads : DropUpload(u)
           \/ \E u \in uploads : AttachWork(u)
           \/ \E area \in Areas : VerifyArea(area)
           \/ \E n \in notices : MarkRead(n)
           \/ \E u \in Readers : MarkAllRead(u)
           \/ DayPasses
           \/ UNCHANGED vars
  BY <1>7 DEF Next
<1>8. QED
  BY <1>1, <1>2, <1>3, <1>4, <1>5, <1>6, <1>7 DEF MachineNext

\* Whatever order of checks, reads and writes the machine and the service go
\* through, what they commit is what OrderLifecycle says, so its theorems hold
\* of the code in two parts.
THEOREM MachineImplementsLifecycle == MachineSpec => KeepsLifecycle
<1>1. Init => TypeOK
  BY InitType
<1>2. TypeOK /\ [MachineNext]_vars => [Next]_vars
  BY EveryStepIsALifecycleStep
<1>3. TypeOK /\ [Next]_vars => TypeOK'
  BY NextType
<1>4. QED
  BY <1>1, <1>2, <1>3, PTL DEF MachineSpec, KeepsLifecycle, Spec

-----------------------------------------------------------------------------
(* The words of a refusal *)

\* The first objection of the machine, one by one.
LEMMA Objections ==
  ASSUME NEW context, NEW event, event.type \in OrderEventType, context.status \in OrderStatus
  PROVE  /\ refusal(context, event) \in {"InvalidStateTransition", "InvalidOfferStatus"} =>
              ~canTransition(context.status, event.type, event.offerStatus)
         /\ refusal(context, event) = "OfferFinallyRejected" => isOut(event)
         /\ refusal(context, event) = "OfferExpired" =>
              /\ isLate(event)
              /\ canTransition(context.status, event.type, event.offerStatus)
         /\ refusal(context, event) = "OfferChanged" =>
              /\ isChanged(event) /\ ~isLate(event) /\ ~isOut(event)
              /\ ~isForbidden(context, event) /\ ~isBadOffer(event)
  BY DEF refusal, isForbidden, isBadOffer, canTransition

\* Whether a button is shown to the reader of the reloaded page.
LEMMA ReloadedButtons ==
  ASSUME ButtonsAgree, exists, NEW c \in Companies
  PROVE  /\ "submitOffer" \in reloaded("OFFER_SUBMITTED", c) => maySubmit(c)
         /\ "withdraw" \in reloaded("OFFER_WITHDRAWN", c) => moves(c, "OFFER_WITHDRAWN")
         /\ "reject" \in reloaded("OFFER_REJECTED", c) => moves(c, "OFFER_REJECTED")
         /\ "accept" \in reloaded("OFFER_ACCEPTED", c) => moves(c, "OFFER_ACCEPTED")
         /\ "submitWork" \in reloaded("WORK_SUBMITTED", c) => moves(c, "WORK_SUBMITTED")
  <1>1. /\ clientButtons(toOrderDetail(Client), Client, c) = clientMay(c)
        /\ companyButtons(toOrderDetail(c), c) = companyMay(c)
    BY DEF ButtonsAgree
  <1>2. /\ reloaded("OFFER_REJECTED", c) = clientMay(c) /\ reloaded("OFFER_ACCEPTED", c) = clientMay(c)
        /\ reloaded("OFFER_SUBMITTED", c) = companyMay(c) /\ reloaded("WORK_SUBMITTED", c) = companyMay(c)
        /\ reloaded("OFFER_WITHDRAWN", c) = companyMay(c)
    BY <1>1 DEF reloaded
  <1>3. /\ "accept" \in clientMay(c) => moves(c, "OFFER_ACCEPTED")
        /\ "reject" \in clientMay(c) => moves(c, "OFFER_REJECTED")
    BY DEF clientMay
  <1>4. /\ "submitOffer" \in companyMay(c) => maySubmit(c)
        /\ "withdraw" \in companyMay(c) => moves(c, "OFFER_WITHDRAWN")
        /\ "submitWork" \in companyMay(c) => moves(c, "WORK_SUBMITTED")
    BY DEF companyMay
  <1> QED BY <1>2, <1>3, <1>4

\* What the words of a refusal promise, for one request.
advice(command, c) ==
  LET event == buildEvent(command, c)
      said == refusal(contextOf, event)
  IN
  /\ said \in {"InvalidStateTransition", "InvalidOfferStatus", "OfferFinallyRejected"} =>
       buttonOf[event.type] \notin reloaded(event.type, c)
  /\ said = "OfferFinallyRejected" => ~inFeed(c)
  /\ said = "OfferExpired" => maySubmit(c)
  /\ said = "OfferChanged" =>
       refusal(contextOf, [event EXCEPT !.seenOfferEditedAt = editedAt[c]]) = "none"

LEMMA AdviceToSubmit ==
  ASSUME ButtonsAgree, DoorsAgree, exists, NEW c \in Companies
  PROVE  advice([type |-> "OFFER_SUBMITTED", company |-> c, offerStatusBefore |-> offerStatus[c]], c)
  <1> DEFINE command == [type |-> "OFFER_SUBMITTED", company |-> c,
                         offerStatusBefore |-> offerStatus[c]]
             event == buildEvent(command, c)
             said == refusal(contextOf, event)
  <1>1. /\ event.type = "OFFER_SUBMITTED" /\ event.offerStatus = offerStatus[c]
        /\ event.rejectionCount = rejectionCount[c]
    BY DEF buildEvent
  <1>2. ~isLate(event) /\ ~isChanged(event) BY <1>1 DEF isLate, isChanged
  <1> HIDE DEF event
  <1>3. /\ said \in {"InvalidStateTransition", "InvalidOfferStatus"} =>
             ~canTransition(status, "OFFER_SUBMITTED", offerStatus[c])
        /\ said = "OfferFinallyRejected" => isFinallyRejected(offerStatus[c], rejectionCount[c])
        /\ said # "OfferExpired" /\ said # "OfferChanged"
    BY <1>1, <1>2, Objections, ContextFields DEF exists, OrderEventType, isOut
  <1>4. said \in {"InvalidStateTransition", "InvalidOfferStatus", "OfferFinallyRejected"} =>
          ~maySubmit(c)
    BY <1>3 DEF maySubmit
  <1>5. ~maySubmit(c) => ~inFeed(c) /\ "submitOffer" \notin reloaded("OFFER_SUBMITTED", c)
    BY ReloadedButtons DEF DoorsAgree
  <1>6. buttonOf[event.type] = "submitOffer" BY <1>1 DEF buttonOf
  <1> QED BY <1>1, <1>3, <1>4, <1>5, <1>6 DEF advice, event

\* The two ways of a pending offer out of the choice, and the executor's work, may be
\* refused for one reason only: things have moved on.
LEMMA AdviceToReload ==
  ASSUME ButtonsAgree, exists, NEW c \in Companies, offerStatus[c] # NoOffer, NEW command,
         command.type \in {"OFFER_WITHDRAWN", "OFFER_REJECTED", "WORK_SUBMITTED"}
  PROVE  advice(command, c)
  <1> DEFINE event == buildEvent(command, c)
             said == refusal(contextOf, event)
  <1>1. event.type = command.type /\ event.offerStatus = offerStatus[c]
    BY DEF buildEvent
  <1>2. ~isOut(event) /\ ~isLate(event) /\ ~isChanged(event)
    BY <1>1 DEF isOut, isLate, isChanged
  <1> HIDE DEF event
  <1>3. /\ said \in {"InvalidStateTransition", "InvalidOfferStatus"} =>
             ~canTransition(status, command.type, offerStatus[c])
        /\ said # "OfferFinallyRejected" /\ said # "OfferExpired" /\ said # "OfferChanged"
    BY <1>1, <1>2, Objections, ContextFields DEF exists, OrderEventType
  <1>4. ~canTransition(status, command.type, offerStatus[c]) =>
          buttonOf[command.type] \notin reloaded(command.type, c)
    <2>1. buttonOf["OFFER_WITHDRAWN"] = "withdraw" /\ buttonOf["OFFER_REJECTED"] = "reject"
          /\ buttonOf["WORK_SUBMITTED"] = "submitWork"
      BY DEF buttonOf
    <2> QED BY <2>1, ReloadedButtons DEF moves
  <1> QED BY <1>1, <1>3, <1>4 DEF advice, event

LEMMA AdviceToAccept ==
  ASSUME ButtonsAgree, exists, NEW c \in Companies, offerStatus[c] # NoOffer, NEW stamp
  PROVE  advice([type |-> "OFFER_ACCEPTED", company |-> c, seenOfferEditedAt |-> stamp], c)
  <1> DEFINE command == [type |-> "OFFER_ACCEPTED", company |-> c, seenOfferEditedAt |-> stamp]
             event == buildEvent(command, c)
             again == [event EXCEPT !.seenOfferEditedAt = editedAt[c]]
             said == refusal(contextOf, event)
  <1>1. event = [type |-> "OFFER_ACCEPTED", company |-> c, offerStatus |-> offerStatus[c],
                 terms |-> proposed[c], today |-> today, offerEditedAt |-> editedAt[c],
                 seenOfferEditedAt |-> stamp, otherOffers |-> otherActiveOffers(c)]
    BY DEF buildEvent
  <1>2. event.type = "OFFER_ACCEPTED" /\ event.offerStatus = offerStatus[c]
        /\ event.offerEditedAt = editedAt[c] /\ event.terms = proposed[c] /\ event.today = today
    BY <1>1
  <1>3. again = [type |-> "OFFER_ACCEPTED", company |-> c, offerStatus |-> offerStatus[c],
                 terms |-> proposed[c], today |-> today, offerEditedAt |-> editedAt[c],
                 seenOfferEditedAt |-> editedAt[c], otherOffers |-> otherActiveOffers(c)]
    BY <1>1
  <1>4. again.type = "OFFER_ACCEPTED" /\ again.offerStatus = offerStatus[c]
        /\ again.offerEditedAt = editedAt[c] /\ again.terms = proposed[c] /\ again.today = today
        /\ again.seenOfferEditedAt = editedAt[c]
    BY <1>3
  <1> HIDE DEF event, again
  <1>5. ~isOut(event) /\ ~isOut(again) /\ ~isChanged(again) /\ (isLate(again) <=> isLate(event))
        /\ (isForbidden(contextOf, again) <=> isForbidden(contextOf, event))
        /\ (isBadOffer(again) <=> isBadOffer(event))
    BY <1>2, <1>4 DEF isOut, isChanged, isLate, isForbidden, isBadOffer
  <1>6. /\ said \in {"InvalidStateTransition", "InvalidOfferStatus"} =>
             ~canTransition(status, "OFFER_ACCEPTED", offerStatus[c])
        /\ said # "OfferFinallyRejected"
        /\ said = "OfferExpired" => canTransition(status, "OFFER_ACCEPTED", offerStatus[c])
        /\ said = "OfferChanged" => /\ ~isLate(event) /\ ~isForbidden(contextOf, event)
                                    /\ ~isBadOffer(event)
    BY <1>2, <1>5, Objections, ContextFields DEF exists, OrderEventType
  <1>7. said = "OfferChanged" => refusal(contextOf, again) = "none"
    BY <1>5, <1>6 DEF refusal
  <1>8. ~canTransition(status, "OFFER_ACCEPTED", offerStatus[c]) =>
          "accept" \notin reloaded("OFFER_ACCEPTED", c)
    BY ReloadedButtons DEF moves
  <1>9. canTransition(status, "OFFER_ACCEPTED", offerStatus[c]) => maySubmit(c)
    BY MovesOfOffers DEF maySubmit, isFinallyRejected, acceptsOffers, OFFER_ELIGIBLE_ORDER_STATUSES
  <1>10. buttonOf[event.type] = "accept" BY <1>2 DEF buttonOf
  <1> QED BY <1>2, <1>6, <1>7, <1>8, <1>9, <1>10 DEF advice, event, again

\* A refused request is never told in words that lead nowhere: what was refused is not
\* offered again, who is to send a new deadline may, and reading the offer again is enough
\* (transition, OrderTransitionService.run and the page together).
THEOREM RefusalsAlwaysPointTheWay == Spec => []RefusalsPointTheWay
  <1>1. TypeOK /\ ButtonsAgree /\ DoorsAgree => RefusalsPointTheWay
    <2> SUFFICES ASSUME TypeOK, ButtonsAgree, DoorsAgree, exists, NEW command \in requests,
                        NEW c \in resolveOffer(command)
                 PROVE  advice(command, c)
      BY DEF RefusalsPointTheWay, advice
    <2>1. CASE \E b \in Companies : command = [type |-> "OFFER_SUBMITTED", company |-> b,
                                             offerStatusBefore |-> offerStatus[b]]
      <3>1. PICK b \in Companies : command = [type |-> "OFFER_SUBMITTED", company |-> b,
                                             offerStatusBefore |-> offerStatus[b]]
        BY <2>1
      <3>2. c = b BY <3>1 DEF resolveOffer
      <3> QED BY <3>1, <3>2, AdviceToSubmit
    <2>2. CASE command \in [type : {"OFFER_WITHDRAWN", "OFFER_REJECTED"}, company : Companies]
      <3>1. command.type \in {"OFFER_WITHDRAWN", "OFFER_REJECTED"} /\ command.company \in Companies
        BY <2>2
      <3>2. c \in Companies /\ offerStatus[c] # NoOffer BY <3>1 DEF resolveOffer
      <3> QED BY <3>1, <3>2, AdviceToReload
    <2>3. CASE \E s \in {seen} \ {Null} :
                 command = [type |-> "OFFER_ACCEPTED", company |-> s.company,
                            seenOfferEditedAt |-> s.editedAt]
      <3>1. /\ command = [type |-> "OFFER_ACCEPTED", company |-> seen.company,
                          seenOfferEditedAt |-> seen.editedAt]
            /\ seen.company \in Companies
        BY <2>3 DEF TypeOK
      <3>2. c = seen.company /\ offerStatus[c] # NoOffer BY <3>1 DEF resolveOffer
      <3> QED BY <3>1, <3>2, AdviceToAccept
    <2>4. CASE command = [type |-> "WORK_SUBMITTED"]
      <3>1. command.type = "WORK_SUBMITTED" BY <2>4
      <3>2. c \in Companies /\ isExecutor(c) BY <3>1 DEF resolveOffer
      <3>3. offerStatus[c] # NoOffer BY <3>2, ExecutorStatuses DEF isExecutor, NoOffer
      <3> QED BY <3>1, <3>2, <3>3, AdviceToReload
    <2> QED BY <2>1, <2>2, <2>3, <2>4 DEF requests
  <1> QED BY <1>1, LifecycleTypes, ButtonsAlwaysAgree, DoorsAlwaysAgree, PTL

-----------------------------------------------------------------------------
(* What the page says *)

\* Columns of the order and of its offers that words of the page speak of.
ColumnsTellTheStory ==
  /\ status = "COMPLETION_DISPUTED" => correctionComment # Null
  /\ correctionComment # Null => sentRounds # {}
  /\ verifiedSquareMeters # Null => status \in WorkStages
  /\ \A c \in Companies : offerStatus[c] = "REJECTED" => rejectionCount[c] >= 1

LEMMA NextColumns ==
  TypeOK /\ RoundsFollowStatus /\ ColumnsTellTheStory /\ [Next]_vars => ColumnsTellTheStory'
<1> SUFFICES ASSUME TypeOK, RoundsFollowStatus, ColumnsTellTheStory, [Next]_vars
             PROVE  ColumnsTellTheStory'
  OBVIOUS
<1> USE DEF ColumnsTellTheStory, WorkStages
<1>1. CASE RollbackCreate \/ Remove
  <2>1. CASE DeleteRow
    BY <2>1 DEF DeleteRow, NoOffer
  <2>2. CASE UNCHANGED <<status, deal, correctionComment, clientCompletionComment,
                         verifiedSquareMeters, taskFiles, offerVars, roundVars>>
    BY <2>2 DEF roundVars, offerVars, sentRounds
  <2> QED BY <1>1, <2>1, <2>2 DEF RollbackCreate, Remove
<1>2. ASSUME NEW d \in drafts, CommitSubmit(d) PROVE ColumnsTellTheStory'
  <2>1. d.company \in Companies /\ status \in OFFER_ELIGIBLE_ORDER_STATUSES
    BY <1>2, TableOfOffers DEF CommitSubmit, maySubmit, TypeOK
  <2> QED BY <1>2, <2>1 DEF CommitSubmit, rowUnchanged, roundVars, sentRounds, TypeOK,
            OFFER_ELIGIBLE_ORDER_STATUSES
<1>3. ASSUME NEW c \in Companies, Withdraw(c) \/ Reject(c) PROVE ColumnsTellTheStory'
  <2>1. status = "AWAITING_CONFIRMATION" /\ status' \in {"AWAITING_CONFIRMATION", "WAITING"}
    BY <1>3, TableOfOffers DEF Withdraw, Reject, leaveSelection, statusAfterLeaving
  <2>2. UNCHANGED <<correctionComment, verifiedSquareMeters, roundState>>
    BY <1>3 DEF Withdraw, Reject, leaveSelection, rowUnchanged, roundVars
  <2>3. \A b \in Companies : offerStatus'[b] = "REJECTED" => rejectionCount'[b] >= 1
    <3>1. CASE Withdraw(c)
      BY <3>1 DEF Withdraw, leaveSelection, TypeOK
    <3>2. CASE Reject(c)
      BY <3>2 DEF Reject, leaveSelection, TypeOK
    <3> QED BY <1>3, <3>1, <3>2
  <2> QED BY <2>1, <2>2, <2>3 DEF sentRounds
<1>4. CASE AcceptOffer
  <2>1. status = "AWAITING_CONFIRMATION" /\ status' = "IN_PROGRESS"
    BY <1>4, TableOfOffers DEF AcceptOffer
  <2>2. UNCHANGED <<correctionComment, verifiedSquareMeters, roundState, rejectionCount>>
    BY <1>4 DEF AcceptOffer, rowUnchanged, roundVars
  <2>3. \A b \in Companies : offerStatus'[b] = "REJECTED" => offerStatus[b] = "REJECTED"
    BY <1>4 DEF AcceptOffer
  <2> QED BY <2>1, <2>2, <2>3 DEF sentRounds
<1>5. ASSUME NEW F \in SUBSET Files, NEW text \in Texts, OpenSubmission(F, text)
      PROVE  ColumnsTellTheStory'
  <2>1. sentRounds \subseteq sentRounds'
    <3>1. CASE UNCHANGED roundState
      BY <3>1 DEF sentRounds
    <3>2. ASSUME NEW r \in Round, isNext(r), roundState' = [roundState EXCEPT ![r] = "open"]
          PROVE  sentRounds \subseteq sentRounds'
      <4>1. roundState[r] = "none"
        BY <3>2 DEF isNext, hasRow, Round
      <4> QED BY <3>2, <4>1 DEF sentRounds, TypeOK
    <3> QED BY <1>5, <3>1, <3>2 DEF OpenSubmission, roundVars
  <2> QED BY <1>5, <2>1 DEF OpenSubmission, orderVars, offerVars
<1>6. ASSUME NEW c \in Companies, SubmitWork(c) PROVE ColumnsTellTheStory'
  <2>1. sentRounds \subseteq sentRounds'
    BY <1>6 DEF SubmitWork, sentRounds, TypeOK
  <2> QED BY <1>6, <2>1 DEF SubmitWork, workTransition, TypeOK
<1>7. ASSUME NEW c \in Companies, NEW text \in Texts \union {Null}, Confirm(c, text)
      PROVE  ColumnsTellTheStory'
  BY <1>7 DEF Confirm, workTransition, roundVars, sentRounds, TypeOK
<1>8. ASSUME NEW c \in Companies, NEW text \in Texts, Dispute(c, text)
      PROVE  ColumnsTellTheStory'
  <2>1. text # Null
    BY LifecycleAssumption
  <2>2. status = "AWAITING_COMPLETION_CONFIRMATION"
    BY <1>8, TableOfWork DEF Dispute, workTransition
  <2>3. UNCHANGED roundState /\ sentRounds # {}
    BY <1>8, <2>2 DEF Dispute, roundVars, RoundsFollowStatus
  <2> QED BY <1>8, <2>1, <2>2, <2>3 DEF Dispute, workTransition, sentRounds, TypeOK
<1>9. ASSUME NEW area \in Areas, VerifyArea(area) PROVE ColumnsTellTheStory'
  BY <1>9 DEF VerifyArea, mayVerifyArea, canVerifyArea, AREA_VERIFIABLE_ORDER_STATUSES,
       offerVars, roundVars, sentRounds
<1>10. CASE Create
  BY <1>10 DEF Create, offerVars, roundVars, sentRounds
<1>11. CASE \/ DayPasses
            \/ \E F \in SUBSET Files : AttachTaskFiles(F)
            \/ \E c \in Companies, t \in Terms : StartSubmit(c, t)
            \/ \E d \in drafts : DropSubmit(d)
            \/ \E c \in Companies : LoadOffer(c)
            \/ \E u \in uploads : DropUpload(u) \/ AttachWork(u)
            \/ \E n \in notices : MarkRead(n)
            \/ \E u \in Readers : MarkAllRead(u)
            \/ UNCHANGED vars
  <2>1. UNCHANGED <<status, correctionComment, verifiedSquareMeters, offerVars, roundState>>
    BY <1>11 DEF DayPasses, AttachTaskFiles, StartSubmit, DropSubmit, LoadOffer, DropUpload,
         AttachWork, MarkRead, MarkAllRead, vars, orderVars, roundVars
  <2> QED BY <2>1 DEF offerVars, sentRounds
<1> QED BY <1>1, <1>2, <1>3, <1>4, <1>5, <1>6, <1>7, <1>8, <1>9, <1>10, <1>11 DEF Next

\* What is known of any order of which a page has been loaded.
PageFacts ==
  /\ TypeOK /\ exists
  /\ SelectionConsistent /\ DealIsTheOffer /\ FinalRejectionHolds
  /\ RoundsFollowStatus /\ FilesHaveRounds
  /\ DoorsAgree /\ ButtonsAgree /\ FilesShownAreServed
  /\ ColumnsTellTheStory

\* As long as the client has not chosen, every offer is pending or gone.
LEMMA BeforeTheChoice ==
  ASSUME PageFacts, status \notin WorkStages
  PROVE  /\ status \in {"WAITING", "AWAITING_CONFIRMATION"} /\ acceptsOffers(status)
         /\ executors = {} /\ deal = Null
         /\ correctionComment = Null /\ verifiedSquareMeters = Null
         /\ (\E c \in Companies : offerStatus[c] = "SENT") <=> status = "AWAITING_CONFIRMATION"
         /\ \A c \in Companies :
              /\ offerStatus[c] \in {NoOffer, "SENT", "WITHDRAWN", "REJECTED"}
              /\ isActiveOffer(offerStatus[c]) <=> offerStatus[c] = "SENT"
              /\ ~isExecutorOffer(offerStatus[c])
              /\ maySubmit(c) <=> ~isFinallyRejected(offerStatus[c], rejectionCount[c])
              /\ inFeed(c) <=> maySubmit(c) /\ offerStatus[c] # "SENT"
<1> USE DEF PageFacts
<1>1. status \in {"WAITING", "AWAITING_CONFIRMATION"} /\ acceptsOffers(status)
  BY DEF exists, OrderStatus, WorkStages, acceptsOffers, OFFER_ELIGIBLE_ORDER_STATUSES
<1>2. \A c \in Companies : offerStatus[c] \in {NoOffer, "SENT", "WITHDRAWN", "REJECTED"}
  BY <1>1 DEF SelectionConsistent
<1>3. (\E c \in Companies : offerStatus[c] = "SENT") <=> status = "AWAITING_CONFIRMATION"
  BY <1>1 DEF SelectionConsistent, NoOffer
<1>4. executors = {}
  BY OneExecutor DEF executors
<1>5. deal = Null /\ correctionComment = Null /\ verifiedSquareMeters = Null
  <2>1. sentRounds = {}
    BY DEF RoundsFollowStatus, sentRounds, hasRow
  <2> QED BY <2>1 DEF DealIsTheOffer, ColumnsTellTheStory
<1>6. ASSUME NEW c \in Companies
      PROVE  /\ isActiveOffer(offerStatus[c]) <=> offerStatus[c] = "SENT"
             /\ ~isExecutorOffer(offerStatus[c])
  BY <1>2 DEF isActiveOffer, ACTIVE_OFFER_STATUSES, isExecutorOffer, EXECUTOR_OFFER_STATUSES,
       EXECUTING_OFFER_STATUSES, NoOffer
<1>7. ASSUME NEW c \in Companies
      PROVE  maySubmit(c) <=> ~isFinallyRejected(offerStatus[c], rejectionCount[c])
  <2>1. canTransition(status, "OFFER_SUBMITTED", offerStatus[c])
    BY <1>1, <1>2 DEF canTransition, ORDER_TRANSITIONS, OFFER_PRECONDITIONS, OrderStatus,
         OrderEventType, RESUBMITTABLE_OFFER_STATUSES, WORK_UPLOAD_ORDER_STATUSES
  <2> QED BY <2>1 DEF maySubmit
<1>8. \A c \in Companies : inFeed(c) <=> maySubmit(c) /\ offerStatus[c] # "SENT"
  BY DEF DoorsAgree
<1> QED BY <1>1, <1>2, <1>3, <1>4, <1>5, <1>6, <1>7, <1>8

\* From the choice on there is one executor, whose terms are the deal.
LEMMA DuringTheWork ==
  ASSUME PageFacts, status \in WorkStages
  PROVE  /\ ~acceptsOffers(status)
         /\ \A c \in Companies : ~maySubmit(c) /\ ~inFeed(c) /\ offerStatus[c] # "SENT"
         /\ \E x \in Companies :
              /\ executors = {x}
              /\ offerStatus[x] = executorStatus[status]
              /\ deal = proposed[x] /\ deal # Null
              /\ \A c \in Companies : isActiveOffer(offerStatus[c]) <=> c = x
              /\ \A c \in Companies : isExecutorOffer(offerStatus[c]) <=> c = x
<1> USE DEF PageFacts
<1>1. ~acceptsOffers(status)
  BY DEF WorkStages, acceptsOffers, OFFER_ELIGIBLE_ORDER_STATUSES
<1>2. ASSUME NEW c \in Companies PROVE ~maySubmit(c) /\ ~inFeed(c)
  BY <1>1, TableOfOffers DEF maySubmit, DoorsAgree, acceptsOffers
<1>3. PICK x \in Companies :
        /\ isExecutor(x) /\ offerStatus[x] = executorStatus[status]
        /\ \A b \in Companies \ {x} :
             /\ ~isExecutor(b)
             /\ offerStatus[b] \in {NoOffer, "WITHDRAWN", "REJECTED", "NOT_ACCEPTED"}
  BY OneExecutor
<1>4. executors = {x}
  BY <1>3 DEF executors
<1>5. deal = proposed[x] /\ deal # Null
  <2>1. offerStatus[x] # NoOffer
    BY <1>3, ExecutorStatuses DEF isExecutor
  <2> QED BY <1>3, <2>1, LifecycleAssumption DEF DealIsTheOffer, TypeOK
<1>6. ASSUME NEW c \in Companies
      PROVE  /\ isActiveOffer(offerStatus[c]) <=> c = x
             /\ isExecutorOffer(offerStatus[c]) <=> c = x
             /\ offerStatus[c] # "SENT"
  BY <1>3, ExecutorStatuses, ExecutorsAreActive DEF isExecutor, isActiveOffer,
     ACTIVE_OFFER_STATUSES, EXECUTOR_OFFER_STATUSES, EXECUTING_OFFER_STATUSES, NoOffer
<1> QED BY <1>1, <1>2, <1>3, <1>4, <1>5, <1>6

\* The requests about an offer in play, and those of the work.
LEMMA RequestsOfOffers ==
  ASSUME NEW c \in Companies
  PROVE  /\ "submitOffer" \in companyMay(c) <=> maySubmit(c)
         /\ "withdraw" \in companyMay(c) <=>
              status = "AWAITING_CONFIRMATION" /\ offerStatus[c] = "SENT"
         /\ "reject" \in clientMay(c) <=>
              status = "AWAITING_CONFIRMATION" /\ offerStatus[c] = "SENT"
         /\ "accept" \in clientMay(c) <=>
              /\ status = "AWAITING_CONFIRMATION" /\ offerStatus[c] = "SENT"
              /\ ~isOfferExpired(proposed[c].deadline, today)
<1>1. \A e \in {"OFFER_WITHDRAWN", "OFFER_REJECTED", "OFFER_ACCEPTED"} :
        moves(c, e) <=> status = "AWAITING_CONFIRMATION" /\ offerStatus[c] = "SENT"
  BY MovesOfOffers DEF moves, NoOffer
<1> QED BY <1>1 DEF companyMay, clientMay, CompanyButton, ClientButton

LEMMA RequestsOfWork ==
  ASSUME PageFacts, NEW c \in Companies
  PROVE  /\ "addFiles" \in companyMay(c) <=> isExecutor(c) /\ canUploadWork(status)
         /\ "verifyArea" \in companyMay(c) <=> isExecutor(c) /\ canVerifyArea(status)
         /\ "submitWork" \in companyMay(c) <=>
              isExecutor(c) /\ canUploadWork(status) /\ \E r \in Round : maySubmitRound(r)
         /\ \A b \in {"confirm", "dispute"} :
              b \in clientMay(c) <=> isExecutor(c) /\ status = "AWAITING_COMPLETION_CONFIRMATION"
<1>1. mayEnter(c, "EXECUTOR") <=> isExecutor(c)
  BY Viewers DEF mayEnter, isExecutor, PageFacts
<1>2. isExecutor(c) => status \in WorkStages /\ offerStatus[c] = executorStatus[status]
  BY OneExecutor DEF PageFacts
<1>3. isExecutor(c) => (moves(c, "WORK_SUBMITTED") <=> canUploadWork(status))
  BY <1>2, ExecutorStatuses DEF moves, canTransition, ORDER_TRANSITIONS, OFFER_PRECONDITIONS,
     OrderStatus, OrderEventType, canUploadWork, WORK_UPLOAD_ORDER_STATUSES, WorkStages, NoOffer
<1>4. \A e \in {"WORK_CONFIRMED", "WORK_DISPUTED"} :
        isExecutor(c) => (moves(c, e) <=> status = "AWAITING_COMPLETION_CONFIRMATION")
  BY <1>2, ExecutorStatuses DEF moves, canTransition, ORDER_TRANSITIONS, OFFER_PRECONDITIONS,
     OrderStatus, OrderEventType, WORK_UPLOAD_ORDER_STATUSES, WorkStages, NoOffer
<1> QED BY <1>1, <1>3, <1>4 DEF companyMay, clientMay, CompanyButton, ClientButton, mayVerifyArea

\* Who is looking, as the page makes it out, is who it is.
LEMMA ReaderKnown ==
  ASSUME NEW u \in Users
  PROVE  /\ isOwner(toOrderDetail(u), u) <=> u = Client
         /\ ownOffer(toOrderDetail(u), u) =
              IF u = Client \/ offerStatus[u] = NoOffer THEN {} ELSE {OfferDto(u)}
         /\ isExecutorHere(toOrderDetail(u), u) <=> u \in executors
         /\ isPartyHere(toOrderDetail(u), u) <=> isParty(u)
         /\ isParty(u) <=> u = Client \/ u \in executors
         /\ seesRealStatus(toOrderDetail(u), u) <=> u = Client \/ isActiveOffer(offerStatus[u])
         /\ u # Client => u \in Companies
<1>1. CASE u = Client
  <2>1. \A c \in Companies : OfferDto(c).company # Client
    BY Viewers DEF OfferDto
  <2>2. isOwner(toOrderDetail(u), u) /\ ownOffer(toOrderDetail(u), u) = {}
    BY <1>1, <2>1, ClientInDetail DEF ownOffer
  <2>3. u \notin executors /\ isParty(u)
    BY <1>1, Viewers DEF executors, isParty
  <2> QED BY <1>1, <2>2, <2>3 DEF isExecutorHere, isPartyHere, seesRealStatus
<1>2. CASE u \in Companies
  <2>1. /\ u # Client /\ ~isOwner(toOrderDetail(u), u)
        /\ ownOffer(toOrderDetail(u), u) = IF offerStatus[u] = NoOffer THEN {} ELSE {OfferDto(u)}
        /\ OfferDto(u).status = offerStatus[u]
        /\ u \in executors <=> isExecutorOffer(offerStatus[u])
        /\ isParty(u) <=> isExecutorOffer(offerStatus[u])
    BY <1>2, Viewers, OwnOfferInDetail DEF OfferDto, executors, isExecutor, isParty
  <2>2. isExecutorHere(toOrderDetail(u), u) <=> isExecutorOffer(offerStatus[u])
    BY <2>1, ExecutorsAreActive DEF isExecutorHere
  <2>3. seesRealStatus(toOrderDetail(u), u) <=> isActiveOffer(offerStatus[u])
    BY <2>1, ExecutorsAreActive DEF seesRealStatus
  <2> QED BY <1>2, <2>1, <2>2, <2>3 DEF isPartyHere
<1> QED BY <1>1, <1>2, Viewers

\* Words that more than one card says.
LEMMA CommonWords ==
  ASSUME PageFacts, NEW u
  PROVE  /\ status = "WAITING" => holds("companies-see-it-in-the-feed", u)
         /\ status \in WorkStages => holds("executor-chosen-terms-fixed", u)
         /\ status = "AWAITING_COMPLETION_CONFIRMATION" => holds("the-client-decides", u)
         /\ status = "COMPLETION_DISPUTED" => holds("back-with-the-comment", u)
         /\ status = "COMPLETED" => holds("files-stay", u) /\ holds("work-accepted", u)
<1>1. ASSUME status = "WAITING" PROVE holds("companies-see-it-in-the-feed", u)
  <2>1. \A c \in Companies : inFeed(c) \/ isFinallyRejected(offerStatus[c], rejectionCount[c])
    BY <1>1, BeforeTheChoice DEF WorkStages
  <2> QED BY <2>1 DEF holds
<1>2. ASSUME status \in WorkStages PROVE holds("executor-chosen-terms-fixed", u)
  <2>1. \E c \in executors : deal = proposed[c] /\ ~maySubmit(c) /\ executors = {c}
    BY <1>2, DuringTheWork
  <2> QED BY <2>1 DEF holds
<1>3. ASSUME status = "AWAITING_COMPLETION_CONFIRMATION" PROVE holds("the-client-decides", u)
  <2>1. PICK x \in Companies : x \in executors
    BY <1>3, DuringTheWork DEF WorkStages
  <2>2. {"confirm", "dispute"} \subseteq clientMay(x)
    BY <1>3, <2>1, RequestsOfWork DEF executors
  <2> QED BY <2>1, <2>2 DEF holds
<1>4. ASSUME status = "COMPLETION_DISPUTED" PROVE holds("back-with-the-comment", u)
  <2>1. PICK x \in Companies : x \in executors
    BY <1>4, DuringTheWork DEF WorkStages
  <2>2. "addFiles" \in companyMay(x)
    BY <1>4, <2>1, RequestsOfWork DEF executors, canUploadWork, WORK_UPLOAD_ORDER_STATUSES
  <2>3. correctionComment # Null
    BY <1>4 DEF PageFacts, ColumnsTellTheStory
  <2> QED BY <2>1, <2>2, <2>3 DEF holds
<1>5. ASSUME status = "COMPLETED" PROVE holds("files-stay", u) /\ holds("work-accepted", u)
  <2>1. ASSUME NEW f \in orderFiles, NEW p \in executors \union {Client}
        PROVE  f \in documents(p) /\ assertFileAccess(p, f.ownerType)
    <3>1. f.ownerType = "CLIENT" \/ f.ownerType = "COMPANY"
      BY DEF orderFiles
    <3>2. CASE p = Client
      BY <3>2 DEF documents, assertFileAccess, PageFacts
    <3>3. CASE p \in executors
      BY <3>3, Viewers DEF documents, assertFileAccess, companySeesTaskFiles, executors, isExecutor,
         PageFacts
    <3> QED BY <3>2, <3>3
  <2>2. noneOpen /\ sentRounds # {}
    BY <1>5 DEF PageFacts, RoundsFollowStatus
  <2> QED BY <1>5, <2>1, <2>2 DEF holds
<1> QED BY <1>1, <1>2, <1>3, <1>4, <1>5

-----------------------------------------------------------------------------
(* What each card says *)

LEMMA TaskCard ==
  ASSUME PageFacts, NEW u \in Users, NEW w \in cardWords("task", toOrderDetail(u), u)
  PROVE  holds(w, u)
<1>1. w = "made-precise-by-the-executor" /\ toOrderDetail(u).verifiedSquareMeters # Null
  BY DEF cardWords, taskWords
<1>2. verifiedSquareMeters # Null
  BY <1>1 DEF toOrderDetail, shown
<1>3. executors # {}
  BY <1>2, DuringTheWork DEF PageFacts, ColumnsTellTheStory
<1> QED BY <1>1, <1>2, <1>3 DEF holds

LEMMA ClientFilesCard ==
  ASSUME PageFacts, NEW u \in Users, NEW w \in cardWords("clientFiles", toOrderDetail(u), u)
  PROVE  holds(w, u)
<1>1. w = "no-task-files" /\ clientFiles(toOrderDetail(u)) = {}
  BY DEF cardWords
<1>2. ASSUME NEW f \in taskFiles, assertFileAccess(u, "CLIENT") PROVE FALSE
  <2> DEFINE file == [ownerType |-> "CLIENT", round |-> 0, content |-> f]
  <2>1. file \in orderFiles /\ file.ownerType = "CLIENT"
    BY DEF orderFiles
  <2>2. file \in visibleFiles(u)
    BY <1>2, <2>1 DEF PageFacts, FilesShownAreServed, getDownloadUrl
  <2>3. toOrderDetail(u).files = visibleFiles(u)
    BY DEF toOrderDetail
  <2> QED BY <1>1, <2>1, <2>2, <2>3 DEF clientFiles
<1> QED BY <1>1, <1>2 DEF holds

LEMMA DecisionsCard ==
  ASSUME PageFacts, "decisions" \in shownCards(toOrderDetail(Client), Client),
         NEW w \in cardWords("decisions", toOrderDetail(Client), Client)
  PROVE  holds(w, Client)
<1> DEFINE detail == toOrderDetail(Client)
<1>1. ASSUME NEW c \in Companies, isActiveOffer(offerStatus[c]) PROVE OfferDto(c) \in detail.offers
  BY <1>1, ClientInDetail
<1>2. executorOffer(detail, Client) = {}
  BY DEF shownCards, Card
<1>3. status \notin WorkStages
  <2>1. ASSUME NEW x \in Companies, isExecutorOffer(offerStatus[x]) PROVE FALSE
    <3>1. OfferDto(x) \in detail.offers /\ OfferDto(x).status = offerStatus[x]
      BY <1>1, <2>1, ExecutorsAreActive DEF OfferDto
    <3> QED BY <1>2, <2>1, <3>1, ClientInDetail DEF executorOffer
  <2> QED BY <2>1, DuringTheWork
<1>4. CASE w = "companies-see-it-in-the-feed" /\ decisions(detail, Client) = {}
  <2>1. ASSUME NEW c \in Companies, offerStatus[c] = "SENT" PROVE FALSE
    <3>1. OfferDto(c) \in detail.offers /\ OfferDto(c).status = "SENT"
      BY <1>1, <1>3, <2>1, BeforeTheChoice DEF OfferDto
    <3> QED BY <1>4, <3>1, ClientInDetail DEF decisions, isPendingOffer
  <2>2. status = "WAITING"
    BY <1>3, <2>1, BeforeTheChoice
  <2> QED BY <1>4, <2>2, CommonWords
<1>5. CASE w = "an-expired-offer-may-be-renewed"
  <2>1. \A c \in Companies : "reject" \in clientMay(c) => maySubmit(c)
    BY <1>3, BeforeTheChoice, RequestsOfOffers DEF isFinallyRejected
  <2> QED BY <1>5, <2>1 DEF holds
<1> QED BY <1>4, <1>5 DEF cardWords, decisionWords

LEMMA ExecutorOfferCard ==
  ASSUME PageFacts, "executorOffer" \in shownCards(toOrderDetail(Client), Client),
         NEW w \in cardWords("executorOffer", toOrderDetail(Client), Client)
  PROVE  holds(w, Client)
<1>1. w = "executor-chosen-terms-fixed"
  BY DEF cardWords
<1>2. PICK o \in toOrderDetail(Client).offers : isExecutorOffer(o.status)
  BY DEF shownCards, Card, executorOffer
<1>3. PICK c \in Companies : o = OfferDto(c)
  BY <1>2, ClientInDetail
<1>4. isExecutorOffer(offerStatus[c])
  BY <1>2, <1>3 DEF OfferDto
<1>5. status \in WorkStages
  BY <1>4, BeforeTheChoice
<1> QED BY <1>1, <1>5, CommonWords

\* A request meets no objection of the machine but those it makes by name.
LEMMA NoObjection ==
  ASSUME exists, NEW event, canTransition(status, event.type, event.offerStatus),
         ~isOut(event), ~isLate(event), ~isChanged(event)
  PROVE  refusal(contextOf, event) = "none"
  BY ContextFields DEF refusal, isForbidden, isBadOffer, canTransition

LEMMA SubmissionAccepted ==
  ASSUME exists, NEW c \in Companies
  PROVE  accepted(submitRequest(c), c) <=> maySubmit(c)
<1> DEFINE event == buildEvent(submitRequest(c), c)
<1>1. /\ event.type = "OFFER_SUBMITTED" /\ event.offerStatus = offerStatus[c]
      /\ event.rejectionCount = rejectionCount[c]
  BY DEF buildEvent, submitRequest
<1> HIDE DEF event
<1>2. ~isLate(event) /\ ~isChanged(event)
  BY <1>1 DEF isLate, isChanged
<1>3. isOut(event) <=> isFinallyRejected(offerStatus[c], rejectionCount[c])
  BY <1>1 DEF isOut
<1>4. ASSUME maySubmit(c) PROVE refusal(contextOf, event) = "none"
  BY <1>1, <1>2, <1>3, <1>4, NoObjection DEF maySubmit
<1>5. ASSUME refusal(contextOf, event) = "none" PROVE maySubmit(c)
  BY <1>1, <1>3, <1>5, NothingRefused, ContextFields DEF maySubmit, canTransition, exists
<1> QED BY <1>4, <1>5 DEF accepted, event

\* What the dialog of an offer calls itself.
LEMMA DialogIsCalledRight ==
  ASSUME PageFacts, NEW c \in Companies, maySubmit(c)
  PROVE  holds(offerDialogWord(c), c)
<1>1. status \notin WorkStages
  BY DuringTheWork
<1>2. CASE offerStatus[c] = "SENT"
  <2>1. "withdraw" \in companyMay(c)
    BY <1>1, <1>2, BeforeTheChoice, RequestsOfOffers
  <2> QED BY <1>2, <2>1 DEF offerDialogWord, holds
<1>3. CASE offerStatus[c] # "SENT"
  <2>1. ~isActiveOffer(offerStatus[c]) /\ accepted(submitRequest(c), c)
    BY <1>1, <1>3, BeforeTheChoice, SubmissionAccepted DEF PageFacts
  <2> QED BY <1>3, <2>1 DEF offerDialogWord, holds
<1> QED BY <1>2, <1>3

\* What a company is told of its offer, with or without the flag canSubmitOffer.
LEMMA HintsHold ==
  ASSUME PageFacts, NEW c \in Companies, offerStatus[c] # NoOffer,
         NEW can \in BOOLEAN, can => maySubmit(c), NEW w \in offerHint(OfferDto(c), can)
  PROVE  holds(w, c)
<1>1. OfferDto(c).status = offerStatus[c] /\ OfferDto(c).rejectionCount = rejectionCount[c]
  BY DEF OfferDto
<1>2. offerStatus[c] \in OfferStatus /\ rejectionCount[c] \in Nat
  BY DEF PageFacts, TypeOK
<1>3. isExecutorOffer(offerStatus[c]) =>
        /\ c \in executors /\ status \in WorkStages /\ offerStatus[c] = executorStatus[status]
  <2>1. ASSUME isExecutorOffer(offerStatus[c]) PROVE status \in WorkStages
    BY <2>1, BeforeTheChoice
  <2> QED BY <2>1, DuringTheWork DEF executors, isExecutor
<1>4. CASE offerStatus[c] = "SENT"
  BY <1>1, <1>4 DEF offerHint
<1>5. CASE offerStatus[c] = "ACCEPTED"
  <2>1. w = "you-may-start"
    BY <1>1, <1>5 DEF offerHint
  <2>2. c \in executors /\ status = "IN_PROGRESS"
    BY <1>3, <1>5, ExecutorStatuses DEF WorkStages
  <2>3. "addFiles" \in companyMay(c)
    BY <2>2, RequestsOfWork DEF executors, canUploadWork, WORK_UPLOAD_ORDER_STATUSES
  <2> QED BY <2>1, <2>3 DEF holds
<1>6. CASE offerStatus[c] = "WORK_SUBMITTED"
  <2>1. w = "the-client-decides"
    BY <1>1, <1>6 DEF offerHint
  <2>2. status = "AWAITING_COMPLETION_CONFIRMATION"
    BY <1>3, <1>6, ExecutorStatuses DEF WorkStages
  <2> QED BY <2>1, <2>2, CommonWords
<1>7. CASE offerStatus[c] = "BACK_FOR_OVERRIDE"
  <2>1. w = "back-with-the-comment"
    BY <1>1, <1>7 DEF offerHint
  <2>2. status = "COMPLETION_DISPUTED"
    BY <1>3, <1>7, ExecutorStatuses DEF WorkStages
  <2> QED BY <2>1, <2>2, CommonWords
<1>8. CASE offerStatus[c] = "COMPLETED"
  <2>1. w = "work-accepted"
    BY <1>1, <1>8 DEF offerHint
  <2>2. status = "COMPLETED"
    BY <1>3, <1>8, ExecutorStatuses DEF WorkStages
  <2> QED BY <2>1, <2>2, CommonWords
<1>9. CASE offerStatus[c] = "NOT_ACCEPTED"
  <2>1. w = "another-was-chosen"
    BY <1>1, <1>9 DEF offerHint
  <2>2. status \in WorkStages
    BY <1>9, BeforeTheChoice DEF NoOffer
  <2>3. executors \ {c} # {}
    BY <1>9, <2>2, DuringTheWork, ExecutorStatuses
  <2> QED BY <2>1, <2>3 DEF holds
<1>10. CASE offerStatus[c] = "WITHDRAWN"
  <2>1. CASE can
    <3>1. w = "may-be-sent-again"
      BY <1>1, <1>10, <2>1 DEF offerHint
    <3> QED BY <2>1, <3>1 DEF holds
  <2>2. CASE ~can
    <3>1. w = "in-the-feed-if-searching"
      BY <1>1, <1>10, <2>2 DEF offerHint
    <3>2. acceptsOffers(status) => inFeed(c)
      BY <1>10 DEF inFeed
    <3> QED BY <3>1, <3>2 DEF holds
  <2> QED BY <2>1, <2>2
<1>11. CASE offerStatus[c] = "REJECTED"
  <2>1. CASE isFinallyRejected(offerStatus[c], rejectionCount[c])
    <3>1. w = "never-again"
      BY <1>1, <1>11, <2>1 DEF offerHint
    <3>2. ~maySubmit(c) /\ ~inFeed(c)
      BY <2>1 DEF maySubmit, PageFacts, DoorsAgree
    <3> QED BY <3>1, <3>2 DEF holds
  <2>2. CASE ~isFinallyRejected(offerStatus[c], rejectionCount[c]) /\ can
    <3>1. w = "once-more"
      BY <1>1, <1>11, <2>2 DEF offerHint
    <3>2. rejectionCount[c] + 1 = MAX_OFFER_REJECTIONS
      BY <1>2, <1>11, <2>2 DEF isFinallyRejected, MAX_OFFER_REJECTIONS, PageFacts,
         ColumnsTellTheStory
    <3> QED BY <2>2, <3>1, <3>2 DEF holds
  <2>3. CASE ~isFinallyRejected(offerStatus[c], rejectionCount[c]) /\ ~can
    <3>1. w = "in-the-feed-if-searching"
      BY <1>1, <1>11, <2>3 DEF offerHint
    <3>2. acceptsOffers(status) => inFeed(c)
      BY <1>2, <1>11, <2>3 DEF inFeed, isFinallyRejected, MAX_OFFER_REJECTIONS
    <3> QED BY <3>1, <3>2 DEF holds
  <2> QED BY <2>1, <2>2, <2>3
<1> QED BY <1>2, <1>4, <1>5, <1>6, <1>7, <1>8, <1>9, <1>10, <1>11 DEF OfferStatus

LEMMA OfferFlag ==
  ASSUME PageFacts, NEW u \in Users
  PROVE  mayOffer(toOrderDetail(u), u) <=> u # Client /\ maySubmit(u)
<1>1. toOrderDetail(u).canSubmitOffer = (u # Client /\ canSubmitOffer(u))
  BY DEF toOrderDetail
<1> QED BY <1>1, ReaderKnown DEF mayOffer, PageFacts, DoorsAgree

LEMMA OwnOfferCard ==
  ASSUME PageFacts, NEW u \in Users, "ownOffer" \in shownCards(toOrderDetail(u), u),
         NEW w \in cardWords("ownOffer", toOrderDetail(u), u)
  PROVE  holds(w, u)
<1> DEFINE detail == toOrderDetail(u)
<1>1. ~isOwner(detail, u) /\ ownOffer(detail, u) # {}
  BY DEF shownCards, Card
<1>2. u \in Companies /\ offerStatus[u] # NoOffer /\ ownOffer(detail, u) = {OfferDto(u)}
  BY <1>1, ReaderKnown
<1>3. CASE mayOffer(detail, u) /\ w = offerDialogWord(u)
  BY <1>2, <1>3, OfferFlag, DialogIsCalledRight
<1>4. CASE w \in UNION {offerHint(o, mayOffer(detail, u) /\ ~isPendingOffer(o.status))
                          : o \in {x \in ownOffer(detail, u) : ~isExecutorOffer(x.status)}}
  <2> DEFINE can == mayOffer(detail, u) /\ ~isPendingOffer(OfferDto(u).status)
  <2>1. w \in offerHint(OfferDto(u), can)
    BY <1>2, <1>4
  <2>2. can \in BOOLEAN /\ (can => maySubmit(u))
    BY OfferFlag
  <2> HIDE DEF can
  <2> QED BY <1>2, <2>1, <2>2, HintsHold
<1>5. w \in ownOfferWords(detail, u)
  BY DEF cardWords
<1> QED BY <1>3, <1>4, <1>5 DEF ownOfferWords

LEMMA SubmitOfferCard ==
  ASSUME PageFacts, NEW u \in Users, "submitOffer" \in shownCards(toOrderDetail(u), u),
         NEW w \in cardWords("submitOffer", toOrderDetail(u), u)
  PROVE  holds(w, u)
<1>1. ownOffer(toOrderDetail(u), u) = {} /\ mayOffer(toOrderDetail(u), u)
  BY DEF shownCards, Card
<1>2. offerStatus[u] = NoOffer
  BY <1>1, OfferFlag, ReaderKnown
<1>3. w = "no-offer-yet"
  BY DEF cardWords
<1> QED BY <1>2, <1>3 DEF holds

\* Files of a round in preparation are there for the page as for the server.
LEMMA OpenFilesOnPage ==
  ASSUME PageFacts, NEW u \in Users, isParty(u)
  PROVE  openFiles(toOrderDetail(u)) # {} <=> \E r \in Round : maySubmitRound(r)
<1> DEFINE detail == toOrderDetail(u)
<1>1. /\ openRound(detail) \subseteq Round
      /\ \A r \in Round : /\ companyFiles(detail, r) # {} <=> roundFiles[r] # {}
                          /\ r \in openRound(detail) <=> isOpen(r)
  BY RoundsOnPage DEF PageFacts, openRound
<1> HIDE DEF detail
<1>2. openFiles(detail) # {} <=> \E r \in openRound(detail) : companyFiles(detail, r) # {}
  BY DEF openFiles
<1> QED BY <1>1, <1>2 DEF maySubmitRound, detail

LEMMA WorkCard ==
  ASSUME PageFacts, NEW u \in Users, "work" \in shownCards(toOrderDetail(u), u),
         NEW w \in cardWords("work", toOrderDetail(u), u)
  PROVE  holds(w, u)
<1> DEFINE detail == toOrderDetail(u)
<1>1. isExecutorHere(detail, u)
  BY DEF shownCards, Card
<1>2. u \in executors /\ u \in Companies /\ isExecutor(u) /\ isParty(u)
  BY <1>1, ReaderKnown DEF executors
<1>3. detail.item.status = status /\ status \in WorkStages
  BY <1>2, PartyGets, OneExecutor DEF PageFacts
<1> DEFINE filesOpen == openFiles(detail) # {}
<1>4. filesOpen <=> \E r \in Round : maySubmitRound(r)
  BY <1>2, OpenFilesOnPage
<1>5. w = workHint(detail.item.status, filesOpen)
  BY DEF cardWords
<1> HIDE DEF filesOpen
<1>6. CASE status = "AWAITING_COMPLETION_CONFIRMATION"
  <2>1. w = "no-files-until-it-is-back"
    BY <1>3, <1>5, <1>6 DEF workHint
  <2>2. "addFiles" \notin companyMay(u) /\ \E c \in executors : "dispute" \in clientMay(c)
    BY <1>2, <1>6, RequestsOfWork DEF canUploadWork, WORK_UPLOAD_ORDER_STATUSES
  <2> QED BY <2>1, <2>2 DEF holds
<1>7. CASE status = "COMPLETED"
  <2>1. w = "files-stay"
    BY <1>3, <1>5, <1>7 DEF workHint
  <2> QED BY <1>7, <2>1, CommonWords
<1>8. CASE status \in {"IN_PROGRESS", "COMPLETION_DISPUTED"}
  <2>1. canUploadWork(status)
    BY <1>8 DEF canUploadWork, WORK_UPLOAD_ORDER_STATUSES
  <2>2. w = IF filesOpen THEN "the-client-sees-the-files-submit-them" ELSE "load-files-first"
    BY <1>3, <1>5, <1>8 DEF workHint
  <2>3. CASE filesOpen
    <3>1. "submitWork" \in companyMay(u)
      BY <1>2, <1>4, <2>1, <2>3, RequestsOfWork
    <3>2. ASSUME NEW r \in Round, isOpen(r)
          PROVE  companyFiles(toOrderDetail(Client), r) # {}
      <4>1. PICK q \in Round : maySubmitRound(q)
        BY <1>4, <2>3
      <4>2. q = r
        BY <3>2, <4>1, LifecycleAssumption DEF maySubmitRound, isOpen, Round
      <4>3. Client \in Users /\ isParty(Client)
        BY DEF Users, isParty
      <4> QED BY <4>1, <4>2, <4>3, RoundsOnPage DEF maySubmitRound, PageFacts
    <3>3. w = "the-client-sees-the-files-submit-them"
      BY <2>2, <2>3
    <3> QED BY <3>1, <3>2, <3>3 DEF holds
  <2>4. CASE ~filesOpen
    <3>1. "addFiles" \in companyMay(u) /\ "submitWork" \notin companyMay(u)
      BY <1>2, <1>4, <2>1, <2>4, RequestsOfWork
    <3>2. w = "load-files-first"
      BY <2>2, <2>4
    <3> QED BY <3>1, <3>2 DEF holds
  <2> QED BY <2>3, <2>4
<1> QED BY <1>3, <1>6, <1>7, <1>8 DEF WorkStages

LEMMA CompletionCard ==
  ASSUME PageFacts, NEW u \in Users, "completion" \in shownCards(toOrderDetail(u), u),
         NEW w \in cardWords("completion", toOrderDetail(u), u)
  PROVE  holds(w, u)
<1> DEFINE detail == toOrderDetail(u)
<1>1. isParty(u)
  BY ReaderKnown DEF shownCards, Card
<1>2. /\ detail.item.status = status /\ detail.correctionComment = correctionComment
      /\ isOwner(detail, u) <=> u = Client
  BY <1>1, PartyGets, ReaderKnown
<1>3. w \in completionWords(detail, u)
  BY DEF cardWords
<1> HIDE DEF detail
<1>4. CASE w = "was-sent-back" /\ correctionComment # Null
  BY <1>4 DEF holds, PageFacts, ColumnsTellTheStory
<1>5. CASE hasCompletionHint(status) /\ w = completionHint(status, isOwner(detail, u))
  <2>1. status \in {"AWAITING_COMPLETION_CONFIRMATION", "COMPLETION_DISPUTED", "COMPLETED"}
    BY <1>5 DEF hasCompletionHint, hasWorkHint, acceptsOffers, OFFER_ELIGIBLE_ORDER_STATUSES,
         PageFacts, exists, OrderStatus
  <2>2. CASE status = "AWAITING_COMPLETION_CONFIRMATION"
    BY <1>5, <2>2, CommonWords DEF completionHint
  <2>3. CASE status = "COMPLETED"
    BY <1>5, <2>3, CommonWords DEF completionHint
  <2>4. CASE status = "COMPLETION_DISPUTED" /\ u # Client
    BY <1>2, <1>5, <2>4, CommonWords DEF completionHint
  <2>5. CASE status = "COMPLETION_DISPUTED" /\ u = Client
    <3>1. w = "to-be-decided-after-the-next-submission"
      BY <1>2, <1>5, <2>5 DEF completionHint
    <3>2. \A c \in executors : "confirm" \notin clientMay(c) /\ "addFiles" \in companyMay(c)
      BY <2>5, RequestsOfWork DEF executors, canUploadWork, WORK_UPLOAD_ORDER_STATUSES
    <3> QED BY <3>1, <3>2 DEF holds
  <2> QED BY <2>1, <2>2, <2>3, <2>4, <2>5
<1> QED BY <1>2, <1>3, <1>4, <1>5 DEF completionWords

LEMMA SubmissionsCard ==
  ASSUME PageFacts, NEW u \in Users, "submissions" \in shownCards(toOrderDetail(u), u),
         NEW w \in cardWords("submissions", toOrderDetail(u), u)
  PROVE  holds(w, u)
<1> DEFINE detail == toOrderDetail(u)
<1>1. isParty(u)
  BY ReaderKnown DEF shownCards, Card
<1>2. /\ shownRounds(detail) = {q \in Round : hasRow(q)}
      /\ openRound(detail) \subseteq Round
      /\ \A r \in Round : r \in openRound(detail) <=> isOpen(r)
  BY <1>1, RoundsOnPage DEF PageFacts, openRound
<1>3. w \in submissionWords(detail)
  BY DEF cardWords
<1> HIDE DEF detail
<1>4. CASE w = "no-work-files-yet" /\ shownRounds(detail) = {}
  <2>1. \A r \in Round : ~hasRow(r) /\ roundFiles[r] = {}
    BY <1>2, <1>4 DEF PageFacts, FilesHaveRounds
  <2> QED BY <1>4, <2>1 DEF holds
<1>5. CASE w = "being-prepared" /\ openRound(detail) # {}
  <2>1. PICK r \in Round : isOpen(r)
    BY <1>2, <1>5
  <2>2. status \in {"IN_PROGRESS", "COMPLETION_DISPUTED"}
    BY <2>1 DEF PageFacts, RoundsFollowStatus, isOpen, hasRow, noneOpen, WorkStages
  <2>3. PICK x \in Companies : x \in executors
    BY <2>2, DuringTheWork DEF WorkStages
  <2>4. "addFiles" \in companyMay(x)
    BY <2>2, <2>3, RequestsOfWork DEF executors, canUploadWork, WORK_UPLOAD_ORDER_STATUSES
  <2> QED BY <1>5, <2>3, <2>4 DEF holds
<1>6. CASE w = "was-submitted"
  BY <1>6 DEF holds, PageFacts, RoundsFollowStatus
<1>7. CASE w = "history"
  <2>1. ASSUME NEW q \in Round, NEW r \in Round, q < r, hasRow(r) PROVE q \in sentRounds
    BY <2>1 DEF PageFacts, RoundsFollowStatus, sentRounds, Round
  <2> QED BY <1>7, <2>1 DEF holds
<1> QED BY <1>3, <1>4, <1>5, <1>6, <1>7 DEF submissionWords

LEMMA ClientCard ==
  ASSUME PageFacts, NEW u \in Users, "client" \in shownCards(toOrderDetail(u), u),
         NEW w \in cardWords("client", toOrderDetail(u), u)
  PROVE  holds(w, u)
<1>1. isExecutorHere(toOrderDetail(u), u)
  BY DEF shownCards, Card
<1>2. w = "contacts-open-to-the-executor" /\ isExecutor(u)
  BY <1>1, ReaderKnown DEF cardWords, executors
<1> QED BY <1>2 DEF holds

LEMMA AreaCard ==
  ASSUME PageFacts, NEW u \in Users, "area" \in shownCards(toOrderDetail(u), u),
         NEW w \in cardWords("area", toOrderDetail(u), u)
  PROVE  holds(w, u)
<1>1. u \in executors /\ u \in Companies /\ isExecutor(u)
  BY ReaderKnown DEF shownCards, Card, executors
<1>2. toOrderDetail(u).verifiedSquareMeters = verifiedSquareMeters
  BY <1>1, ReaderKnown, PartyGets
<1>3. w \in areaWords(toOrderDetail(u))
  BY DEF cardWords
<1>4. CASE w = "make-the-area-precise"
  <2>1. status \in WorkStages
    BY <1>1, OneExecutor DEF PageFacts
  <2>2. "verifyArea" \in companyMay(u) \/ status = "COMPLETED"
    BY <1>1, <2>1, RequestsOfWork DEF WorkStages, canVerifyArea, AREA_VERIFIABLE_ORDER_STATUSES
  <2> QED BY <1>4, <2>2 DEF holds
<1>5. CASE w = "you-made-it-precise" /\ verifiedSquareMeters # Null
  BY <1>1, <1>5 DEF holds
<1> QED BY <1>2, <1>3, <1>4, <1>5 DEF areaWords

LEMMA NowCard ==
  ASSUME PageFacts, NEW u \in Users, "now" \in shownCards(toOrderDetail(u), u),
         NEW w \in cardWords("now", toOrderDetail(u), u)
  PROVE  holds(w, u)
<1> DEFINE detail == toOrderDetail(u)
<1>1. u = Client \/ (u \in Companies /\ isActiveOffer(offerStatus[u]))
  BY ReaderKnown DEF shownCards, Card
<1>2. seesProgress(u) /\ (isOwner(detail, u) <=> u = Client)
  BY <1>1, ReaderKnown, Viewers DEF seesProgress
<1>3. detail.item.status = status /\ detail.item.deal = deal
  BY <1>2 DEF toOrderDetail, toOrderListItem, shown
<1>4. w \in nowWords(detail, u)
  BY DEF cardWords
<1> HIDE DEF detail
<1>5. status \in WorkStages /\ u # Client => u \in executors /\ isExecutor(u) /\ deal = proposed[u]
  BY <1>1, DuringTheWork DEF executors
<1>6. CASE w = "price-deadline-and-contractor" /\ deal # Null
  <2>1. status \in WorkStages
    BY <1>6, BeforeTheChoice
  <2>2. isParty(u)
    BY <1>1, <1>5, <2>1, ReaderKnown
  <2>3. toOrderListItem(u).contractors = executors
    BY <2>2 DEF toOrderListItem, executors
  <2> QED BY <1>6, <2>3 DEF holds
<1>7. CASE u = Client /\ w = clientText(status)
  <2>1. CASE status = "AWAITING_CONFIRMATION"
    <3>1. w = "offers-keep-coming"
      BY <1>7, <2>1 DEF clientText
    <3>2. acceptsOffers(status) /\ \A c \in Companies : offerStatus[c] = NoOffer => inFeed(c)
      BY <2>1 DEF inFeed, acceptsOffers, OFFER_ELIGIBLE_ORDER_STATUSES
    <3> QED BY <3>1, <3>2 DEF holds
  <2>2. CASE status = "WAITING"
    BY <1>7, <2>2, CommonWords DEF clientText
  <2>3. CASE status = "IN_PROGRESS"
    BY <1>7, <2>3, CommonWords DEF clientText, WorkStages
  <2>4. CASE status = "AWAITING_COMPLETION_CONFIRMATION"
    BY <1>7, <2>4, CommonWords DEF clientText
  <2>5. CASE status = "COMPLETION_DISPUTED"
    BY <1>7, <2>5, CommonWords DEF clientText
  <2>6. CASE status = "COMPLETED"
    BY <1>7, <2>6, CommonWords DEF clientText
  <2> QED BY <2>1, <2>2, <2>3, <2>4, <2>5, <2>6 DEF PageFacts, exists, OrderStatus
<1>8. CASE u # Client /\ w = companyText(status)
  <2>1. CASE status = "WAITING"
    BY <1>1, <1>8, <2>1, BeforeTheChoice DEF WorkStages
  <2>2. CASE status = "AWAITING_CONFIRMATION"
    <3>1. w = "terms-may-be-changed-or-withdrawn"
      BY <1>8, <2>2 DEF companyText
    <3>2. u \in Companies /\ offerStatus[u] = "SENT" /\ maySubmit(u)
      BY <1>1, <1>8, <2>2, BeforeTheChoice DEF WorkStages, isFinallyRejected
    <3>3. {"submitOffer", "withdraw"} \subseteq companyMay(u)
      BY <2>2, <3>2, RequestsOfOffers
    <3> QED BY <3>1, <3>3 DEF holds
  <2>3. CASE status = "IN_PROGRESS"
    <3>1. w = "yours-on-your-terms"
      BY <1>8, <2>3 DEF companyText
    <3>2. isExecutor(u) /\ deal = proposed[u]
      BY <1>5, <1>8, <2>3 DEF WorkStages
    <3> QED BY <3>1, <3>2 DEF holds
  <2>4. CASE status = "AWAITING_COMPLETION_CONFIRMATION"
    BY <1>8, <2>4, CommonWords DEF companyText
  <2>5. CASE status = "COMPLETION_DISPUTED"
    <3>1. w = "the-next-submission-goes-to-the-client"
      BY <1>8, <2>5 DEF companyText
    <3>2. "addFiles" \in companyMay(u)
      BY <1>1, <1>5, <1>8, <2>5, RequestsOfWork
         DEF WorkStages, canUploadWork, WORK_UPLOAD_ORDER_STATUSES
    <3> QED BY <3>1, <3>2 DEF holds
  <2>6. CASE status = "COMPLETED"
    BY <1>8, <2>6, CommonWords DEF companyText
  <2> QED BY <2>1, <2>2, <2>3, <2>4, <2>5, <2>6 DEF PageFacts, exists, OrderStatus
<1> QED BY <1>2, <1>3, <1>4, <1>6, <1>7, <1>8 DEF nowWords

LEMMA EveryWordIsTrue == PageFacts => EveryWordHolds
<1> SUFFICES ASSUME PageFacts, NEW u \in Users, NEW k \in shownCards(toOrderDetail(u), u),
                    NEW w \in cardWords(k, toOrderDetail(u), u)
             PROVE  holds(w, u)
  BY DEF EveryWordHolds, words
<1>1. k \in Card
  BY DEF shownCards
<1>2. k \in {"decisions", "executorOffer"} => u = Client
  BY ReaderKnown DEF shownCards, Card
<1> QED BY <1>1, <1>2, TaskCard, ClientFilesCard, DecisionsCard, ExecutorOfferCard, OwnOfferCard,
     SubmitOfferCard, WorkCard, CompletionCard, SubmissionsCard, NowCard, ClientCard, AreaCard
     DEF Card

-----------------------------------------------------------------------------
(* Rows, buttons and rounds *)

LEMMA EveryRowIsTrue == PageFacts => EveryRowHolds
<1> SUFFICES ASSUME PageFacts PROVE EveryRowHolds
  OBVIOUS
<1>1. ASSUME NEW c \in Companies, NEW w \in offerRowWords(c) PROVE holds(w, c)
  <2>1. offerStatus[c] # NoOffer /\ w \in offerHint(OfferDto(c), FALSE)
    BY <1>1 DEF offerRowWords
  <2> QED BY <2>1, HintsHold
<1>2. ASSUME NEW c \in Companies, NEW w \in feedRowWords(c) PROVE holds(w, c)
  <2>1. maySubmit(c) /\ w \in {"may-be-sent-again", offerDialogWord(c)}
    BY <1>2 DEF feedRowWords, PageFacts, DoorsAgree
  <2>2. holds("may-be-sent-again", c)
    BY <2>1 DEF holds
  <2> QED BY <2>1, <2>2, DialogIsCalledRight
<1>3. ASSUME NEW w \in orderRowWords(toOrderListItem(Client)) PROVE holds(w, Client)
  <2>1. toOrderListItem(Client).deal = deal /\ toOrderListItem(Client).contractors = executors
    BY DEF toOrderListItem, shown, seesProgress, isParty, executors
  <2>2. CASE status \in WorkStages
    <3>1. deal # Null /\ executors # {} /\ \E c \in executors : deal = proposed[c]
      BY <2>2, DuringTheWork
    <3>2. holds("price-of-the-deal", Client)
      BY <3>1 DEF holds
    <3> QED BY <1>3, <2>1, <2>2, <3>1, <3>2, CommonWords DEF orderRowWords
  <2>3. CASE status \notin WorkStages
    <3>1. deal = Null /\ executors = {}
      BY <2>3, BeforeTheChoice
    <3>2. holds("only-the-clients-budget", Client) /\ holds("no-contractor", Client)
      BY <3>1 DEF holds
    <3> QED BY <1>3, <2>1, <3>1, <3>2 DEF orderRowWords
  <2> QED BY <2>2, <2>3
<1> QED BY <1>1, <1>2, <1>3 DEF EveryRowHolds

LEMMA NoButtonIsMissed == PageFacts => NoButtonIsHidden
<1> SUFFICES ASSUME PageFacts, NEW c \in Companies
             PROVE  /\ onPage(clientMay(c), toOrderDetail(Client), Client)
                    /\ onPage(companyMay(c), toOrderDetail(c), c)
  BY DEF NoButtonIsHidden
<1>1. ASSUME NEW b \in clientMay(c)
      PROVE  cardOf(b, toOrderDetail(Client), Client) \in shownCards(toOrderDetail(Client), Client)
  <2> DEFINE detail == toOrderDetail(Client)
  <2>1. isOwner(detail, Client) /\ isPartyHere(detail, Client) /\ detail.item.status = status
    BY ClientInDetail DEF isPartyHere
  <2>2. CASE b \in {"accept", "reject"}
    <3>1. status = "AWAITING_CONFIRMATION"
      BY <1>1, <2>2, RequestsOfOffers
    <3>2. executorOffer(detail, Client) = {}
      <4>1. \A o \in detail.offers : ~isExecutorOffer(o.status)
        <5>1. \A x \in Companies : OfferDto(x).status = offerStatus[x] /\ ~isExecutorOffer(offerStatus[x])
          BY <3>1, BeforeTheChoice DEF OfferDto, WorkStages
        <5> QED BY <5>1, ClientInDetail
      <4> QED BY <4>1 DEF executorOffer
    <3>3. "decisions" \in shownCards(detail, Client)
      BY <2>1, <3>2 DEF shownCards, Card
    <3> QED BY <2>2, <3>3 DEF cardOf
  <2>3. CASE b \in {"confirm", "dispute"}
    <3>1. status = "AWAITING_COMPLETION_CONFIRMATION"
      BY <1>1, <2>3, RequestsOfWork
    <3>2. hasCompletionHint(detail.item.status)
      BY <2>1, <3>1 DEF hasCompletionHint, hasWorkHint, acceptsOffers, OFFER_ELIGIBLE_ORDER_STATUSES
    <3>3. "completion" \in shownCards(detail, Client)
      BY <2>1, <3>2 DEF shownCards, Card
    <3> QED BY <2>3, <3>3 DEF cardOf
  <2> QED BY <1>1, <2>2, <2>3 DEF clientMay, ClientButton
<1>2. ASSUME NEW b \in companyMay(c)
      PROVE  cardOf(b, toOrderDetail(c), c) \in shownCards(toOrderDetail(c), c)
  <2> DEFINE detail == toOrderDetail(c)
  <2>1. /\ c \in Users /\ ~isOwner(detail, c)
        /\ ownOffer(detail, c) = IF offerStatus[c] = NoOffer THEN {} ELSE {OfferDto(c)}
        /\ isExecutorHere(detail, c) <=> c \in executors
    BY Viewers, ReaderKnown DEF Users
  <2>2. CASE b = "withdraw"
    <3>1. "ownOffer" \in shownCards(detail, c)
      BY <1>2, <2>1, <2>2, RequestsOfOffers DEF shownCards, Card, NoOffer
    <3> QED BY <2>2, <3>1 DEF cardOf
  <2>3. CASE b = "submitOffer"
    <3>1. mayOffer(detail, c)
      BY <1>2, <2>1, <2>3, RequestsOfOffers, OfferFlag, Viewers
    <3>2. CASE ownOffer(detail, c) = {}
      <4>1. "submitOffer" \in shownCards(detail, c)
        BY <3>1, <3>2 DEF shownCards, Card
      <4> QED BY <2>3, <3>2, <4>1 DEF cardOf
    <3>3. CASE ownOffer(detail, c) # {}
      <4>1. "ownOffer" \in shownCards(detail, c)
        BY <2>1, <3>3 DEF shownCards, Card
      <4> QED BY <2>3, <3>3, <4>1 DEF cardOf
    <3> QED BY <3>2, <3>3
  <2>4. CASE b \in {"addFiles", "submitWork", "verifyArea"}
    <3>1. isExecutor(c)
      BY <1>2, <2>4, RequestsOfWork
    <3>2. c \in executors /\ isParty(c) /\ status \in WorkStages
      BY <2>1, <3>1, OneExecutor, ReaderKnown DEF executors, PageFacts
    <3>3. hasWorkHint(detail.item.status)
      BY <2>1, <3>2, PartyGets, DuringTheWork DEF hasWorkHint
    <3>4. "work" \in shownCards(detail, c)
      BY <2>1, <3>2, <3>3 DEF shownCards, Card
    <3> QED BY <2>4, <3>4 DEF cardOf
  <2> QED BY <1>2, <2>2, <2>3, <2>4 DEF companyMay, CompanyButton
<1> QED BY <1>1, <1>2 DEF onPage

LEMMA RoundIsAsForeseen == PageFacts => RoundIsForeseen
<1> SUFFICES ASSUME PageFacts, NEW c \in executors, NEW r \in Round,
                    isOpen(r) \/ (noneOpen /\ isNext(r))
             PROVE  r = nextRound(toOrderDetail(c))
  BY DEF RoundIsForeseen
<1> DEFINE detail == toOrderDetail(c)
<1>1. c \in Users /\ isParty(c)
  BY ReaderKnown DEF executors, Users
<1>2. /\ openRound(detail) \subseteq Round
      /\ shownRounds(detail) = {q \in Round : hasRow(q)}
      /\ \A q \in Round : q \in openRound(detail) <=> isOpen(q)
  BY <1>1, RoundsOnPage DEF PageFacts, openRound
<1> HIDE DEF detail
<1>3. CASE isOpen(r)
  <2>1. openRound(detail) = {r}
    <3>1. \A q \in Round : isOpen(q) => q = r
      BY <1>3, LifecycleAssumption DEF isOpen, Round
    <3> QED BY <1>2, <1>3, <3>1
  <2> QED BY <2>1 DEF nextRound, detail
<1>4. CASE noneOpen /\ isNext(r)
  <2>1. openRound(detail) = {}
    BY <1>2, <1>4 DEF noneOpen, isOpen
  <2>2. \A q \in Round : hasRow(q) => q < r
    BY <1>4 DEF isNext, Round
  <2>3. CASE shownRounds(detail) = {}
    <3>1. r = 1
      BY <1>2, <1>4, <2>3 DEF isNext
    <3> QED BY <2>1, <2>3, <3>1 DEF nextRound, detail
  <2>4. CASE shownRounds(detail) # {}
    <3>1. r # 1
      BY <1>2, <2>2, <2>4 DEF Round
    <3>2. r - 1 \in Round /\ hasRow(r - 1)
      BY <1>4, <3>1 DEF isNext
    <3>3. \A q \in shownRounds(detail) : isLatest(detail, q) <=> q = r - 1
      BY <1>2, <2>2, <3>2 DEF isLatest, Round
    <3>4. (CHOOSE q \in shownRounds(detail) : isLatest(detail, q)) = r - 1
      BY <1>2, <3>2, <3>3
    <3>5. nextRound(detail) = 1 + (r - 1)
      BY <2>1, <2>4, <3>4 DEF nextRound
    <3> QED BY <3>5 DEF detail, Round
  <2> QED BY <2>3, <2>4
<1> QED BY <1>3, <1>4

-----------------------------------------------------------------------------
(* What the machine would answer *)

LEMMA OutcomesOfOffers ==
  ASSUME NEW c \in Companies, NEW stamp
  PROVE  LET submission == outcome(submitRequest(c), c)
             withdrawal == outcome([type |-> "OFFER_WITHDRAWN", company |-> c], c)
             rejection == outcome([type |-> "OFFER_REJECTED", company |-> c], c)
             acceptance == outcome([type |-> "OFFER_ACCEPTED", company |-> c,
                                    seenOfferEditedAt |-> stamp], c)
         IN
         /\ submission.nextStatus = "AWAITING_CONFIRMATION"
         /\ submission.effects =
              {setOfferStatus(c, "SENT"), tell(Client, "OFFER_RECEIVED", offerKey(c))}
         /\ withdrawal.nextStatus = statusAfterLeaving(c)
         /\ withdrawal.effects =
              {setOfferStatus(c, "WITHDRAWN"), tell(Client, "OFFER_WITHDRAWN", offerKey(c))}
         /\ rejection.nextStatus = statusAfterLeaving(c)
         /\ rejection.effects =
              {setOfferStatus(c, "REJECTED"), tell(c, "OFFER_REJECTED", offerKey(c))}
         /\ acceptance.nextStatus = "IN_PROGRESS"
         /\ acceptance.effects =
              {setOfferStatus(c, "ACCEPTED"), setDeal(proposed[c]),
               tell(c, "OFFER_ACCEPTED", offerKey(c))}
              \union {setOfferStatus(b, "NOT_ACCEPTED") : b \in otherActiveOffers(c)}
              \union {tell(b, "OFFER_NOT_ACCEPTED", offerKey(b)) : b \in otherActiveOffers(c)}
<1>1. outcome(submitRequest(c), c) = offerSubmitted(contextOf, buildEvent(submitRequest(c), c))
  BY DEF outcome, handlerFor, submitRequest, buildEvent
<1>2. buildEvent(submitRequest(c), c).company = c
  BY DEF submitRequest, buildEvent
<1> DEFINE leaving(t) == [type |-> t, company |-> c, offerStatus |-> offerStatus[c],
                          otherActiveOffers |-> otherActiveOffers(c)]
<1>3. \A t \in {"OFFER_WITHDRAWN", "OFFER_REJECTED"} :
        buildEvent([type |-> t, company |-> c], c) = leaving(t)
  BY DEF buildEvent
<1>4. /\ outcome([type |-> "OFFER_WITHDRAWN", company |-> c], c)
           = offerLeftSelection(contextOf, leaving("OFFER_WITHDRAWN"), "WITHDRAWN", Client)
      /\ outcome([type |-> "OFFER_REJECTED", company |-> c], c)
           = offerLeftSelection(contextOf, leaving("OFFER_REJECTED"), "REJECTED", c)
  BY <1>3, ContextFields DEF outcome, handlerFor
<1> DEFINE accepting == [type |-> "OFFER_ACCEPTED", company |-> c, offerStatus |-> offerStatus[c],
                         terms |-> proposed[c], today |-> today, offerEditedAt |-> editedAt[c],
                         seenOfferEditedAt |-> stamp, otherOffers |-> otherActiveOffers(c)]
<1>5. outcome([type |-> "OFFER_ACCEPTED", company |-> c, seenOfferEditedAt |-> stamp], c)
        = offerAccepted(contextOf, accepting)
  BY DEF outcome, handlerFor, buildEvent
<1>6. /\ offerSubmitted(contextOf, buildEvent(submitRequest(c), c)).nextStatus = "AWAITING_CONFIRMATION"
      /\ offerSubmitted(contextOf, buildEvent(submitRequest(c), c)).effects =
           {setOfferStatus(c, "SENT"), tell(Client, "OFFER_RECEIVED", offerKey(c))}
  BY <1>2, ContextFields DEF offerSubmitted, plan
<1>7. \A t, s, u :
        /\ offerLeftSelection(contextOf, leaving(t), s, u).nextStatus = statusAfterLeaving(c)
        /\ offerLeftSelection(contextOf, leaving(t), s, u).effects =
             {setOfferStatus(c, s), tell(u, t, offerKey(c))}
  BY DEF offerLeftSelection, plan, statusAfterLeaving
<1>8. /\ offerAccepted(contextOf, accepting).nextStatus = "IN_PROGRESS"
      /\ offerAccepted(contextOf, accepting).effects =
           {setOfferStatus(c, "ACCEPTED"), setDeal(proposed[c]),
            tell(c, "OFFER_ACCEPTED", offerKey(c))}
           \union {setOfferStatus(b, "NOT_ACCEPTED") : b \in otherActiveOffers(c)}
           \union {tell(b, "OFFER_NOT_ACCEPTED", offerKey(b)) : b \in otherActiveOffers(c)}
  BY DEF offerAccepted, plan
<1> HIDE DEF leaving, accepting
<1> QED BY <1>1, <1>4, <1>5, <1>6, <1>7, <1>8

LEMMA OutcomesOfWork ==
  ASSUME NEW c \in Companies, NEW text
  PROVE  LET submission == outcome([type |-> "WORK_SUBMITTED"], c)
             confirmation == outcome([type |-> "WORK_CONFIRMED", completionComment |-> text], c)
             dispute == outcome([type |-> "WORK_DISPUTED", correctionComment |-> text], c)
         IN
         /\ submission.nextStatus = "AWAITING_COMPLETION_CONFIRMATION"
         /\ submission.effects =
              {setOfferStatus(c, "WORK_SUBMITTED"), tell(Client, "WORK_SUBMITTED", Null)}
         /\ confirmation.nextStatus = "COMPLETED"
         /\ confirmation.effects =
              {setOfferStatus(c, "COMPLETED"), setCompletion(text), tell(c, "WORK_CONFIRMED", Null)}
         /\ dispute.nextStatus = "COMPLETION_DISPUTED"
         /\ dispute.effects =
              {setOfferStatus(c, "BACK_FOR_OVERRIDE"), setCorrection(text),
               tell(c, "WORK_DISPUTED", Null)}
<1>1. /\ outcome([type |-> "WORK_SUBMITTED"], c).nextStatus = "AWAITING_COMPLETION_CONFIRMATION"
      /\ outcome([type |-> "WORK_SUBMITTED"], c).effects =
           {setOfferStatus(c, "WORK_SUBMITTED"), tell(Client, "WORK_SUBMITTED", Null)}
  BY ContextFields DEF outcome, handlerFor, buildEvent, workSubmitted, plan
<1>2. /\ outcome([type |-> "WORK_CONFIRMED", completionComment |-> text], c).nextStatus = "COMPLETED"
      /\ outcome([type |-> "WORK_CONFIRMED", completionComment |-> text], c).effects =
           {setOfferStatus(c, "COMPLETED"), setCompletion(text), tell(c, "WORK_CONFIRMED", Null)}
  BY DEF outcome, handlerFor, buildEvent, workConfirmed, plan
<1>3. /\ outcome([type |-> "WORK_DISPUTED", correctionComment |-> text], c).nextStatus
           = "COMPLETION_DISPUTED"
      /\ outcome([type |-> "WORK_DISPUTED", correctionComment |-> text], c).effects =
           {setOfferStatus(c, "BACK_FOR_OVERRIDE"), setCorrection(text),
            tell(c, "WORK_DISPUTED", Null)}
  BY DEF outcome, handlerFor, buildEvent, workDisputed, plan
<1> QED BY <1>1, <1>2, <1>3

-----------------------------------------------------------------------------
(* What the dialogs promise *)

\* The decisions on the page are the pending offers, one for each.
LEMMA OffersToDecide ==
  decisions(toOrderDetail(Client), Client) =
    {OfferDto(b) : b \in {x \in Companies : offerStatus[x] = "SENT"}}
<1> DEFINE detail == toOrderDetail(Client)
<1>1. /\ isOwner(detail, Client)
      /\ detail.offers = {OfferDto(b) : b \in {x \in Companies : isActiveOffer(offerStatus[x])}}
  BY ClientInDetail
<1>2. \A b \in Companies :
        /\ OfferDto(b).status = offerStatus[b]
        /\ offerStatus[b] = "SENT" => isActiveOffer(offerStatus[b])
  BY DEF OfferDto, isActiveOffer, ACTIVE_OFFER_STATUSES
<1> HIDE DEF detail
<1>3. decisions(detail, Client) = {o \in detail.offers : o.status = "SENT"}
  BY <1>1 DEF decisions, isPendingOffer
<1>4. ASSUME NEW o PROVE o \in decisions(detail, Client) <=>
        \E b \in Companies : offerStatus[b] = "SENT" /\ o = OfferDto(b)
  BY <1>1, <1>2, <1>3
<1>5. decisions(detail, Client) = {OfferDto(b) : b \in {x \in Companies : offerStatus[x] = "SENT"}}
  BY <1>4
<1> QED BY <1>5 DEF detail

\* There are finitely many companies, so that what the dialog counts is what
\* the machine is going to turn away.
LEMMA RivalsCounted ==
  ASSUME NEW c \in Companies, offerStatus[c] = "SENT"
  PROVE  /\ rivals(toOrderDetail(Client), Client) = Cardinality(otherActiveOffers(c))
         /\ Cardinality(otherActiveOffers(c)) = 0 <=> otherActiveOffers(c) = {}
<1> DEFINE pending == {x \in Companies : offerStatus[x] = "SENT"}
           offers == decisions(toOrderDetail(Client), Client)
           F == [x \in pending |-> OfferDto(x)]
<1>1. offers = {OfferDto(x) : x \in pending}
  BY OffersToDecide
<1>2. \A x : OfferDto(x).company = x
  BY DEF OfferDto
<1>3. pending \subseteq Companies /\ c \in pending /\ otherActiveOffers(c) = pending \ {c}
  BY DEF otherActiveOffers
<1> HIDE DEF pending, offers
<1>4. F \in [pending -> offers]
  BY <1>1
<1>5. \A a, b \in pending : F[a] = F[b] => a = b
  BY <1>2
<1>6. \A o \in offers : \E a \in pending : F[a] = o
  BY <1>1
<1> HIDE DEF F
<1>7. F \in Bijection(pending, offers)
  BY <1>4, <1>5, <1>6, Fun_IsBij
<1>8. ExistsBijection(pending, offers)
  BY <1>7, Fun_ExistsBij
<1>9. IsFiniteSet(pending)
  BY <1>3, LifecycleAssumption, FS_Subset
<1>10. Cardinality(offers) = Cardinality(pending)
  BY <1>8, <1>9, FS_Bijection
<1>11. /\ IsFiniteSet(pending \ {c})
       /\ Cardinality(pending \ {c}) = Cardinality(pending) - 1
  BY <1>3, <1>9, FS_RemoveElement
<1>12. Cardinality(pending \ {c}) = 0 <=> pending \ {c} = {}
  BY <1>11, FS_EmptySet
<1> QED BY <1>3, <1>10, <1>11, <1>12 DEF rivals, offers

LEMMA AcceptComesTrue ==
  ASSUME PageFacts, NEW c \in Companies, offerStatus[c] = "SENT",
         canAccept(toOrderDetail(Client), OfferDto(c))
  PROVE  AcceptOfferDialog(toOrderDetail(Client), Client, OfferDto(c))
<1> DEFINE request == [type |-> "OFFER_ACCEPTED", company |-> c, seenOfferEditedAt |-> editedAt[c]]
           event == buildEvent(request, c)
           p == outcome(request, c)
           R == otherActiveOffers(c)
           lost == {setOfferStatus(b, "NOT_ACCEPTED") : b \in R}
           told == {tell(b, "OFFER_NOT_ACCEPTED", offerKey(b)) : b \in R}
           win == tell(c, "OFFER_ACCEPTED", offerKey(c))
<1>1. /\ OfferDto(c).company = c /\ OfferDto(c).terms = proposed[c]
      /\ OfferDto(c).status = offerStatus[c]
      /\ acceptRequest(OfferDto(c)) = request
  BY DEF OfferDto, acceptRequest, acceptOfferBody
<1>2. /\ canTransition(status, "OFFER_ACCEPTED", offerStatus[c])
      /\ ~isOfferExpired(proposed[c].deadline, today)
  BY <1>1, ClientInDetail DEF canAccept, Can
<1>3. accepted(request, c)
  <2>1. /\ event.type = "OFFER_ACCEPTED" /\ event.offerStatus = offerStatus[c]
        /\ event.terms = proposed[c] /\ event.today = today
        /\ event.offerEditedAt = event.seenOfferEditedAt
    BY DEF buildEvent
  <2> HIDE DEF event
  <2>2. ~isOut(event) /\ ~isLate(event) /\ ~isChanged(event)
    BY <1>2, <2>1 DEF isOut, isLate, isChanged
  <2>3. refusal(contextOf, event) = "none"
    BY <1>2, <2>1, <2>2, NoObjection DEF PageFacts
  <2> QED BY <2>3 DEF accepted, event
<1>4. /\ p.nextStatus = "IN_PROGRESS"
      /\ p.effects = {setOfferStatus(c, "ACCEPTED"), setDeal(proposed[c]), win}
                     \union lost \union told
  BY OutcomesOfOffers
<1> HIDE DEF p, request
<1>5. offersTo(p.effects, "NOT_ACCEPTED") = R
  <2>1. /\ \A b, d : tell(b, "OFFER_NOT_ACCEPTED", offerKey(b)) # setOfferStatus(d, "NOT_ACCEPTED")
        /\ \A d : win # setOfferStatus(d, "NOT_ACCEPTED")
        /\ \A d : setDeal(proposed[c]) # setOfferStatus(d, "NOT_ACCEPTED")
        /\ \A d : setOfferStatus(c, "ACCEPTED") # setOfferStatus(d, "NOT_ACCEPTED")
    BY KindsDiffer, EffectsAreMadeOf DEF tell
  <2>2. R \subseteq Companies
    BY DEF otherActiveOffers
  <2> HIDE DEF win, R
  <2>3. \A d : setOfferStatus(d, "NOT_ACCEPTED") \notin told
    BY <2>1
  <2>4. \A d : setOfferStatus(d, "NOT_ACCEPTED") \in lost <=> d \in R
    BY EffectsAreMadeOf
  <2> HIDE DEF lost, told
  <2>5. \A d : setOfferStatus(d, "NOT_ACCEPTED") \in p.effects <=> d \in R
    BY <1>4, <2>1, <2>3, <2>4
  <2> QED BY <2>2, <2>5 DEF offersTo
<1>6. Cardinality(offersTo(p.effects, "NOT_ACCEPTED")) = rivals(toOrderDetail(Client), Client)
  BY <1>5, RivalsCounted
<1>7. setDeal(proposed[c]) \in p.effects
  BY <1>4
<1> QED BY <1>1, <1>3, <1>4, <1>6, <1>7 DEF AcceptOfferDialog, p

LEMMA RejectComesTrue ==
  ASSUME PageFacts, NEW c \in Companies, "reject" \in clientMay(c)
  PROVE  RejectOfferDialog(toOrderDetail(Client), Client, OfferDto(c))
<1> DEFINE request == [type |-> "OFFER_REJECTED", company |-> c]
           event == buildEvent(request, c)
           p == outcome(request, c)
<1>1. status = "AWAITING_CONFIRMATION" /\ offerStatus[c] = "SENT"
  BY RequestsOfOffers
<1>2. accepted(request, c)
  <2>1. event.type = "OFFER_REJECTED" /\ event.offerStatus = offerStatus[c]
    BY DEF buildEvent
  <2> HIDE DEF event
  <2>2. ~isOut(event) /\ ~isLate(event) /\ ~isChanged(event)
    BY <2>1 DEF isOut, isLate, isChanged
  <2>3. canTransition(status, event.type, event.offerStatus)
    BY <1>1, <2>1, MovesOfOffers DEF NoOffer
  <2>4. refusal(contextOf, event) = "none"
    BY <2>2, <2>3, NoObjection DEF PageFacts
  <2> QED BY <2>4 DEF accepted, event
<1>3. p.nextStatus = statusAfterLeaving(c)
  BY OutcomesOfOffers
<1>4. OfferDto(c).company = c
  BY DEF OfferDto
<1>5. (p.nextStatus = "WAITING") <=> (rivals(toOrderDetail(Client), Client) = 0)
  BY <1>1, <1>3, RivalsCounted DEF statusAfterLeaving
<1>6. canTransition(p.nextStatus, "OFFER_SUBMITTED", "REJECTED")
  <2>1. acceptsOffers(p.nextStatus)
    BY <1>3 DEF statusAfterLeaving, acceptsOffers, OFFER_ELIGIBLE_ORDER_STATUSES
  <2> QED BY <2>1, MovesOfOffers DEF NoOffer
<1> QED BY <1>2, <1>4, <1>5, <1>6 DEF RejectOfferDialog

LEMMA WithdrawComesTrue ==
  ASSUME PageFacts, NEW c \in Companies, "withdraw" \in companyMay(c)
  PROVE  WithdrawOfferDialog(OfferDto(c))
<1> DEFINE request == [type |-> "OFFER_WITHDRAWN", company |-> c]
           event == buildEvent(request, c)
<1>1. status = "AWAITING_CONFIRMATION" /\ offerStatus[c] = "SENT"
  BY RequestsOfOffers
<1>2. accepted(request, c)
  <2>1. event.type = "OFFER_WITHDRAWN" /\ event.offerStatus = offerStatus[c]
    BY DEF buildEvent
  <2> HIDE DEF event
  <2>2. ~isOut(event) /\ ~isLate(event) /\ ~isChanged(event)
    BY <2>1 DEF isOut, isLate, isChanged
  <2>3. canTransition(status, event.type, event.offerStatus)
    BY <1>1, <2>1, MovesOfOffers DEF NoOffer
  <2>4. refusal(contextOf, event) = "none"
    BY <2>2, <2>3, NoObjection DEF PageFacts
  <2> QED BY <2>4 DEF accepted, event
<1>3. outcome(request, c).nextStatus = statusAfterLeaving(c)
  BY OutcomesOfOffers
<1>4. OfferDto(c).company = c
  BY DEF OfferDto
<1>5. canTransition(outcome(request, c).nextStatus, "OFFER_SUBMITTED", "WITHDRAWN")
  <2>1. acceptsOffers(outcome(request, c).nextStatus)
    BY <1>3 DEF statusAfterLeaving, acceptsOffers, OFFER_ELIGIBLE_ORDER_STATUSES
  <2> QED BY <2>1, MovesOfOffers DEF NoOffer
<1> QED BY <1>2, <1>4, <1>5 DEF WithdrawOfferDialog

LEMMA OfferComesTrue ==
  ASSUME PageFacts, NEW c \in Companies, "submitOffer" \in companyMay(c)
  PROVE  OfferDialog(c)
<1>1. accepted(submitRequest(c), c)
  BY RequestsOfOffers, SubmissionAccepted DEF PageFacts
<1>2. outcome(submitRequest(c), c).nextStatus = "AWAITING_CONFIRMATION"
  BY OutcomesOfOffers
<1>3. \A e \in {"OFFER_SUBMITTED", "OFFER_WITHDRAWN"} :
        canTransition("AWAITING_CONFIRMATION", e, "SENT")
  BY MovesOfOffers DEF NoOffer, acceptsOffers, OFFER_ELIGIBLE_ORDER_STATUSES
<1>4. \A s \in OrderStatus :
        canTransition(s, "OFFER_ACCEPTED", "SENT") => s = "AWAITING_CONFIRMATION"
  BY MovesOfOffers DEF NoOffer
<1> QED BY <1>1, <1>2, <1>3, <1>4 DEF OfferDialog

\* What a decision on the work meets: the machine has nothing against it.
LEMMA JudgementAccepted ==
  ASSUME PageFacts, NEW c \in Companies, isExecutor(c),
         status = "AWAITING_COMPLETION_CONFIRMATION",
         NEW request, request.type \in {"WORK_CONFIRMED", "WORK_DISPUTED"}
  PROVE  accepted(request, c)
<1> DEFINE event == buildEvent(request, c)
<1>1. event.type = request.type /\ event.offerStatus = offerStatus[c]
  BY DEF buildEvent
<1> HIDE DEF event
<1>2. ~isOut(event) /\ ~isLate(event) /\ ~isChanged(event)
  BY <1>1 DEF isOut, isLate, isChanged
<1>3. offerStatus[c] = "WORK_SUBMITTED"
  BY OneExecutor, ExecutorStatuses DEF PageFacts, WorkStages
<1>4. canTransition(status, event.type, event.offerStatus)
  BY <1>1, <1>3 DEF canTransition, ORDER_TRANSITIONS, OFFER_PRECONDITIONS, OrderStatus,
     OrderEventType, WORK_UPLOAD_ORDER_STATUSES
<1> QED BY <1>2, <1>4, NoObjection DEF PageFacts, accepted, event

LEMMA SubmitWorkComesTrue ==
  ASSUME PageFacts, NEW c \in Companies, "submitWork" \in companyMay(c)
  PROVE  SubmitWorkDialog(toOrderDetail(c), c)
<1>1. outcome([type |-> "WORK_SUBMITTED"], c).nextStatus = "AWAITING_COMPLETION_CONFIRMATION"
  BY OutcomesOfWork
<1>2. \A e \in {"WORK_CONFIRMED", "WORK_DISPUTED"} :
        canTransition("AWAITING_COMPLETION_CONFIRMATION", e, "WORK_SUBMITTED")
  BY DEF canTransition, ORDER_TRANSITIONS, OFFER_PRECONDITIONS, OrderStatus, OrderEventType,
     WORK_UPLOAD_ORDER_STATUSES
<1>3. ~canUploadWork("AWAITING_COMPLETION_CONFIRMATION")
  BY DEF canUploadWork, WORK_UPLOAD_ORDER_STATUSES
<1>4. PICK r \in Round : maySubmitRound(r) /\ isExecutor(c) /\ canUploadWork(status)
  BY RequestsOfWork
<1>5. r = nextRound(toOrderDetail(c))
  <2>1. c \in executors /\ "addFiles" \in companyMay(c) /\ isOpen(r)
    BY <1>4, RequestsOfWork DEF executors, maySubmitRound
  <2> QED BY <2>1, RoundIsAsForeseen DEF RoundIsForeseen
<1> QED BY <1>1, <1>2, <1>3, <1>4, <1>5 DEF SubmitWorkDialog

LEMMA ConfirmComesTrue ==
  ASSUME PageFacts, NEW c \in Companies, "confirm" \in clientMay(c)
  PROVE  ConfirmWorkDialog(c)
<1> SUFFICES ASSUME NEW request \in CompletionDecision("WORK_CONFIRMED"), NEW s \in OfferStatus
             PROVE  /\ accepted(request, c)
                    /\ ~canTransition(outcome(request, c).nextStatus, "WORK_DISPUTED", s)
  BY DEF ConfirmWorkDialog
<1>1. PICK text \in Texts \union {Null} :
        request = [type |-> "WORK_CONFIRMED", completionComment |-> text]
  BY DEF CompletionDecision
<1>2. accepted(request, c)
  BY <1>1, JudgementAccepted, RequestsOfWork
<1>3. outcome(request, c).nextStatus = "COMPLETED"
  BY <1>1, OutcomesOfWork
<1>4. ~canTransition("COMPLETED", "WORK_DISPUTED", s)
  BY DEF canTransition, ORDER_TRANSITIONS, OrderStatus, WORK_UPLOAD_ORDER_STATUSES
<1> QED BY <1>2, <1>3, <1>4

LEMMA DisputeComesTrue ==
  ASSUME PageFacts, NEW c \in Companies, "dispute" \in clientMay(c)
  PROVE  DisputeWorkDialog(c)
<1> SUFFICES ASSUME NEW request \in CompletionDecision("WORK_DISPUTED")
             PROVE  /\ accepted(request, c) /\ noneOpen
                    /\ canUploadWork(outcome(request, c).nextStatus)
                    /\ setCorrection(request.correctionComment) \in outcome(request, c).effects
  BY DEF DisputeWorkDialog
<1>1. PICK text \in Texts :
        request = [type |-> "WORK_DISPUTED", correctionComment |-> text]
  BY DEF CompletionDecision
<1>2. isExecutor(c) /\ status = "AWAITING_COMPLETION_CONFIRMATION"
  BY RequestsOfWork
<1>3. accepted(request, c)
  BY <1>1, <1>2, JudgementAccepted
<1>4. noneOpen
  BY <1>2 DEF PageFacts, RoundsFollowStatus
<1>5. /\ outcome(request, c).nextStatus = "COMPLETION_DISPUTED"
      /\ setCorrection(text) \in outcome(request, c).effects
  BY <1>1, OutcomesOfWork
<1>6. canUploadWork("COMPLETION_DISPUTED")
  BY DEF canUploadWork, WORK_UPLOAD_ORDER_STATUSES
<1> QED BY <1>1, <1>3, <1>4, <1>5, <1>6

LEMMA EveryDialogComesTrue == PageFacts => DialogsComeTrue
<1> SUFFICES ASSUME PageFacts PROVE DialogsComeTrue
  OBVIOUS
<1> DEFINE detail == toOrderDetail(Client)
<1>1. ASSUME NEW o \in decisions(detail, Client)
      PROVE  /\ canAccept(detail, o) => AcceptOfferDialog(detail, Client, o)
             /\ "reject" \in clientMay(o.company) => RejectOfferDialog(detail, Client, o)
  <2>1. PICK c \in Companies : o = OfferDto(c) /\ offerStatus[c] = "SENT"
    BY <1>1, OffersToDecide
  <2>2. OfferDto(c).company = c
    BY DEF OfferDto
  <2>3. canAccept(detail, OfferDto(c)) => AcceptOfferDialog(detail, Client, OfferDto(c))
    BY <2>1, AcceptComesTrue
  <2>4. "reject" \in clientMay(c) => RejectOfferDialog(detail, Client, OfferDto(c))
    BY RejectComesTrue
  <2> HIDE DEF detail
  <2> QED BY <2>1, <2>2, <2>3, <2>4
<1>2. ASSUME NEW c \in Companies
      PROVE  /\ "submitOffer" \in companyMay(c) => OfferDialog(c)
             /\ "withdraw" \in companyMay(c) => WithdrawOfferDialog(OfferDto(c))
             /\ "submitWork" \in companyMay(c) => SubmitWorkDialog(toOrderDetail(c), c)
             /\ "confirm" \in clientMay(c) => ConfirmWorkDialog(c)
             /\ "dispute" \in clientMay(c) => DisputeWorkDialog(c)
  BY OfferComesTrue, WithdrawComesTrue, SubmitWorkComesTrue, ConfirmComesTrue, DisputeComesTrue
<1> QED BY <1>1, <1>2 DEF DialogsComeTrue

\* The page of an order says in every state what is so: its cards, rows and
\* dialogs (frontend/src/components/orders) agree with the rules of the backend
\* without ever being computed from them.
THEOREM PageAlwaysTrue == Spec => []PageIsTrue
<1>1. Init => FilesHaveRounds /\ ColumnsTellTheStory
  BY DEF Init, FilesHaveRounds, ColumnsTellTheStory, hasRow, NoOffer
<1>2. FilesHaveRounds /\ TypeOK /\ [Next]_vars => FilesHaveRounds'
  BY NextFilesHaveRounds
<1>3. ColumnsTellTheStory /\ TypeOK /\ RoundsFollowStatus /\ [Next]_vars => ColumnsTellTheStory'
  BY NextColumns
<1>4. /\ TypeOK /\ SelectionConsistent /\ DealIsTheOffer /\ FinalRejectionHolds
      /\ RoundsFollowStatus /\ FilesHaveRounds /\ DoorsAgree /\ ButtonsAgree
      /\ FilesShownAreServed /\ ColumnsTellTheStory
      => PageIsTrue
  BY EveryWordIsTrue, EveryRowIsTrue, NoButtonIsMissed, RoundIsAsForeseen, EveryDialogComesTrue
     DEF PageIsTrue, PageFacts
<1> QED
  BY <1>1, <1>2, <1>3, <1>4, LifecycleTypes, SelectionAlwaysConsistent, DealAlwaysTheOffer,
     FinalRejectionAlwaysHolds, RoundsAlwaysFollow, DoorsAlwaysAgree, ButtonsAlwaysAgree,
     FilesShownAlwaysServed, PTL DEF Spec

-----------------------------------------------------------------------------
(* What the screens show *)

noticesOf(u) == {n \in notices : n.user = u}

\* Each list, with the masks carried out: rows of strangers never tell more.
ScreensAsRead ==
  \A u \in Users :
    /\ shownOn("orders", u) =
         IF exists /\ u = Client
         THEN {[status |-> status, deal |-> deal, contractors |-> executors]} ELSE {}
    /\ shownOn("offers", u) =
         IF u # Client /\ offerStatus[u] # NoOffer THEN {OfferDto(u)} ELSE {}
    /\ shownOn("available", u) =
         IF u # Client /\ inFeed(u) /\ ~creating
         THEN {[item |-> [status |-> "WAITING", deal |-> Null, contractors |-> {}],
                ownOffer |-> IF offerStatus[u] = NoOffer THEN {} ELSE {OfferDto(u)}]} ELSE {}
    /\ shownOn("documents", u) =
         IF isParty(u) THEN {[file |-> f, owner |-> documentOwnerLabel(f, u)] : f \in orderFiles}
         ELSE {}
    /\ isParty(u) <=> u = Client \/ u \in executors
    /\ shownOn("bell", u) = {Cardinality({n \in noticesOf(u) : ~n.isRead})} \ {0}
    /\ shownOn("notifications", u) =
         <<{NotificationRow(toNotificationDto(n)) : n \in noticesOf(u)},
           Cardinality({n \in noticesOf(u) : ~n.isRead}) > 0>>

LEMMA ScreensRead == TypeOK => ScreensAsRead
<1> SUFFICES ASSUME NEW u \in Users
             PROVE  /\ shownOn("orders", u) =
                         IF exists /\ u = Client
                         THEN {[status |-> status, deal |-> deal, contractors |-> executors]}
                         ELSE {}
                    /\ shownOn("offers", u) =
                         IF u # Client /\ offerStatus[u] # NoOffer THEN {OfferDto(u)} ELSE {}
                    /\ shownOn("available", u) =
                         IF u # Client /\ inFeed(u) /\ ~creating
                         THEN {[item |-> [status |-> "WAITING", deal |-> Null, contractors |-> {}],
                                ownOffer |-> IF offerStatus[u] = NoOffer THEN {} ELSE {OfferDto(u)}]}
                         ELSE {}
                    /\ shownOn("documents", u) =
                         IF isParty(u)
                         THEN {[file |-> f, owner |-> documentOwnerLabel(f, u)] : f \in orderFiles}
                         ELSE {}
                    /\ isParty(u) <=> u = Client \/ u \in executors
                    /\ shownOn("bell", u) = {Cardinality({n \in noticesOf(u) : ~n.isRead})} \ {0}
                    /\ shownOn("notifications", u) =
                         <<{NotificationRow(toNotificationDto(n)) : n \in noticesOf(u)},
                           Cardinality({n \in noticesOf(u) : ~n.isRead}) > 0>>
  BY DEF ScreensAsRead
<1>0. /\ isParty(u) <=> u = Client \/ u \in executors
      /\ u # Client <=> u \in Companies
  BY ReaderKnown, Viewers
<1>1. shownOn("orders", u) =
        IF exists /\ u = Client
        THEN {[status |-> status, deal |-> deal, contractors |-> executors]} ELSE {}
  <2>1. isParty(Client) /\ Client \in Users
    BY DEF isParty, Users
  <2>2. toOrderListItem(Client) = [status |-> status, deal |-> deal, contractors |-> executors]
    <3>1. seesProgress(Client)
      BY DEF seesProgress
    <3> QED BY <2>1, <3>1 DEF toOrderListItem, shown, executors
  <2>3. ordersList(u) = IF u = Client THEN {toOrderListItem(Client)} ELSE {}
    BY DEF ordersList
  <2>4. shownOn("orders", u) = IF exists THEN ordersList(u) ELSE {}
    BY DEF shownOn
  <2> QED BY <2>2, <2>3, <2>4
<1>2. shownOn("offers", u) =
        IF u # Client /\ offerStatus[u] # NoOffer THEN {OfferDto(u)} ELSE {}
  <2>1. shownOn("offers", u) = companyOffersList(u)
    BY DEF shownOn
  <2> QED BY <1>0, <2>1 DEF companyOffersList
<1>3. shownOn("available", u) =
        IF u # Client /\ inFeed(u) /\ ~creating
        THEN {[item |-> [status |-> "WAITING", deal |-> Null, contractors |-> {}],
               ownOffer |-> IF offerStatus[u] = NoOffer THEN {} ELSE {OfferDto(u)}]}
        ELSE {}
  <2>1. shownOn("available", u) = availableOrdersList(u)
    BY DEF shownOn
  <2>2. ASSUME u \in Companies, inFeed(u)
        PROVE  toAvailableOrderItem(u) =
                 [item |-> [status |-> "WAITING", deal |-> Null, contractors |-> {}],
                  ownOffer |-> IF offerStatus[u] = NoOffer THEN {} ELSE {OfferDto(u)}]
    <3>1. ~isActiveOffer(offerStatus[u]) /\ ~isExecutorOffer(offerStatus[u])
      BY <2>2, Viewers DEF inFeed, isActiveOffer, ACTIVE_OFFER_STATUSES, isExecutorOffer,
         EXECUTOR_OFFER_STATUSES, EXECUTING_OFFER_STATUSES
    <3>2. ~seesProgress(u) /\ ~isParty(u)
      BY <1>0, <2>2, <3>1, Viewers DEF seesProgress, isParty
    <3>3. toOrderListItem(u) = [status |-> "WAITING", deal |-> Null, contractors |-> {}]
      BY <3>2 DEF toOrderListItem, shown
    <3>4. visibleOffers(u) = IF offerStatus[u] = NoOffer THEN {} ELSE {OfferDto(u)}
      BY <2>2, OwnOfferInDetail
    <3> QED BY <3>3, <3>4 DEF toAvailableOrderItem
  <2>3. availableOrdersList(u) =
          IF u \in Companies /\ inFeed(u) /\ ~creating THEN {toAvailableOrderItem(u)} ELSE {}
    BY DEF availableOrdersList
  <2> QED BY <1>0, <2>1, <2>2, <2>3
<1>4. shownOn("documents", u) =
        IF isParty(u) THEN {[file |-> f, owner |-> documentOwnerLabel(f, u)] : f \in orderFiles}
        ELSE {}
  <2>1. shownOn("documents", u) = documentsList(u)
    BY DEF shownOn
  <2>2. documents(u) = IF isParty(u) THEN orderFiles ELSE {}
    BY <1>0 DEF documents, executors
  <2> QED BY <2>1, <2>2 DEF documentsList
<1>5. {n \in notices : n.user = u /\ ~n.isRead} = {n \in noticesOf(u) : ~n.isRead}
  BY DEF noticesOf
<1>6. shownOn("bell", u) = {Cardinality({n \in noticesOf(u) : ~n.isRead})} \ {0}
  <2>1. shownOn("bell", u) = {unreadCount(u)} \ {0}
    BY DEF shownOn, UnreadProvider, NotificationBell
  <2> QED BY <1>5, <2>1 DEF unreadCount
<1>7. shownOn("notifications", u) =
        <<{NotificationRow(toNotificationDto(n)) : n \in noticesOf(u)},
          Cardinality({n \in noticesOf(u) : ~n.isRead}) > 0>>
  <2>1. shownOn("notifications", u) = <<notificationsList(u), UnreadProvider(u).canMarkAll>>
    BY DEF shownOn
  <2>2. UnreadProvider(u).canMarkAll = (unreadCount(u) > 0)
    BY DEF UnreadProvider, MarkAllReadButton
  <2>3. notificationsList(u) = {NotificationRow(toNotificationDto(n)) : n \in noticesOf(u)}
    BY DEF notificationsList, noticesOf
  <2>4. unreadCount(u) = Cardinality({n \in noticesOf(u) : ~n.isRead})
    BY <1>5 DEF unreadCount
  <2> QED BY <2>1, <2>2, <2>3, <2>4
<1> QED BY <1>0, <1>1, <1>2, <1>3, <1>4, <1>6, <1>7

\* What a reader needs of a state, before a step and after it.
ScreenFacts ==
  /\ TypeOK /\ SelectionConsistent /\ ScreensAsRead
  /\ status = "NONE" => notices = {}
  /\ status \notin WorkStages => executors = {}
  /\ status \in WorkStages => \E x \in Companies : executors = {x}
  /\ \A c \in Companies \ executors :
       status \in WorkStages => ~isActiveOffer(offerStatus[c])
  /\ \A c \in executors : c \in Companies /\ isActiveOffer(offerStatus[c])
  /\ \A c \in Companies : outOfPlay(c) => toOrderDetail(c) = strangersDetail(c)

-----------------------------------------------------------------------------
(* What stays as it was *)

\* One list after the other, what it depends on.
LEMMA ListsKept ==
  ASSUME ScreensAsRead, ScreensAsRead', NEW u \in Users
  PROVE  /\ u # Client \/ UNCHANGED <<status, deal, executors>> =>
              shownOn("orders", u)' = shownOn("orders", u)
         /\ u = Client \/ OfferDto(u)' = OfferDto(u) =>
              shownOn("offers", u)' = shownOn("offers", u)
         /\ \/ u = Client
            \/ ~inFeed(u) /\ ~inFeed(u)'
            \/ /\ OfferDto(u)' = OfferDto(u) /\ UNCHANGED creating
               /\ acceptsOffers(status') <=> acceptsOffers(status)
            => shownOn("available", u)' = shownOn("available", u)
         /\ \/ UNCHANGED orderFiles /\ (u = Client \/ (u \in executors' <=> u \in executors))
            \/ u # Client /\ u \notin executors /\ u \notin executors'
            => shownOn("documents", u)' = shownOn("documents", u)
         /\ UNCHANGED noticesOf(u) => shownOn("bell", u)' = shownOn("bell", u)
         /\ UNCHANGED noticesOf(u) /\ ((exists' <=> exists) \/ noticesOf(u) = {}) =>
              shownOn("notifications", u)' = shownOn("notifications", u)
<1>0. \A x : /\ OfferDto(x).status = offerStatus[x]
             /\ OfferDto(x)'.status = offerStatus'[x]
             /\ OfferDto(x).rejectionCount = rejectionCount[x]
             /\ OfferDto(x)'.rejectionCount = rejectionCount'[x]
  BY DEF OfferDto
<1>1. ASSUME u # Client \/ UNCHANGED <<status, deal, executors>>
      PROVE  shownOn("orders", u)' = shownOn("orders", u)
  <2>1. CASE u # Client
    BY <2>1 DEF ScreensAsRead
  <2>2. CASE UNCHANGED <<status, deal, executors>>
    <3>1. exists' <=> exists
      BY <2>2 DEF exists
    <3> QED BY <2>2, <3>1 DEF ScreensAsRead
  <2> QED BY <1>1, <2>1, <2>2
<1>2. ASSUME u = Client \/ OfferDto(u)' = OfferDto(u)
      PROVE  shownOn("offers", u)' = shownOn("offers", u)
  <2>1. CASE u = Client
    BY <2>1 DEF ScreensAsRead
  <2>2. CASE OfferDto(u)' = OfferDto(u)
    <3>1. offerStatus'[u] = offerStatus[u]
      BY <1>0, <2>2
    <3> QED BY <2>2, <3>1 DEF ScreensAsRead
  <2> QED BY <1>2, <2>1, <2>2
<1>3. ASSUME u # Client, OfferDto(u)' = OfferDto(u), UNCHANGED creating,
             acceptsOffers(status') <=> acceptsOffers(status)
      PROVE  shownOn("available", u)' = shownOn("available", u)
  <2>1. offerStatus'[u] = offerStatus[u] /\ rejectionCount'[u] = rejectionCount[u]
    BY <1>0, <1>3
  <2>2. inFeed(u)' <=> inFeed(u)
    BY <1>3, <2>1 DEF inFeed
  <2> QED BY <1>3, <2>1, <2>2 DEF ScreensAsRead
<1>4. ASSUME u = Client \/ (~inFeed(u) /\ ~inFeed(u)')
      PROVE  shownOn("available", u)' = shownOn("available", u)
  BY <1>4 DEF ScreensAsRead
<1>5. ASSUME UNCHANGED orderFiles, u = Client \/ (u \in executors' <=> u \in executors)
      PROVE  shownOn("documents", u)' = shownOn("documents", u)
  <2>1. isParty(u)' <=> isParty(u)
    BY <1>5 DEF ScreensAsRead
  <2>2. \A f : documentOwnerLabel(f, u)' = documentOwnerLabel(f, u)
    BY DEF documentOwnerLabel
  <2> QED BY <1>5, <2>1, <2>2 DEF ScreensAsRead
<1>6. ASSUME u # Client, u \notin executors, u \notin executors'
      PROVE  shownOn("documents", u)' = shownOn("documents", u)
  BY <1>6 DEF ScreensAsRead
<1>7. ASSUME UNCHANGED noticesOf(u) PROVE shownOn("bell", u)' = shownOn("bell", u)
  BY <1>7 DEF ScreensAsRead
<1>8. ASSUME UNCHANGED noticesOf(u), (exists' <=> exists) \/ noticesOf(u) = {}
      PROVE  shownOn("notifications", u)' = shownOn("notifications", u)
  <2>1. {NotificationRow(toNotificationDto(n)) : n \in noticesOf(u)}' =
          {NotificationRow(toNotificationDto(n)) : n \in noticesOf(u)}
    <3>1. CASE noticesOf(u) = {}
      BY <1>8, <3>1
    <3>2. CASE exists' <=> exists
      <4>1. \A n : toNotificationDto(n)' = toNotificationDto(n)
        BY <3>2 DEF toNotificationDto
      <4>2. \A n : NotificationRow(toNotificationDto(n))' = NotificationRow(toNotificationDto(n))
        BY <4>1 DEF NotificationRow, notificationHref
      <4> QED BY <1>8, <4>2
    <3> QED BY <1>8, <3>1, <3>2
  <2> QED BY <1>8, <2>1 DEF ScreensAsRead
<1> QED BY <1>1, <1>2, <1>3, <1>4, <1>5, <1>6, <1>7, <1>8

\* Who is not written to keeps the notices there are.
LEMMA NoticesKept ==
  ASSUME NEW new, createNotifications(new), NEW u, \A m \in new : m.user # u
  PROVE  UNCHANGED noticesOf(u)
  BY DEF createNotifications, superseded, noticesOf

\* Of a company that is not the executor, as long as its own offer stays and the
\* order neither starts nor stops to take offers.
LEMMA OthersKept ==
  ASSUME ScreenFacts, ScreenFacts', NEW u \in Companies, OfferDto(u)' = OfferDto(u),
         exists, exists', acceptsOffers(status') <=> acceptsOffers(status), UNCHANGED creating,
         u \notin executors, u \notin executors', UNCHANGED noticesOf(u),
         NEW s \in Screen \ {"order"}
  PROVE  shownOn(s, u)' = shownOn(s, u)
<1>1. u \in Users /\ u # Client
  BY Viewers DEF Users
<1> QED BY <1>1, ListsKept DEF ScreenFacts, Screen

\* The page of a company that is not in play.
LEMMA MaskedPageKept ==
  ASSUME ScreenFacts, ScreenFacts', NEW u \in Companies, OfferDto(u)' = OfferDto(u),
         exists, exists', acceptsOffers(status') <=> acceptsOffers(status),
         acceptsOffers(status) => UNCHANGED taskFiles, ~isActiveOffer(offerStatus[u])
  PROVE  shownOn("order", u)' = shownOn("order", u)
<1>1. OfferDto(u).status = offerStatus[u] /\ OfferDto(u)'.status = offerStatus'[u]
  BY DEF OfferDto
<1>2. offerStatus'[u] = offerStatus[u]
  BY <1>1
<1>3. outOfPlay(u) /\ outOfPlay(u)'
  BY <1>2, LifecycleAssumption DEF outOfPlay, seesProgress, ownStatus
<1>4. toOrderDetail(u) = strangersDetail(u) /\ toOrderDetail(u)' = strangersDetail(u)'
  BY <1>3 DEF ScreenFacts
<1>5. strangersDetail(u)' = strangersDetail(u)
  <2>1. acceptsOffers(status)' <=> acceptsOffers(status)
    BY DEF acceptsOffers
  <2>2. CASE acceptsOffers(status)
    BY <2>1, <2>2 DEF strangersDetail
  <2>3. CASE ~acceptsOffers(status)
    BY <2>1, <2>3 DEF strangersDetail
  <2> QED BY <2>2, <2>3
<1> QED BY <1>4, <1>5 DEF shownOn

\* The page of a company whose offer is pending, when offers of others come and go.
LEMMA PendingPageKept ==
  ASSUME TypeOK, TypeOK', NEW u \in Companies, OfferDto(u)' = OfferDto(u),
         UNCHANGED <<status, deal, correctionComment, clientCompletionComment,
                     verifiedSquareMeters, taskFiles, roundVars, executors>>
  PROVE  shownOn("order", u)' = shownOn("order", u)
<1>0. /\ OfferDto(u).status = offerStatus[u] /\ OfferDto(u)'.status = offerStatus'[u]
      /\ OfferDto(u).rejectionCount = rejectionCount[u]
      /\ OfferDto(u)'.rejectionCount = rejectionCount'[u]
  BY DEF OfferDto
<1>1. offerStatus'[u] = offerStatus[u] /\ rejectionCount'[u] = rejectionCount[u]
  BY <1>0
<1>2. /\ seesProgress(u)' <=> seesProgress(u)
      /\ isParty(u)' <=> isParty(u)
      /\ UNCHANGED ownStatus(u)
  BY <1>1 DEF seesProgress, isParty, ownStatus
<1>3. UNCHANGED visibleOffers(u)
  <2>1. /\ visibleOffers(u) = IF offerStatus[u] = NoOffer THEN {} ELSE {OfferDto(u)}
        /\ visibleOffers(u)' = IF offerStatus'[u] = NoOffer THEN {} ELSE {OfferDto(u)'}
    BY Viewers DEF visibleOffers
  <2> QED BY <1>1, <2>1
<1>4. UNCHANGED orderFiles
  BY DEF orderFiles, roundVars
<1>5. UNCHANGED <<visibleFiles(u), filesSizeBytes(u), submissionDtos(u)>>
  BY <1>2, <1>4 DEF visibleFiles, filesSizeBytes, shown, submissionDtos, hasRow, roundVars
<1>6. UNCHANGED toOrderListItem(u)
  <2>1. /\ {x \in Companies : isParty(u) /\ isExecutor(x)} = IF isParty(u) THEN executors ELSE {}
        /\ {x \in Companies : isParty(u) /\ isExecutor(x)}'
             = IF isParty(u)' THEN executors' ELSE {}
    BY DEF executors
  <2>2. {x \in Companies : isParty(u) /\ isExecutor(x)}'
          = {x \in Companies : isParty(u) /\ isExecutor(x)}
    BY <1>2, <2>1
  <2> QED BY <1>2, <2>2 DEF toOrderListItem, shown
<1>7. canSubmitOffer(u)' <=> canSubmitOffer(u)
  BY <1>1 DEF canSubmitOffer
<1>8. toOrderDetail(u)' = toOrderDetail(u)
  <2>1. (u # Client /\ canSubmitOffer(u))' = (u # Client /\ canSubmitOffer(u))
    BY <1>7
  <2>2. {x \in {Client} : isParty(u)}' = {x \in {Client} : isParty(u)}
    BY <1>2
  <2> QED BY <1>2, <1>3, <1>5, <1>6, <2>1, <2>2 DEF toOrderDetail, shown
<1>9. exists' <=> exists
  BY DEF exists
<1> QED BY <1>8, <1>9 DEF shownOn

-----------------------------------------------------------------------------
(* Who hears what *)

\* A message of this kind is sent to this room.
said(sent, event, room) == \E m \in sent.messages : m.event = event /\ room \in m.rooms

LEMMA HeardInOwnRoom ==
  ASSUME NEW sent, NEW s, NEW u, NEW event \in eventsOf(s), said(sent, event, userRoom(u)),
         s # "order" \/ event # "notification:created"
  PROVE  hears(s, u, sent)
<1>1. userRoom(u) # orderRoom
  BY DEF userRoom, orderRoom
<1>2. userRoom(u) \in roomsOf(s, u) \ {room \in {orderRoom} : u \in sent.evicted}
  BY <1>1 DEF roomsOf
<1>3. PICK m \in sent.messages : m.event = event /\ userRoom(u) \in m.rooms
  BY DEF said
<1>4. accepts(s, m)
  BY <1>3 DEF accepts
<1> QED BY <1>2, <1>3, <1>4 DEF hears

LEMMA HeardInOrderRoom ==
  ASSUME NEW sent, NEW u \in Users, NEW event \in ORDER_DETAIL_EVENTS, said(sent, event, orderRoom),
         event # "notification:created", u \notin sent.evicted,
         u = Client \/ isActiveOffer(offerStatus[u])
  PROVE  hears("order", u, sent)
<1>1. seesRealStatus(toOrderDetail(u), u)
  BY ReaderKnown
<1>2. orderRoom \in roomsOf("order", u) \ {room \in {orderRoom} : u \in sent.evicted}
  BY <1>1 DEF roomsOf
<1>3. PICK m \in sent.messages : m.event = event /\ orderRoom \in m.rooms
  BY DEF said
<1>4. accepts("order", m) /\ event \in eventsOf("order")
  BY <1>3 DEF accepts, eventsOf
<1> QED BY <1>2, <1>3, <1>4 DEF hears

LEMMA HeardInFeed ==
  ASSUME NEW sent, NEW u \in Companies, NEW event \in COMPANY_FEED_EVENTS,
         said(sent, event, companyFeed)
  PROVE  hears("available", u, sent)
<1>1. companyFeed # orderRoom
  BY DEF companyFeed, orderRoom
<1>2. companyFeed \in roomsOf("available", u) \ {room \in {orderRoom} : u \in sent.evicted}
  BY <1>1 DEF roomsOf
<1>3. PICK m \in sent.messages : m.event = event /\ companyFeed \in m.rooms
  BY DEF said
<1>4. accepts("available", m) /\ event \in eventsOf("available")
  BY <1>3 DEF accepts, eventsOf
<1> QED BY <1>2, <1>3, <1>4 DEF hears

\* The fields of a message, and of what is sent.
LEMMA MessageFields ==
  /\ \A e, R : message(e, R).event = e /\ message(e, R).rooms = R
  /\ \A M, X : broadcast(M, X).messages = M /\ broadcast(M, X).evicted = X
  BY DEF message, broadcast

LEMMA NoticesSaid ==
  ASSUME NEW new, NEW n \in new
  PROVE  \E m \in notificationMessages(new) :
           m.event = "notification:created" /\ userRoom(n.user) \in m.rooms /\ m.type = n.type
<1> DEFINE m == [event |-> "notification:created", rooms |-> {userRoom(n.user)}, type |-> n.type]
<1>1. m \in notificationMessages(new)
  BY DEF notificationMessages
<1>2. m.event = "notification:created" /\ m.rooms = {userRoom(n.user)} /\ m.type = n.type
  OBVIOUS
<1> HIDE DEF m
<1> QED BY <1>1, <1>2

\* What the service sends after a transition, from what the machine has planned.
LEMMA PlanIsTold ==
  ASSUME NEW p, NEW more
  PROVE  LET sent == transitionBroadcast(p, more) IN
         /\ p.nextStatus # status =>
              \A room \in {orderRoom, userRoom(Client)} : said(sent, "order:status_changed", room)
         /\ p.nextStatus # status /\ ~(acceptsOffers(status) <=> acceptsOffers(p.nextStatus)) =>
              said(sent, "order:status_changed", companyFeed)
         /\ \A c \in Companies, s \in OfferStatus : setOfferStatus(c, s) \in p.effects =>
              \A room \in {userRoom(Client), userRoom(c)} : said(sent, "offer:status_changed", room)
         /\ \A u, t, k : tell(u, t, k) \in p.effects =>
              said(sent, "notification:created", userRoom(u))
         /\ \A u \in sent.evicted :
              u \in Companies /\ \E s \in OfferStatus : setOfferStatus(u, s) \in p.effects
<1> DEFINE sent == transitionBroadcast(p, more)
           offerMessage(c) == message("offer:status_changed", {userRoom(Client), userRoom(c)})
<1>1. sent.messages = more \union statusMessage(p) \union {offerMessage(c) : c \in offerUpdates(p)}
                           \union notificationMessages(newNotices(p.effects))
  BY MessageFields DEF transitionBroadcast
<1>2. sent.evicted = {c \in offerUpdates(p) : ~isActiveOffer(statusAfter(p.effects, c))}
  BY MessageFields DEF transitionBroadcast
<1> HIDE DEF sent, offerMessage
<1>3. ASSUME p.nextStatus # status
      PROVE  \A room \in {orderRoom, userRoom(Client)} : said(sent, "order:status_changed", room)
  <2> DEFINE rooms == {orderRoom, userRoom(Client)} \union
                      {room \in {companyFeed} : acceptsOffers(status) # acceptsOffers(p.nextStatus)}
             m == message("order:status_changed", rooms)
  <2>1. m \in sent.messages
    BY <1>1, <1>3 DEF statusMessage
  <2>2. m.event = "order:status_changed" /\ m.rooms = rooms
    BY MessageFields
  <2> HIDE DEF m
  <2> QED BY <2>1, <2>2 DEF said
<1>4. ASSUME p.nextStatus # status, ~(acceptsOffers(status) <=> acceptsOffers(p.nextStatus))
      PROVE  said(sent, "order:status_changed", companyFeed)
  <2> DEFINE feed == {room \in {companyFeed} : acceptsOffers(status) # acceptsOffers(p.nextStatus)}
             m == message("order:status_changed", {orderRoom, userRoom(Client)} \union feed)
  <2>1. m \in sent.messages
    BY <1>1, <1>4 DEF statusMessage
  <2>2. companyFeed \in feed
    BY <1>4
  <2>3. m.event = "order:status_changed" /\ companyFeed \in m.rooms
    BY <2>2, MessageFields
  <2> HIDE DEF m
  <2> QED BY <2>1, <2>3 DEF said
<1>5. ASSUME NEW c \in Companies, NEW s \in OfferStatus, setOfferStatus(c, s) \in p.effects,
             NEW room \in {userRoom(Client), userRoom(c)}
      PROVE  said(sent, "offer:status_changed", room)
  <2>1. c \in offerUpdates(p)
    BY <1>5 DEF offerUpdates
  <2>2. offerMessage(c) \in sent.messages
    BY <1>1, <2>1
  <2>3. offerMessage(c).event = "offer:status_changed" /\ room \in offerMessage(c).rooms
    BY MessageFields DEF offerMessage
  <2> QED BY <2>2, <2>3 DEF said
<1>6. ASSUME NEW u, NEW t, NEW k, tell(u, t, k) \in p.effects
      PROVE  said(sent, "notification:created", userRoom(u))
  <2>1. tell(u, t, k).kind = "CREATE_NOTIFICATION" /\ tell(u, t, k).notice = notify(u, t, k)
    BY DEF tell
  <2>2. notify(u, t, k) \in newNotices(p.effects)
    BY <1>6, <2>1 DEF newNotices
  <2>3. notify(u, t, k).user = u
    BY DraftFields
  <2>4. PICK m \in notificationMessages(newNotices(p.effects)) :
          m.event = "notification:created" /\ userRoom(u) \in m.rooms
    BY <2>2, <2>3, NoticesSaid
  <2> QED BY <1>1, <2>4 DEF said
<1>7. ASSUME NEW u \in sent.evicted
      PROVE  u \in Companies /\ \E s \in OfferStatus : setOfferStatus(u, s) \in p.effects
  BY <1>2, <1>7 DEF offerUpdates
<1> QED BY <1>3, <1>4, <1>5, <1>6, <1>7 DEF sent

-----------------------------------------------------------------------------
(* The state before a step and after it *)

LEMMA ScreenFactsHold ==
  ASSUME TypeOK, SelectionConsistent, status = "NONE" => notices = {}
  PROVE  ScreenFacts
<1>1. ScreensAsRead
  BY ScreensRead
<1>2. status \notin WorkStages => executors = {}
  BY OneExecutor DEF executors
<1>3. ASSUME status \in WorkStages
      PROVE  /\ \E x \in Companies : executors = {x}
             /\ \A c \in Companies \ executors : ~isActiveOffer(offerStatus[c])
  <2>1. PICK x \in Companies :
          /\ isExecutor(x)
          /\ \A b \in Companies \ {x} :
               /\ ~isExecutor(b)
               /\ offerStatus[b] \in {NoOffer, "WITHDRAWN", "REJECTED", "NOT_ACCEPTED"}
    BY <1>3, OneExecutor
  <2>2. executors = {x}
    BY <2>1 DEF executors
  <2>3. \A o \in {NoOffer, "WITHDRAWN", "REJECTED", "NOT_ACCEPTED"} : ~isActiveOffer(o)
    BY DEF isActiveOffer, ACTIVE_OFFER_STATUSES, EXECUTOR_OFFER_STATUSES,
       EXECUTING_OFFER_STATUSES, NoOffer
  <2> QED BY <2>1, <2>2, <2>3
<1>4. \A c \in executors : c \in Companies /\ isActiveOffer(offerStatus[c])
  BY ExecutorsAreActive DEF executors, isExecutor
<1>5. \A c \in Companies : outOfPlay(c) => toOrderDetail(c) = strangersDetail(c)
  BY StrangersGet
<1> QED BY <1>1, <1>2, <1>3, <1>4, <1>5 DEF ScreenFacts

\* Nobody is written to before there is an order.
NothingSaidBefore == status = "NONE" => notices = {}

LEMMA NextNothingSaidBefore ==
  TypeOK /\ NothingSaidBefore /\ [Next]_vars => NothingSaidBefore'
<1> SUFFICES ASSUME TypeOK, NothingSaidBefore, [Next]_vars PROVE NothingSaidBefore'
  OBVIOUS
<1>1. CASE UNCHANGED vars
  BY <1>1 DEF vars, orderVars, NothingSaidBefore
<1>2. CASE \/ \E c \in Companies : SubmitWork(c)
           \/ \E c \in Companies, text \in Texts \union {Null} : Confirm(c, text)
           \/ \E c \in Companies, text \in Texts : Dispute(c, text)
  BY <1>2 DEF SubmitWork, Confirm, Dispute, workTransition, NothingSaidBefore
<1>3. CASE \/ \E d \in drafts : CommitSubmit(d)
           \/ \E c \in Companies : Withdraw(c) \/ Reject(c)
           \/ AcceptOffer \/ Remove \/ Create
  BY <1>3 DEF CommitSubmit, Withdraw, Reject, leaveSelection, statusAfterLeaving, AcceptOffer,
              Remove, Create, DeleteRow, NothingSaidBefore
<1>4. CASE \/ \E F \in SUBSET Files : AttachTaskFiles(F)
           \/ RollbackCreate
           \/ \E c \in Companies, t \in Terms : StartSubmit(c, t)
           \/ \E d \in drafts : DropSubmit(d)
           \/ \E c \in Companies : LoadOffer(c)
           \/ \E F \in (SUBSET Files) \ {{}}, text \in Texts : OpenSubmission(F, text)
           \/ \E u \in uploads : DropUpload(u)
           \/ DayPasses
  BY <1>4 DEF AttachTaskFiles, RollbackCreate, DeleteRow, StartSubmit, DropSubmit, LoadOffer,
              OpenSubmission, DropUpload, DayPasses, orderVars, NothingSaidBefore
<1>5. CASE \/ \E u \in uploads : AttachWork(u)
           \/ \E area \in Areas : VerifyArea(area)
  <2>1. status # "NONE" /\ status' = status
    BY <1>5 DEF AttachWork, assertSubmissionOpen, VerifyArea, mayVerifyArea, canUploadWork,
       canVerifyArea, WORK_UPLOAD_ORDER_STATUSES, AREA_VERIFIABLE_ORDER_STATUSES, orderVars
  <2> QED BY <2>1 DEF NothingSaidBefore
<1>6. CASE \/ \E n \in notices : MarkRead(n)
           \/ \E u \in Readers : MarkAllRead(u)
  <2>1. notices # {} /\ status' = status
    BY <1>6 DEF MarkRead, MarkAllRead, orderVars
  <2> QED BY <2>1 DEF NothingSaidBefore
<1> QED BY <1>1, <1>2, <1>3, <1>4, <1>5, <1>6 DEF Next

-----------------------------------------------------------------------------
(* What is told to whom, role by role *)

\* The client: something of the order, a word for each list that changes.
LEMMA ClientIsTold ==
  ASSUME ScreenFacts, ScreenFacts', exists, exists', NEW sent,
         UNCHANGED <<status, deal, executors>>
           \/ said(sent, "order:status_changed", userRoom(Client)),
         UNCHANGED orderFiles \/ said(sent, "order:files_updated", userRoom(Client)),
         UNCHANGED noticesOf(Client) \/ said(sent, "notification:created", userRoom(Client)),
         \E event \in ORDER_DETAIL_EVENTS \ {"notification:created"} :
           said(sent, event, userRoom(Client)),
         NEW s \in Screen
  PROVE  shownOn(s, Client)' = shownOn(s, Client) \/ hears(s, Client, sent)
<1>0. Client \in Users /\ ScreensAsRead /\ ScreensAsRead'
  BY DEF Users, ScreenFacts
<1>1. CASE s = "orders"
  <2>1. "order:status_changed" \in eventsOf(s)
    BY <1>1 DEF eventsOf, ORDERS_LIST_EVENTS
  <2> QED BY <1>0, <1>1, <2>1, ListsKept, HeardInOwnRoom
<1>2. CASE s \in {"offers", "available"}
  BY <1>0, <1>2, ListsKept
<1>3. CASE s = "documents"
  <2>1. "order:files_updated" \in eventsOf(s)
    BY <1>3 DEF eventsOf, DOCUMENTS_EVENTS
  <2> QED BY <1>0, <1>3, <2>1, ListsKept, HeardInOwnRoom
<1>4. CASE s = "order"
  <2>1. eventsOf(s) = ORDER_DETAIL_EVENTS
    BY <1>4 DEF eventsOf
  <2> QED BY <1>4, <2>1, HeardInOwnRoom
<1>5. CASE s \in {"notifications", "bell"}
  <2>1. "notification:created" \in eventsOf(s) /\ s # "order"
    BY <1>5 DEF eventsOf, NOTIFICATIONS_EVENTS
  <2> QED BY <1>0, <1>5, <2>1, ListsKept, HeardInOwnRoom
<1> QED BY <1>1, <1>2, <1>3, <1>4, <1>5 DEF Screen

\* The company whose offer the step is about.
LEMMA HolderIsTold ==
  ASSUME ScreenFacts, ScreenFacts', exists, exists', NEW sent, NEW c \in Companies,
         said(sent, "offer:status_changed", userRoom(c)),
         UNCHANGED noticesOf(c) \/ said(sent, "notification:created", userRoom(c)),
         NEW s \in Screen \ {"available"}
  PROVE  shownOn(s, c)' = shownOn(s, c) \/ hears(s, c, sent)
<1>0. c \in Users /\ c # Client /\ ScreensAsRead /\ ScreensAsRead'
  BY Viewers DEF Users, ScreenFacts
<1>1. CASE s = "orders"
  BY <1>0, <1>1, ListsKept
<1>2. CASE s \in {"offers", "documents", "order"}
  <2>1. "offer:status_changed" \in eventsOf(s)
    BY <1>2 DEF eventsOf, COMPANY_OFFERS_EVENTS, DOCUMENTS_EVENTS, ORDER_DETAIL_EVENTS
  <2> QED BY <2>1, HeardInOwnRoom
<1>3. CASE s \in {"notifications", "bell"}
  <2>1. "notification:created" \in eventsOf(s) /\ s # "order"
    BY <1>3 DEF eventsOf, NOTIFICATIONS_EVENTS
  <2> QED BY <1>0, <1>3, <2>1, ListsKept, HeardInOwnRoom
<1> QED BY <1>1, <1>2, <1>3 DEF Screen

\* Outside the search an order is in nobody's feed.
LEMMA NoFeed ==
  ASSUME ScreenFacts, ScreenFacts', NEW c \in Companies,
         ~acceptsOffers(status), ~acceptsOffers(status')
  PROVE  shownOn("available", c)' = shownOn("available", c)
<1>1. ~inFeed(c) /\ ~inFeed(c)'
  BY DEF inFeed
<1> QED BY <1>1, ListsKept DEF ScreenFacts, Users

\* A company that the step is not about: it is pending still, or gets the mask.
LEMMA OthersAsBefore ==
  ASSUME ScreenFacts, ScreenFacts', NEW u \in Companies, OfferDto(u)' = OfferDto(u),
         exists, exists', acceptsOffers(status') <=> acceptsOffers(status), UNCHANGED creating,
         u \notin executors, u \notin executors', UNCHANGED noticesOf(u), UNCHANGED taskFiles,
         isActiveOffer(offerStatus[u]) =>
           UNCHANGED <<status, deal, correctionComment, clientCompletionComment,
                       verifiedSquareMeters, roundVars, executors>>,
         NEW s \in Screen
  PROVE  shownOn(s, u)' = shownOn(s, u)
<1>1. CASE s # "order"
  BY <1>1, OthersKept
<1>2. CASE s = "order" /\ ~isActiveOffer(offerStatus[u])
  BY <1>2, MaskedPageKept
<1>3. CASE s = "order" /\ isActiveOffer(offerStatus[u])
  BY <1>3, PendingPageKept DEF ScreenFacts
<1> QED BY <1>1, <1>2, <1>3

\* The one step of the state machine that the other companies do not notice:
\* one offer gets a status, and the order stays in the search or out of it.
LEMMA OneOfferIsTold ==
  ASSUME ScreenFacts, ScreenFacts', exists, exists', NEW c \in Companies, NEW p, NEW more,
         NEW new \in OfferStatus, setOfferStatus(c, new) \in p.effects, p.nextStatus = status',
         acceptsOffers(status') <=> acceptsOffers(status), UNCHANGED <<creating, taskFiles>>,
         status' = status => UNCHANGED <<deal, executors>>, UNCHANGED orderFiles,
         \A u \in {Client, c} : UNCHANGED noticesOf(u) \/ \E t, k : tell(u, t, k) \in p.effects,
         \A u \in Companies \ {c} :
           /\ OfferDto(u)' = OfferDto(u) /\ UNCHANGED noticesOf(u)
           /\ u \notin executors /\ u \notin executors'
           /\ isActiveOffer(offerStatus[u]) =>
                UNCHANGED <<status, deal, correctionComment, clientCompletionComment,
                            verifiedSquareMeters, roundVars, executors>>,
         NEW leftOut,
         \/ ~acceptsOffers(status)
         \/ <<c, "available">> \in leftOut
         \/ \E t, k : tell(c, t, k) \in p.effects
  PROVE  tells(transitionBroadcast(p, more), leftOut)
<1> DEFINE sent == transitionBroadcast(p, more)
<1>0. /\ p.nextStatus # status => said(sent, "order:status_changed", userRoom(Client))
      /\ \A u \in {Client, c} : said(sent, "offer:status_changed", userRoom(u))
      /\ \A u \in {Client, c} :
           UNCHANGED noticesOf(u) \/ said(sent, "notification:created", userRoom(u))
      /\ (\E t, k : tell(c, t, k) \in p.effects) =>
           said(sent, "notification:created", userRoom(c))
  BY PlanIsTold
<1> HIDE DEF sent
<1> SUFFICES ASSUME NEW u \in Users, NEW s \in Screen, <<u, s>> \notin leftOut
             PROVE  shownOn(s, u)' = shownOn(s, u) \/ hears(s, u, sent)
  BY DEF tells, sent
<1>1. CASE u = Client
  <2>1. UNCHANGED <<status, deal, executors>>
          \/ said(sent, "order:status_changed", userRoom(Client))
    BY <1>0
  <2>2. \E event \in ORDER_DETAIL_EVENTS \ {"notification:created"} :
          said(sent, event, userRoom(Client))
    BY <1>0 DEF ORDER_DETAIL_EVENTS
  <2> QED BY <1>0, <1>1, <2>1, <2>2, ClientIsTold
<1>2. CASE u = c /\ s # "available"
  BY <1>0, <1>2, HolderIsTold
<1>3. CASE u = c /\ s = "available"
  <2>1. CASE ~acceptsOffers(status)
    BY <1>3, <2>1, NoFeed
  <2>2. CASE \E t, k : tell(c, t, k) \in p.effects
    <3>1. "notification:created" \in eventsOf(s)
      BY <1>3 DEF eventsOf, COMPANY_FEED_EVENTS
    <3> QED BY <1>0, <1>3, <2>2, <3>1, HeardInOwnRoom
  <2> QED BY <1>3, <2>1, <2>2
<1>4. CASE u \in Companies \ {c}
  BY <1>4, OthersAsBefore
<1> QED BY <1>1, <1>2, <1>3, <1>4, Viewers

-----------------------------------------------------------------------------
(* The transitions are told *)

\* While the client chooses nobody executes the order, and an offer in play is
\* a pending one.
LEMMA DuringTheChoice ==
  ASSUME ScreenFacts, ScreenFacts', status \in OFFER_ELIGIBLE_ORDER_STATUSES,
         status' \in OFFER_ELIGIBLE_ORDER_STATUSES
  PROVE  /\ exists /\ exists'
         /\ acceptsOffers(status) /\ acceptsOffers(status')
         /\ executors = {} /\ executors' = {}
         /\ \A u \in Companies : isActiveOffer(offerStatus[u]) =>
              offerStatus[u] = "SENT" /\ status = "AWAITING_CONFIRMATION"
<1>1. /\ status \in {"WAITING", "AWAITING_CONFIRMATION"}
      /\ status' \in {"WAITING", "AWAITING_CONFIRMATION"}
  BY DEF OFFER_ELIGIBLE_ORDER_STATUSES
<1>2. exists /\ exists' /\ acceptsOffers(status) /\ acceptsOffers(status')
  BY <1>1 DEF exists, OrderStatus, acceptsOffers, OFFER_ELIGIBLE_ORDER_STATUSES
<1>3. executors = {} /\ executors' = {}
  BY <1>1 DEF ScreenFacts, WorkStages
<1>4. ASSUME NEW u \in Companies, isActiveOffer(offerStatus[u])
      PROVE  offerStatus[u] = "SENT" /\ status = "AWAITING_CONFIRMATION"
  <2>1. offerStatus[u] \notin {NoOffer, "WITHDRAWN", "REJECTED"}
    BY <1>4 DEF isActiveOffer, ACTIVE_OFFER_STATUSES, EXECUTOR_OFFER_STATUSES,
       EXECUTING_OFFER_STATUSES, NoOffer
  <2> QED BY <1>1, <2>1 DEF ScreenFacts, SelectionConsistent
<1> QED BY <1>2, <1>3, <1>4

LEMMA FilesAsBefore ==
  ASSUME UNCHANGED <<taskFiles, roundFiles>> PROVE UNCHANGED orderFiles
  BY DEF orderFiles

\* A new notice of one user leaves those of the others.
LEMMA OneIsWritten ==
  ASSUME NEW u, NEW t, NEW k, createNotifications({notify(u, t, k)}), NEW v, v # u
  PROVE  UNCHANGED noticesOf(v)
  BY DraftFields, NoticesKept

LEMMA SubmissionOfOfferTold ==
  ASSUME ScreenFacts, ScreenFacts', NEW d \in drafts, SubmitByMachine(d)
  PROVE  transitionTold(submitRequest(d.company), d.company, offerEventOf(d.company),
                        mine(d.company, {"available"}))
<1> DEFINE c == d.company
           p == outcome(submitRequest(c), c)
<1>0. CommitSubmit(d)
  BY SubmitIsCommit DEF ScreenFacts
<1>1. c \in Companies /\ c # Client
  BY Viewers DEF ScreenFacts, TypeOK
<1>2. /\ p.nextStatus = "AWAITING_CONFIRMATION"
      /\ p.effects = {setOfferStatus(c, "SENT"), tell(Client, "OFFER_RECEIVED", offerKey(c))}
  BY <1>1, OutcomesOfOffers
<1> HIDE DEF p
<1>3. status \in OFFER_ELIGIBLE_ORDER_STATUSES /\ status' = "AWAITING_CONFIRMATION"
  BY <1>0, TableOfOffers DEF CommitSubmit, maySubmit
<1>4. status' \in OFFER_ELIGIBLE_ORDER_STATUSES
  BY <1>3 DEF OFFER_ELIGIBLE_ORDER_STATUSES
<1>5. /\ UNCHANGED <<creating, taskFiles, deal, correctionComment, clientCompletionComment,
                     verifiedSquareMeters, roundVars, rejectionCount>>
      /\ createNotifications({notify(Client, "OFFER_RECEIVED", offerKey(c))})
      /\ offerStatus' = [offerStatus EXCEPT ![c] = "SENT"]
      /\ proposed' = [proposed EXCEPT ![c] = d.terms]
      /\ editedAt' = [editedAt EXCEPT ![c] = stampOfUpsert(d)]
  BY <1>0 DEF CommitSubmit, rowUnchanged
<1>6. \A u \in Companies \ {c} : OfferDto(u)' = OfferDto(u)
  BY <1>5 DEF ScreenFacts, TypeOK, OfferDto
<1>7. \A u \in Companies : UNCHANGED noticesOf(u)
  BY <1>5, OneIsWritten, Viewers
<1>8. UNCHANGED orderFiles
  BY <1>5, FilesAsBefore DEF roundVars
<1>9. "SENT" \in OfferStatus /\ <<c, "available">> \in mine(c, {"available"})
  BY DEF OfferStatus, mine
<1>10. \A u \in Companies \ {c} : isActiveOffer(offerStatus[u]) =>
         UNCHANGED <<status, deal, correctionComment, clientCompletionComment,
                     verifiedSquareMeters, roundVars, executors>>
  BY <1>3, <1>4, <1>5, DuringTheChoice
<1>11. tells(transitionBroadcast(p, offerEventOf(c)), mine(c, {"available"}))
  <2>1. setOfferStatus(c, "SENT") \in p.effects /\ p.nextStatus = status'
        /\ tell(Client, "OFFER_RECEIVED", offerKey(c)) \in p.effects
    BY <1>2, <1>3
  <2> QED
    BY <1>1, <1>3, <1>4, <1>5, <1>6, <1>7, <1>8, <1>9, <1>10, <2>1, DuringTheChoice, OneOfferIsTold
<1> QED BY <1>11 DEF transitionTold, p

LEMMA LeavingTold ==
  ASSUME ScreenFacts, ScreenFacts', NEW c \in Companies, NEW newStatus \in OfferStatus,
         NEW u \in {Client, c}, NEW event \in {"OFFER_WITHDRAWN", "OFFER_REJECTED"},
         leaveSelection(c, event, newStatus, u),
         \A b \in Companies \ {c} : rejectionCount'[b] = rejectionCount[b],
         NEW p, p.nextStatus = statusAfterLeaving(c),
         p.effects = {setOfferStatus(c, newStatus), tell(u, event, offerKey(c))},
         NEW leftOut, u = c \/ <<c, "available">> \in leftOut
  PROVE  tells(transitionBroadcast(p, {}), leftOut)
<1>1. status = "AWAITING_CONFIRMATION" /\ status' = statusAfterLeaving(c)
  BY TableOfOffers DEF leaveSelection
<1>2. /\ status \in OFFER_ELIGIBLE_ORDER_STATUSES
      /\ status' \in OFFER_ELIGIBLE_ORDER_STATUSES
  BY <1>1 DEF OFFER_ELIGIBLE_ORDER_STATUSES, statusAfterLeaving
<1>3. /\ UNCHANGED <<creating, taskFiles, deal, correctionComment, clientCompletionComment,
                     verifiedSquareMeters, roundVars, proposed, editedAt>>
      /\ createNotifications({notify(u, event, offerKey(c))})
      /\ offerStatus' = [offerStatus EXCEPT ![c] = newStatus]
  BY DEF leaveSelection, rowUnchanged
<1>4. \A b \in Companies \ {c} : OfferDto(b)' = OfferDto(b)
  BY <1>3 DEF ScreenFacts, TypeOK, OfferDto
<1>5. \A v \in Users : v # u => UNCHANGED noticesOf(v)
  BY <1>3, OneIsWritten
<1>6. UNCHANGED orderFiles
  BY <1>3, FilesAsBefore DEF roundVars
<1>7. \A b \in Companies \ {c} : isActiveOffer(offerStatus[b]) =>
        UNCHANGED <<status, deal, correctionComment, clientCompletionComment,
                    verifiedSquareMeters, roundVars, executors>>
  <2> SUFFICES ASSUME NEW b \in Companies \ {c}, isActiveOffer(offerStatus[b])
               PROVE  UNCHANGED <<status, deal, correctionComment, clientCompletionComment,
                                  verifiedSquareMeters, roundVars, executors>>
    OBVIOUS
  <2>1. offerStatus[b] = "SENT"
    BY <1>2, DuringTheChoice
  <2>2. status' = "AWAITING_CONFIRMATION"
    BY <1>1, <2>1 DEF statusAfterLeaving, otherActiveOffers
  <2> QED BY <1>1, <1>2, <1>3, <2>2, DuringTheChoice
<1>8. /\ setOfferStatus(c, newStatus) \in p.effects /\ p.nextStatus = status'
      /\ tell(u, event, offerKey(c)) \in p.effects
  BY <1>1
<1>9. \A v \in {Client, c} : UNCHANGED noticesOf(v) \/ \E t, k : tell(v, t, k) \in p.effects
  BY <1>5, <1>8 DEF Users
<1>10. \A b \in Companies \ {c} : UNCHANGED noticesOf(b)
  BY <1>5, Viewers DEF Users
<1>11. <<c, "available">> \in leftOut \/ \E t, k : tell(c, t, k) \in p.effects
  BY <1>8
<1> QED
  BY <1>2, <1>3, <1>4, <1>6, <1>7, <1>8, <1>9, <1>10, <1>11, DuringTheChoice, OneOfferIsTold

LEMMA WithdrawalTold ==
  ASSUME ScreenFacts, ScreenFacts', NEW c \in Companies, LeaveByMachine(c, "OFFER_WITHDRAWN")
  PROVE  transitionTold([type |-> "OFFER_WITHDRAWN", company |-> c], c, {}, mine(c, {"available"}))
<1> DEFINE p == outcome([type |-> "OFFER_WITHDRAWN", company |-> c], c)
<1>1. Withdraw(c)
  BY WithdrawalIsWithdraw DEF ScreenFacts
<1>2. /\ p.nextStatus = statusAfterLeaving(c)
      /\ p.effects = {setOfferStatus(c, "WITHDRAWN"), tell(Client, "OFFER_WITHDRAWN", offerKey(c))}
  BY OutcomesOfOffers
<1> HIDE DEF p
<1>3. /\ leaveSelection(c, "OFFER_WITHDRAWN", "WITHDRAWN", Client)
      /\ \A b \in Companies \ {c} : rejectionCount'[b] = rejectionCount[b]
  BY <1>1 DEF Withdraw
<1>4. "WITHDRAWN" \in OfferStatus /\ <<c, "available">> \in mine(c, {"available"})
  BY DEF OfferStatus, mine
<1>5. tells(transitionBroadcast(p, {}), mine(c, {"available"}))
  BY <1>2, <1>3, <1>4, LeavingTold
<1> QED BY <1>5 DEF transitionTold, p

LEMMA RejectionTold ==
  ASSUME ScreenFacts, ScreenFacts', NEW c \in Companies, LeaveByMachine(c, "OFFER_REJECTED")
  PROVE  transitionTold([type |-> "OFFER_REJECTED", company |-> c], c, {}, {})
<1> DEFINE p == outcome([type |-> "OFFER_REJECTED", company |-> c], c)
<1>1. Reject(c)
  BY RejectionIsReject DEF ScreenFacts
<1>2. /\ p.nextStatus = statusAfterLeaving(c)
      /\ p.effects = {setOfferStatus(c, "REJECTED"), tell(c, "OFFER_REJECTED", offerKey(c))}
  BY OutcomesOfOffers
<1> HIDE DEF p
<1>3. /\ leaveSelection(c, "OFFER_REJECTED", "REJECTED", c)
      /\ \A b \in Companies \ {c} : rejectionCount'[b] = rejectionCount[b]
  BY <1>1 DEF Reject, ScreenFacts, TypeOK
<1>4. "REJECTED" \in OfferStatus
  BY DEF OfferStatus
<1>5. tells(transitionBroadcast(p, {}), {})
  BY <1>2, <1>3, <1>4, LeavingTold
<1> QED BY <1>5 DEF transitionTold, p

\* The work: the executor goes on being the only one, and nobody sees the others.
LEMMA DuringTheWorkAlone ==
  ASSUME ScreenFacts, ScreenFacts', status \in WorkStages, status' \in WorkStages,
         NEW c \in executors, c \in executors'
  PROVE  /\ exists /\ exists' /\ c \in Companies /\ c # Client
         /\ ~acceptsOffers(status) /\ ~acceptsOffers(status')
         /\ executors = {c} /\ executors' = {c}
         /\ isActiveOffer(offerStatus[c])
         /\ \A u \in Companies \ {c} : ~isActiveOffer(offerStatus[u])
<1>1. executors = {c} /\ executors' = {c}
  BY DEF ScreenFacts
<1>2. exists /\ exists' /\ ~acceptsOffers(status) /\ ~acceptsOffers(status')
  BY DEF exists, WorkStages, OrderStatus, acceptsOffers, OFFER_ELIGIBLE_ORDER_STATUSES
<1> QED BY <1>1, <1>2, Viewers DEF ScreenFacts

\* The three transitions of the work.
LEMMA WorkTold ==
  ASSUME ScreenFacts, ScreenFacts', NEW c \in Companies, NEW event, NEW next \in WorkStages,
         NEW newStatus \in OfferStatus, status \in WorkStages,
         workTransition(c, event, next, newStatus), UNCHANGED roundFiles,
         NEW u \in {Client, c}, NEW t, createNotifications({notify(u, t, Null)}),
         NEW p, p.nextStatus = next, setOfferStatus(c, newStatus) \in p.effects,
         tell(u, t, Null) \in p.effects, next # status, isExecutorOffer(newStatus)
  PROVE  tells(transitionBroadcast(p, {}), {})
<1>1. /\ UNCHANGED <<creating, taskFiles, proposed, editedAt, rejectionCount>>
      /\ offerStatus' = [offerStatus EXCEPT ![c] = newStatus]
      /\ status' = next /\ isExecutor(c)
  BY DEF workTransition
<1>2. c \in executors /\ c \in executors'
  BY <1>1 DEF executors, isExecutor, ScreenFacts, TypeOK
<1>3. \A b \in Companies \ {c} : OfferDto(b)' = OfferDto(b)
  BY <1>1 DEF ScreenFacts, TypeOK, OfferDto
<1>4. \A v \in Users : v # u => UNCHANGED noticesOf(v)
  BY OneIsWritten
<1>5. UNCHANGED orderFiles
  BY <1>1, FilesAsBefore
<1>6. \A v \in {Client, c} : UNCHANGED noticesOf(v) \/ \E x, k : tell(v, x, k) \in p.effects
  BY <1>4 DEF Users
<1>7. \A b \in Companies \ {c} : UNCHANGED noticesOf(b)
  BY <1>4, Viewers DEF Users
<1>8. /\ exists /\ exists' /\ ~acceptsOffers(status) /\ ~acceptsOffers(status')
      /\ \A b \in Companies \ {c} :
           ~isActiveOffer(offerStatus[b]) /\ b \notin executors /\ b \notin executors'
  BY <1>1, <1>2, DuringTheWorkAlone
<1> QED BY <1>1, <1>3, <1>5, <1>6, <1>7, <1>8, OneOfferIsTold

LEMMA WorkStatuses ==
  /\ WORK_UPLOAD_ORDER_STATUSES \subseteq WorkStages
  /\ AREA_VERIFIABLE_ORDER_STATUSES \subseteq WorkStages
  /\ "AWAITING_COMPLETION_CONFIRMATION" \in WorkStages \ WORK_UPLOAD_ORDER_STATUSES
  /\ {"COMPLETED", "COMPLETION_DISPUTED"} \subseteq WorkStages
  /\ {"WORK_SUBMITTED", "COMPLETED", "BACK_FOR_OVERRIDE"} \subseteq OfferStatus
  /\ \A o \in {"WORK_SUBMITTED", "COMPLETED", "BACK_FOR_OVERRIDE"} : isExecutorOffer(o)
  BY DEF WORK_UPLOAD_ORDER_STATUSES, AREA_VERIFIABLE_ORDER_STATUSES, WorkStages, OfferStatus,
     isExecutorOffer, EXECUTOR_OFFER_STATUSES, EXECUTING_OFFER_STATUSES

LEMMA SubmissionOfWorkTold ==
  ASSUME ScreenFacts, ScreenFacts', SubmitWorkByMachine
  PROVE  \E c \in executors : transitionTold([type |-> "WORK_SUBMITTED"], c, {}, {})
<1>1. PICK c \in Companies : SubmitWork(c)
  BY SubmissionIsSubmitWork DEF ScreenFacts
<1> DEFINE p == outcome([type |-> "WORK_SUBMITTED"], c)
<1>2. /\ p.nextStatus = "AWAITING_COMPLETION_CONFIRMATION"
      /\ p.effects = {setOfferStatus(c, "WORK_SUBMITTED"), tell(Client, "WORK_SUBMITTED", Null)}
  BY OutcomesOfWork
<1> HIDE DEF p
<1>3. /\ workTransition(c, "WORK_SUBMITTED", "AWAITING_COMPLETION_CONFIRMATION", "WORK_SUBMITTED")
      /\ createNotifications({notify(Client, "WORK_SUBMITTED", Null)})
      /\ UNCHANGED roundFiles
  BY <1>1 DEF SubmitWork
<1>4. status \in WORK_UPLOAD_ORDER_STATUSES /\ c \in executors
  BY <1>3, TableOfWork DEF workTransition, executors
<1>5. tells(transitionBroadcast(p, {}), {})
  BY <1>2, <1>3, <1>4, WorkStatuses, WorkTold
<1> QED BY <1>4, <1>5 DEF transitionTold, p

LEMMA ConfirmationTold ==
  ASSUME ScreenFacts, ScreenFacts', NEW text \in Texts \union {Null},
         JudgeByMachine([type |-> "WORK_CONFIRMED", completionComment |-> text])
  PROVE  \E c \in executors :
           transitionTold([type |-> "WORK_CONFIRMED", completionComment |-> text], c, {}, {})
<1>1. PICK c \in Companies : Confirm(c, text)
  BY ConfirmationIsConfirm DEF ScreenFacts
<1> DEFINE p == outcome([type |-> "WORK_CONFIRMED", completionComment |-> text], c)
<1>2. /\ p.nextStatus = "COMPLETED"
      /\ p.effects = {setOfferStatus(c, "COMPLETED"), setCompletion(text),
                      tell(c, "WORK_CONFIRMED", Null)}
  BY OutcomesOfWork
<1> HIDE DEF p
<1>3. /\ workTransition(c, "WORK_CONFIRMED", "COMPLETED", "COMPLETED")
      /\ createNotifications({notify(c, "WORK_CONFIRMED", Null)})
      /\ UNCHANGED roundFiles
  BY <1>1 DEF Confirm, roundVars
<1>4. status = "AWAITING_COMPLETION_CONFIRMATION" /\ c \in executors
  BY <1>3, TableOfWork DEF workTransition, executors
<1>5. tells(transitionBroadcast(p, {}), {})
  BY <1>2, <1>3, <1>4, WorkStatuses, WorkTold
<1> QED BY <1>4, <1>5 DEF transitionTold, p

LEMMA DisputeTold ==
  ASSUME ScreenFacts, ScreenFacts', NEW text \in Texts,
         JudgeByMachine([type |-> "WORK_DISPUTED", correctionComment |-> text])
  PROVE  \E c \in executors :
           transitionTold([type |-> "WORK_DISPUTED", correctionComment |-> text], c, {}, {})
<1>1. PICK c \in Companies : Dispute(c, text)
  BY DisputeIsDispute DEF ScreenFacts
<1> DEFINE p == outcome([type |-> "WORK_DISPUTED", correctionComment |-> text], c)
<1>2. /\ p.nextStatus = "COMPLETION_DISPUTED"
      /\ p.effects = {setOfferStatus(c, "BACK_FOR_OVERRIDE"), setCorrection(text),
                      tell(c, "WORK_DISPUTED", Null)}
  BY OutcomesOfWork
<1> HIDE DEF p
<1>3. /\ workTransition(c, "WORK_DISPUTED", "COMPLETION_DISPUTED", "BACK_FOR_OVERRIDE")
      /\ createNotifications({notify(c, "WORK_DISPUTED", Null)})
      /\ UNCHANGED roundFiles
  BY <1>1 DEF Dispute, roundVars
<1>4. status = "AWAITING_COMPLETION_CONFIRMATION" /\ c \in executors
  BY <1>3, TableOfWork DEF workTransition, executors
<1>5. tells(transitionBroadcast(p, {}), {})
  BY <1>2, <1>3, <1>4, WorkStatuses, WorkTold
<1> QED BY <1>4, <1>5 DEF transitionTold, p

\* The choice: the order leaves the feed of all, and the losers are named.
LEMMA AcceptanceTold ==
  ASSUME ScreenFacts, ScreenFacts', AcceptByMachine
  PROVE  transitionTold(acceptRequest(seen), seen.company, {}, bystanders \X {"order"})
<1> DEFINE c == seen.company
           R == otherActiveOffers(c)
           p == outcome(acceptRequest(seen), c)
           sent == transitionBroadcast(p, {})
           leftOut == bystanders \X {"order"}
<1>1. AcceptOffer
  BY AcceptIsAcceptOffer DEF ScreenFacts
<1>2. c \in Companies
  BY <1>1 DEF AcceptOffer, ScreenFacts, TypeOK
<1>3. /\ p.nextStatus = "IN_PROGRESS"
      /\ p.effects =
           {setOfferStatus(c, "ACCEPTED"), setDeal(proposed[c]),
            tell(c, "OFFER_ACCEPTED", offerKey(c))}
           \union {setOfferStatus(b, "NOT_ACCEPTED") : b \in R}
           \union {tell(b, "OFFER_NOT_ACCEPTED", offerKey(b)) : b \in R}
  BY <1>2, OutcomesOfOffers DEF acceptRequest, acceptOfferBody
<1>4. /\ status' = "IN_PROGRESS"
      /\ UNCHANGED <<taskFiles, roundFiles, proposed, editedAt, rejectionCount>>
      /\ offerStatus' = [b \in Companies |-> IF b = c THEN "ACCEPTED"
                                             ELSE IF b \in R THEN "NOT_ACCEPTED"
                                             ELSE offerStatus[b]]
      /\ createNotifications({notify(c, "OFFER_ACCEPTED", offerKey(c))} \union
                             {notify(b, "OFFER_NOT_ACCEPTED", offerKey(b)) : b \in R})
      /\ canTransition(status, "OFFER_ACCEPTED", offerStatus[c])
  BY <1>1 DEF AcceptOffer, rowUnchanged, roundVars
<1>5. status = "AWAITING_CONFIRMATION"
  BY <1>4, TableOfOffers
<1>6. R = {b \in Companies \ {c} : offerStatus[b] = "SENT"}
  BY DEF otherActiveOffers
<1> HIDE DEF p, R, c
<1>7. /\ \A b \in R \union {c} : \E s \in OfferStatus : setOfferStatus(b, s) \in p.effects
      /\ \A b \in R \union {c} : \E t, k : tell(b, t, k) \in p.effects
  <2>1. "ACCEPTED" \in OfferStatus /\ "NOT_ACCEPTED" \in OfferStatus
    BY DEF OfferStatus
  <2> QED BY <1>3, <2>1
<1>8. /\ \A b \in R \union {Client} \union {c} :
           said(sent, "offer:status_changed", userRoom(b))
      /\ \A b \in R \union {c} : said(sent, "notification:created", userRoom(b))
      /\ said(sent, "order:status_changed", userRoom(Client))
      /\ said(sent, "order:status_changed", companyFeed)
  <2>1. p.nextStatus # status /\ ~(acceptsOffers(status) <=> acceptsOffers(p.nextStatus))
    BY <1>3, <1>5 DEF acceptsOffers, OFFER_ELIGIBLE_ORDER_STATUSES
  <2>2. R \union {c} \subseteq Companies
    BY <1>2, <1>6
  <2> QED BY <1>7, <2>1, <2>2, PlanIsTold
<1> HIDE DEF sent
<1>9. \A v \in Users : v \notin R \union {c} => UNCHANGED noticesOf(v)
  <2> DEFINE new == {notify(c, "OFFER_ACCEPTED", offerKey(c))} \union
                    {notify(b, "OFFER_NOT_ACCEPTED", offerKey(b)) : b \in R}
  <2>1. \A m \in new : m.user \in R \union {c}
    BY DraftFields
  <2>2. createNotifications(new)
    BY <1>4
  <2> HIDE DEF new
  <2> SUFFICES ASSUME NEW v \in Users, v \notin R \union {c} PROVE UNCHANGED noticesOf(v)
    OBVIOUS
  <2>3. \A m \in new : m.user # v
    BY <2>1
  <2> QED BY <2>2, <2>3, NoticesKept
<1>10. exists /\ exists' /\ UNCHANGED orderFiles
  BY <1>4, <1>5, FilesAsBefore DEF exists, OrderStatus
<1>11. executors = {} /\ executors' = {c}
  <2>1. executors = {}
    BY <1>5 DEF ScreenFacts, WorkStages
  <2>2. c \in executors'
    <3>1. isExecutorOffer("ACCEPTED") /\ offerStatus'[c] = "ACCEPTED"
      BY <1>2, <1>4 DEF isExecutorOffer, EXECUTOR_OFFER_STATUSES, EXECUTING_OFFER_STATUSES
    <3> QED BY <1>2, <3>1 DEF executors, isExecutor
  <2>3. status' \in WorkStages
    BY <1>4 DEF WorkStages
  <2> QED BY <2>1, <2>2, <2>3 DEF ScreenFacts
<1> SUFFICES ASSUME NEW u \in Users, NEW s \in Screen, <<u, s>> \notin leftOut
             PROVE  shownOn(s, u)' = shownOn(s, u) \/ hears(s, u, sent)
  BY DEF tells, transitionTold, sent, p, c
<1>12. CASE u = Client
  <2>1. Client \notin R \union {c}
    BY <1>2, <1>6, Viewers
  <2>2. UNCHANGED noticesOf(Client)
    BY <1>9, <1>12, <2>1
  <2>3. \E event \in ORDER_DETAIL_EVENTS \ {"notification:created"} :
          said(sent, event, userRoom(Client))
    BY <1>8 DEF ORDER_DETAIL_EVENTS
  <2> QED BY <1>8, <1>10, <1>12, <2>2, <2>3, ClientIsTold
<1>13. CASE u \in Companies /\ s = "available"
  <2>1. "order:status_changed" \in COMPANY_FEED_EVENTS
    BY DEF COMPANY_FEED_EVENTS
  <2> QED BY <1>8, <1>13, <2>1, HeardInFeed
<1>14. CASE u \in R \union {c} /\ s # "available"
  <2>1. u \in Companies
    BY <1>2, <1>6, <1>14
  <2> QED BY <1>8, <1>10, <1>14, <2>1, HolderIsTold
<1>15. CASE u \in Companies \ (R \union {c}) /\ s # "available"
  <2>1. OfferDto(u)' = OfferDto(u)
    BY <1>4, <1>15 DEF OfferDto
  <2>2. UNCHANGED noticesOf(u)
    BY <1>9, <1>15
  <2>3. s # "order"
    <3>1. offerStatus[u] # "SENT"
      BY <1>6, <1>15
    <3>2. ~isActiveOffer(offerStatus[u])
      <4>1. offerStatus[u] \in {NoOffer, "WITHDRAWN", "REJECTED"}
        BY <1>5, <1>15, <3>1 DEF ScreenFacts, SelectionConsistent
      <4> QED BY <4>1 DEF isActiveOffer, ACTIVE_OFFER_STATUSES, EXECUTOR_OFFER_STATUSES,
                          EXECUTING_OFFER_STATUSES, NoOffer
    <3> QED BY <1>15, <3>2 DEF bystanders
  <2>4. u # Client /\ u \notin executors /\ u \notin executors'
    BY <1>11, <1>15, Viewers
  <2>5. ScreensAsRead /\ ScreensAsRead'
    BY DEF ScreenFacts
  <2> QED BY <1>10, <1>15, <2>1, <2>2, <2>3, <2>4, <2>5, ListsKept DEF Screen
<1> QED BY <1>12, <1>13, <1>14, <1>15, Viewers

-----------------------------------------------------------------------------
(* The other steps are told *)

\* What only the order's own offers, notices and files make up stays with them.
LEMMA ListsWithoutOrder ==
  ASSUME ScreenFacts, ScreenFacts', NEW u \in Users, UNCHANGED offerVars
  PROVE  /\ OfferDto(u)' = OfferDto(u) /\ UNCHANGED executors
         /\ shownOn("offers", u)' = shownOn("offers", u)
         /\ shownOn("documents", u)' = shownOn("documents", u) \/ orderFiles' # orderFiles
<1>1. OfferDto(u)' = OfferDto(u) /\ UNCHANGED executors
  BY DEF OfferDto, executors, isExecutor, offerVars
<1> QED BY <1>1, ListsKept DEF ScreenFacts

LEMMA CreationTold ==
  ASSUME ScreenFacts, ScreenFacts', Create
  PROVE  tells(IF creating' THEN nothing ELSE orderCreatedBroadcast, mine(Client, {"orders"}))
<1> DEFINE sent == IF creating' THEN nothing ELSE orderCreatedBroadcast
<1>1. /\ status = "NONE" /\ UNCHANGED <<offerVars, taskFiles, roundFiles, notices>>
  BY DEF Create, roundVars
<1>2. ~exists /\ ~inFeed(Client)
  BY <1>1 DEF exists, OrderStatus, inFeed, acceptsOffers, OFFER_ELIGIBLE_ORDER_STATUSES
<1>3. ScreensAsRead /\ ScreensAsRead' /\ notices = {}
  BY <1>1 DEF ScreenFacts
<1>4. UNCHANGED orderFiles
  BY <1>1, FilesAsBefore
<1> SUFFICES ASSUME NEW u \in Users, NEW s \in Screen \ {"order"}, u = Client => s # "orders"
             PROVE  shownOn(s, u)' = shownOn(s, u) \/ hears(s, u, sent)
  BY <1>2 DEF tells, mine, isOpenable
<1>5. noticesOf(u) = {} /\ UNCHANGED noticesOf(u)
  BY <1>1, <1>3 DEF noticesOf
<1>6. CASE s \in {"notifications", "bell"}
  BY <1>3, <1>5, <1>6, ListsKept
<1>7. CASE s \in {"offers", "documents"}
  BY <1>1, <1>4, <1>7, ListsWithoutOrder
<1>8. CASE s = "orders"
  BY <1>3, <1>8, ListsKept
<1>9. CASE s = "available"
  <2>1. CASE u = Client
    BY <1>3, <1>9, <2>1, ListsKept
  <2>2. CASE u # Client /\ creating'
    <3>1. ~inFeed(u)
      BY <1>1 DEF inFeed, acceptsOffers, OFFER_ELIGIBLE_ORDER_STATUSES
    <3> QED BY <1>3, <1>9, <2>2, <3>1 DEF ScreensAsRead
  <2>3. CASE u # Client /\ ~creating'
    <3>1. said(sent, "order:created", companyFeed)
      <4>1. sent.messages = {message("order:created", {companyFeed})}
        BY <2>3, MessageFields DEF orderCreatedBroadcast
      <4> QED BY <4>1, MessageFields DEF said
    <3>2. "order:created" \in COMPANY_FEED_EVENTS /\ u \in Companies
      BY <2>3, Viewers DEF COMPANY_FEED_EVENTS
    <3> QED BY <1>9, <3>1, <3>2, HeardInFeed
  <2> QED BY <2>1, <2>2, <2>3
<1> QED BY <1>6, <1>7, <1>8, <1>9 DEF Screen

LEMMA AttachmentTold ==
  ASSUME ScreenFacts, ScreenFacts', NEW F \in SUBSET Files, AttachTaskFiles(F)
  PROVE  tells(orderCreatedBroadcast, Users \X {"documents", "order"})
<1> DEFINE sent == orderCreatedBroadcast
<1>1. UNCHANGED <<status, deal, offerVars, notices>>
  BY DEF AttachTaskFiles
<1>2. said(sent, "order:created", companyFeed)
  <2>1. sent.messages = {message("order:created", {companyFeed})}
    BY MessageFields DEF orderCreatedBroadcast
  <2> QED BY <2>1, MessageFields DEF said
<1> HIDE DEF sent
<1> SUFFICES ASSUME NEW u \in Users, NEW s \in Screen \ {"documents", "order"}
             PROVE  shownOn(s, u)' = shownOn(s, u) \/ hears(s, u, sent)
  BY DEF tells, sent
<1>3. ScreensAsRead /\ ScreensAsRead' /\ (exists' <=> exists)
  BY <1>1 DEF ScreenFacts, exists
<1>4. UNCHANGED noticesOf(u)
  BY <1>1 DEF noticesOf
<1>5. CASE s \in {"notifications", "bell"}
  BY <1>3, <1>4, <1>5, ListsKept
<1>6. CASE s \in {"orders", "offers"}
  BY <1>1, <1>3, <1>6, ListsWithoutOrder, ListsKept
<1>7. CASE s = "available" /\ u = Client
  BY <1>3, <1>7, ListsKept
<1>8. CASE s = "available" /\ u # Client
  <2>1. "order:created" \in COMPANY_FEED_EVENTS /\ u \in Companies
    BY <1>8, Viewers DEF COMPANY_FEED_EVENTS
  <2> QED BY <1>2, <1>8, <2>1, HeardInFeed
<1> QED BY <1>5, <1>6, <1>7, <1>8 DEF Screen

\* The companies in play are told that the order goes; the others have it in
\* the feed at most.
LEMMA RemovalTold ==
  ASSUME ScreenFacts, ScreenFacts', Remove
  PROVE  tells(orderDeletedBroadcast,
               mine(Client, {"orders", "documents", "order", "notifications"})
                 \union (bystanders \X {"offers", "order", "notifications"}))
<1> DEFINE sent == orderDeletedBroadcast
           new == {notify(b, "ORDER_DELETED", Null) : b \in affectedOfDeletion}
<1>1. /\ status \in DELETABLE_ORDER_STATUSES /\ status' = "DELETED"
      /\ createNotifications(new)
  BY DEF Remove, DeleteRow, canDeleteOrder
<1>2. executors = {} /\ executors' = {}
  BY <1>1 DEF ScreenFacts, WorkStages, DELETABLE_ORDER_STATUSES
<1>3. sent.messages =
        {message("order:status_changed", {companyFeed})} \union notificationMessages(new)
  BY MessageFields DEF orderDeletedBroadcast
<1>4. \A m \in new : m.user \in affectedOfDeletion
  BY DraftFields
<1>5. ASSUME NEW b \in affectedOfDeletion
      PROVE  \E m \in sent.messages : /\ m.event = "notification:created" /\ userRoom(b) \in m.rooms
                                      /\ m.type = "ORDER_DELETED"
  <2>1. notify(b, "ORDER_DELETED", Null) \in new
    OBVIOUS
  <2>2. /\ notify(b, "ORDER_DELETED", Null).user = b
        /\ notify(b, "ORDER_DELETED", Null).type = "ORDER_DELETED"
    BY DraftFields
  <2> HIDE DEF new
  <2>3. \E m \in notificationMessages(new) :
          m.event = "notification:created" /\ userRoom(b) \in m.rooms /\ m.type = "ORDER_DELETED"
    BY <2>1, <2>2, NoticesSaid
  <2> QED BY <1>3, <2>3
<1>6. said(sent, "order:status_changed", companyFeed)
  BY <1>3, MessageFields DEF said
<1> HIDE DEF sent, new
<1> SUFFICES ASSUME NEW u \in Users, NEW s \in Screen,
                    u = Client => s \notin {"orders", "documents", "order", "notifications"},
                    u \in bystanders => s \notin {"offers", "order", "notifications"}
             PROVE  shownOn(s, u)' = shownOn(s, u) \/ hears(s, u, sent)
  BY DEF tells, mine, sent
<1>7. ScreensAsRead /\ ScreensAsRead'
  BY DEF ScreenFacts
<1>8. u # Client => u \in Companies /\ (u \in bystanders \/ u \in affectedOfDeletion)
  BY Viewers DEF bystanders, affectedOfDeletion
<1>9. u \notin affectedOfDeletion => UNCHANGED noticesOf(u)
  BY <1>1, <1>4, NoticesKept
<1>10. Client \notin affectedOfDeletion
  BY Viewers DEF affectedOfDeletion
<1>11. CASE u = Client
  BY <1>7, <1>9, <1>10, <1>11, ListsKept DEF Screen
<1>12. CASE u # Client /\ s = "orders"
  BY <1>7, <1>12, ListsKept
<1>13. CASE u # Client /\ s = "available"
  <2>1. "order:status_changed" \in COMPANY_FEED_EVENTS
    BY DEF COMPANY_FEED_EVENTS
  <2> QED BY <1>6, <1>8, <1>13, <2>1, HeardInFeed
<1>14. CASE u # Client /\ s = "documents"
  BY <1>2, <1>7, <1>14, ListsKept
<1>15. CASE s = "bell" /\ u \notin affectedOfDeletion
  BY <1>7, <1>9, <1>15, ListsKept
<1>16. CASE u \in affectedOfDeletion /\ s \in {"offers", "order", "notifications", "bell"}
  <2>1. PICK m \in sent.messages : /\ m.event = "notification:created" /\ userRoom(u) \in m.rooms
                                   /\ m.type = "ORDER_DELETED"
    BY <1>5, <1>16
  <2>2. "notification:created" \in eventsOf(s)
    BY <1>16 DEF eventsOf, COMPANY_OFFERS_EVENTS, ORDER_DETAIL_EVENTS, NOTIFICATIONS_EVENTS
  <2>3. accepts(s, m)
    BY <2>1 DEF accepts
  <2>4. userRoom(u) \in roomsOf(s, u) \ {room \in {orderRoom} : u \in sent.evicted}
    <3>1. userRoom(u) # orderRoom
      BY DEF userRoom, orderRoom
    <3> QED BY <3>1 DEF roomsOf
  <2> QED BY <2>1, <2>2, <2>3, <2>4 DEF hears
<1> QED BY <1>8, <1>11, <1>12, <1>13, <1>14, <1>15, <1>16 DEF Screen

\* An event to the room of the order and to the client, with notices of the client.
LEMMA UpdateIsTold ==
  ASSUME NEW event, NEW new
  PROVE  LET sent == orderUpdateBroadcast(event, new) IN
         /\ \A room \in {orderRoom, userRoom(Client)} : said(sent, event, room)
         /\ \A n \in new : said(sent, "notification:created", userRoom(n.user))
         /\ sent.evicted = {}
<1> DEFINE sent == orderUpdateBroadcast(event, new)
           m == message(event, {orderRoom, userRoom(Client)})
<1>1. sent.messages = {m} \union notificationMessages(new) /\ sent.evicted = {}
  BY MessageFields DEF orderUpdateBroadcast
<1>2. m.event = event /\ m.rooms = {orderRoom, userRoom(Client)}
  BY MessageFields
<1> HIDE DEF m, sent
<1>3. \A room \in {orderRoom, userRoom(Client)} : said(sent, event, room)
  BY <1>1, <1>2 DEF said
<1>4. \A n \in new : said(sent, "notification:created", userRoom(n.user))
  BY <1>1, NoticesSaid DEF said
<1> QED BY <1>1, <1>3, <1>4 DEF sent

\* What the executor does without the machine: the order and the offers stay.
LEMMA UpdateTold ==
  ASSUME ScreenFacts, ScreenFacts', status \in WorkStages,
         UNCHANGED <<status, creating, deal, taskFiles, offerVars>>,
         NEW event \in {"order:files_updated", "order:area_verified"}, NEW new,
         \A n \in new : n.user = Client,
         UNCHANGED notices \/ (new # {} /\ createNotifications(new)),
         UNCHANGED orderFiles \/ event = "order:files_updated",
         NEW c \in executors, NEW leftOut,
         UNCHANGED orderFiles \/ <<c, "documents">> \in leftOut
  PROVE  tells(orderUpdateBroadcast(event, new), leftOut)
<1> DEFINE sent == orderUpdateBroadcast(event, new)
<1>1. /\ \A room \in {orderRoom, userRoom(Client)} : said(sent, event, room)
      /\ \A n \in new : said(sent, "notification:created", userRoom(n.user))
      /\ sent.evicted = {}
  BY UpdateIsTold
<1> HIDE DEF sent
<1>2. UNCHANGED executors /\ \A u \in Users : OfferDto(u)' = OfferDto(u)
  BY ListsWithoutOrder DEF Users
<1>3. /\ exists /\ exists' /\ c \in Companies /\ c # Client
      /\ ~acceptsOffers(status) /\ ~acceptsOffers(status')
      /\ executors = {c} /\ executors' = {c}
      /\ isActiveOffer(offerStatus[c])
      /\ \A u \in Companies \ {c} : ~isActiveOffer(offerStatus[u])
  BY <1>2, DuringTheWorkAlone
<1>4. \A u \in Users : u # Client => UNCHANGED noticesOf(u)
  BY NoticesKept DEF noticesOf
<1>5. UNCHANGED noticesOf(Client) \/ said(sent, "notification:created", userRoom(Client))
  BY <1>1 DEF noticesOf
<1>6. event \in ORDER_DETAIL_EVENTS \ {"notification:created"}
  BY DEF ORDER_DETAIL_EVENTS
<1> SUFFICES ASSUME NEW u \in Users, NEW s \in Screen, <<u, s>> \notin leftOut
             PROVE  shownOn(s, u)' = shownOn(s, u) \/ hears(s, u, sent)
  BY DEF tells, sent
<1>7. ScreensAsRead /\ ScreensAsRead'
  BY DEF ScreenFacts
<1>8. CASE u = Client
  <2>1. UNCHANGED orderFiles \/ said(sent, "order:files_updated", userRoom(Client))
    BY <1>1
  <2>2. \E e \in ORDER_DETAIL_EVENTS \ {"notification:created"} : said(sent, e, userRoom(Client))
    BY <1>1, <1>6
  <2> QED BY <1>2, <1>3, <1>5, <1>8, <2>1, <2>2, ClientIsTold
<1>9. CASE u = c /\ s = "order"
  BY <1>1, <1>3, <1>6, <1>9, HeardInOrderRoom
<1>10. CASE u = c /\ s = "documents"
  <2>1. UNCHANGED orderFiles /\ (u \in executors' <=> u \in executors)
    BY <1>3, <1>10
  <2> QED BY <1>7, <1>10, <2>1, ListsKept
<1>11. CASE u \in Companies \ {c} /\ s = "order"
  BY <1>2, <1>3, <1>11, MaskedPageKept
<1>12. CASE u \in Companies \ {c} /\ s = "documents"
  <2>1. u # Client /\ u \notin executors /\ u \notin executors'
    BY <1>3, <1>12, Viewers
  <2> QED BY <1>7, <1>12, <2>1, ListsKept
<1>13. CASE u \in Companies /\ s = "available"
  BY <1>3, <1>13, NoFeed
<1>14. CASE u \in Companies /\ s \in {"orders", "offers", "notifications", "bell"}
  BY <1>2, <1>3, <1>4, <1>7, <1>14, Viewers, ListsKept
<1> QED BY <1>3, <1>8, <1>9, <1>10, <1>11, <1>12, <1>13, <1>14, Viewers DEF Screen

LEMMA AreaTold ==
  ASSUME ScreenFacts, ScreenFacts', NEW area \in Areas, VerifyArea(area)
  PROVE  \E c \in executors : tells(areaBroadcast, {})
<1> DEFINE new == {notify(Client, "AREA_VERIFIED", orderAreaKey)}
<1>1. status \in WorkStages /\ \E c \in Companies : isExecutor(c)
  BY WorkStatuses DEF VerifyArea, mayVerifyArea, canVerifyArea
<1>2. PICK c \in executors : TRUE
  BY <1>1 DEF executors
<1>3. /\ UNCHANGED <<status, creating, deal, taskFiles, offerVars, roundVars>>
      /\ createNotifications(new)
  BY DEF VerifyArea
<1>4. \A n \in new : n.user = Client
  BY DraftFields
<1>5. new # {}
  OBVIOUS
<1>6. UNCHANGED orderFiles
  BY <1>3, FilesAsBefore DEF roundVars
<1> HIDE DEF new
<1>7. tells(orderUpdateBroadcast("order:area_verified", new), {})
  BY <1>1, <1>2, <1>3, <1>4, <1>5, <1>6, UpdateTold
<1> QED BY <1>2, <1>7 DEF areaBroadcast, new

\* An upload that brings nothing new and says what was said changes nothing.
LEMMA WorkAttachedTold ==
  ASSUME ScreenFacts, ScreenFacts', NEW u \in uploads, AttachWork(u)
  PROVE  \/ UNCHANGED <<orderVars, offerVars, roundVars, notices>>
         \/ \E c \in executors : tells(filesBroadcast(u), mine(c, {"documents"}))
<1>1. status \in WorkStages
  BY WorkStatuses DEF AttachWork, assertSubmissionOpen, canUploadWork
<1>2. PICK c \in executors : TRUE
  BY <1>1 DEF ScreenFacts
<1>3. /\ UNCHANGED <<status, creating, deal, taskFiles, orderVars, offerVars, roundState>>
      /\ roundComment' = [roundComment EXCEPT ![u.round] = u.comment]
      /\ roundFiles' = [roundFiles EXCEPT ![u.round] = @ \union u.files]
      /\ IF u.files \subseteq roundFiles[u.round]
         THEN UNCHANGED notices
         ELSE createNotifications({notify(Client, "FILES_UPDATED", orderFilesKey)})
  BY DEF AttachWork, orderVars
<1>4. u.round \in Round /\ roundComment \in [Round -> Texts \union {Null}]
      /\ roundFiles \in [Round -> SUBSET Files]
  BY DEF ScreenFacts, TypeOK
<1>5. CASE u.files \subseteq roundFiles[u.round] /\ u.comment = roundComment[u.round]
  <2>1. roundComment' = roundComment /\ roundFiles' = roundFiles
    BY <1>3, <1>4, <1>5
  <2> QED BY <1>3, <1>5, <2>1 DEF roundVars
<1>6. CASE ~(u.files \subseteq roundFiles[u.round] /\ u.comment = roundComment[u.round])
  <2> DEFINE new == IF u.files \subseteq roundFiles[u.round] THEN {}
                    ELSE {notify(Client, "FILES_UPDATED", orderFilesKey)}
  <2>1. filesBroadcast(u) = orderUpdateBroadcast("order:files_updated", new)
    BY <1>6 DEF filesBroadcast
  <2>2. \A n \in new : n.user = Client
    BY DraftFields
  <2>3. UNCHANGED notices \/ (new # {} /\ createNotifications(new))
    BY <1>3
  <2>4. <<c, "documents">> \in mine(c, {"documents"})
    BY DEF mine
  <2> HIDE DEF new
  <2>5. tells(orderUpdateBroadcast("order:files_updated", new), mine(c, {"documents"}))
    BY <1>1, <1>2, <1>3, <2>2, <2>3, <2>4, UpdateTold
  <2> QED BY <1>2, <2>1, <2>5
<1> QED BY <1>5, <1>6

\* A submission that is opened shows on the pages of the two parties alone.
LEMMA OpeningTold ==
  ASSUME ScreenFacts, ScreenFacts', NEW F \in (SUBSET Files) \ {{}}, NEW text \in Texts,
         OpenSubmission(F, text)
  PROVE  \E c \in executors : tells(nothing, {Client, c} \X {"order"})
<1>1. status \in WorkStages
  BY WorkStatuses DEF OpenSubmission, canUploadWork
<1>2. PICK c \in executors : TRUE
  BY <1>1 DEF ScreenFacts
<1>3. UNCHANGED <<status, creating, deal, taskFiles, offerVars, roundFiles, notices>>
  BY DEF OpenSubmission, orderVars, roundVars
<1>4. UNCHANGED orderFiles /\ UNCHANGED executors /\ \A u \in Users : OfferDto(u)' = OfferDto(u)
  BY <1>3, FilesAsBefore, ListsWithoutOrder DEF Users
<1>5. /\ exists /\ exists' /\ ~acceptsOffers(status) /\ ~acceptsOffers(status')
      /\ \A u \in Companies \ {c} : ~isActiveOffer(offerStatus[u])
  BY <1>1, <1>2, <1>3, <1>4, DuringTheWorkAlone
<1> SUFFICES ASSUME NEW u \in Users, NEW s \in Screen, u \in {Client, c} => s # "order"
             PROVE  shownOn(s, u)' = shownOn(s, u)
  BY <1>2 DEF tells
<1>6. ScreensAsRead /\ ScreensAsRead'
  BY DEF ScreenFacts
<1>7. UNCHANGED noticesOf(u)
  BY <1>3 DEF noticesOf
<1>8. CASE s = "order"
  <2>1. u \in Companies \ {c}
    BY <1>8, Viewers
  <2> QED BY <1>4, <1>5, <1>8, <2>1, MaskedPageKept
<1>9. CASE s = "available"
  BY <1>5, <1>6, <1>9, NoFeed, ListsKept, Viewers
<1>10. CASE s \in {"orders", "offers", "documents", "notifications", "bell"}
  BY <1>3, <1>4, <1>5, <1>6, <1>7, <1>10, ListsKept
<1> QED BY <1>8, <1>9, <1>10 DEF Screen

\* Every step, with what it sends.
stepTold ==
  \/ UNCHANGED <<orderVars, offerVars, roundVars, notices>>
  \/ UNCHANGED <<orderVars, offerVars, roundVars>>
     /\ \E u \in Users : MarkAllRead(u) \/ \E n \in notices : MarkRead(n)
  \/ rowStepTold
  \/ workStepTold
  \/ offerStepTold

LEMMA EveryStepIsTold ==
  ASSUME ScreenFacts, ScreenFacts', MachineNext
  PROVE  stepTold
<1>1. CASE \E d \in drafts : SubmitByMachine(d)
  <2>1. offerStepTold
    BY <1>1, SubmissionOfOfferTold DEF offerStepTold
  <2> QED BY <2>1 DEF stepTold
<1>2. CASE \E c \in Companies, event \in {"OFFER_WITHDRAWN", "OFFER_REJECTED"} :
             LeaveByMachine(c, event)
  <2>1. offerStepTold
    BY <1>2, WithdrawalTold, RejectionTold DEF offerStepTold
  <2> QED BY <2>1 DEF stepTold
<1>3. CASE AcceptByMachine
  <2>1. offerStepTold
    BY <1>3, AcceptanceTold DEF offerStepTold
  <2> QED BY <2>1 DEF stepTold
<1>4. CASE SubmitWorkByMachine
  <2>1. workStepTold
    BY <1>4, SubmissionOfWorkTold DEF workStepTold
  <2> QED BY <2>1 DEF stepTold
<1>5. CASE \E text \in Texts \union {Null} :
             JudgeByMachine([type |-> "WORK_CONFIRMED", completionComment |-> text])
  <2>1. PICK text \in Texts \union {Null} :
          JudgeByMachine([type |-> "WORK_CONFIRMED", completionComment |-> text])
    BY <1>5
  <2> DEFINE command == [type |-> "WORK_CONFIRMED", completionComment |-> text]
  <2>2. command \in UNION {CompletionDecision(t) : t \in {"WORK_CONFIRMED", "WORK_DISPUTED"}}
    BY DEF CompletionDecision
  <2>3. PICK c \in executors : transitionTold(command, c, {}, {})
    BY <2>1, ConfirmationTold
  <2> HIDE DEF command
  <2>4. workStepTold
    BY <2>1, <2>2, <2>3 DEF workStepTold, command
  <2> QED BY <2>4 DEF stepTold
<1>6. CASE \E text \in Texts :
             JudgeByMachine([type |-> "WORK_DISPUTED", correctionComment |-> text])
  <2>1. PICK text \in Texts : JudgeByMachine([type |-> "WORK_DISPUTED", correctionComment |-> text])
    BY <1>6
  <2> DEFINE command == [type |-> "WORK_DISPUTED", correctionComment |-> text]
  <2>2. command \in UNION {CompletionDecision(t) : t \in {"WORK_CONFIRMED", "WORK_DISPUTED"}}
    BY DEF CompletionDecision
  <2>3. PICK c \in executors : transitionTold(command, c, {}, {})
    BY <2>1, DisputeTold
  <2> HIDE DEF command
  <2>4. workStepTold
    BY <2>1, <2>2, <2>3 DEF workStepTold, command
  <2> QED BY <2>4 DEF stepTold
<1>7. CASE Create \/ RollbackCreate \/ Remove \/ \E F \in SUBSET Files : AttachTaskFiles(F)
  <2>1. rowStepTold
    BY <1>7, CreationTold, AttachmentTold, RemovalTold DEF rowStepTold
  <2> QED BY <2>1 DEF stepTold
<1>8. CASE \E F \in (SUBSET Files) \ {{}}, text \in Texts : OpenSubmission(F, text)
  <2>1. workStepTold
    BY <1>8, OpeningTold DEF workStepTold
  <2> QED BY <2>1 DEF stepTold
<1>9. CASE \E u \in uploads : AttachWork(u)
  <2>1. workStepTold \/ UNCHANGED <<orderVars, offerVars, roundVars, notices>>
    BY <1>9, WorkAttachedTold DEF workStepTold
  <2> QED BY <2>1 DEF stepTold
<1>10. CASE \E area \in Areas : VerifyArea(area)
  <2>1. workStepTold
    BY <1>10, AreaTold DEF workStepTold
  <2> QED BY <2>1 DEF stepTold
<1>11. CASE \/ \E n \in notices : MarkRead(n)
            \/ \E u \in Readers : MarkAllRead(u)
  <2>1. UNCHANGED <<orderVars, offerVars, roundVars>>
    BY <1>11 DEF MarkRead, MarkAllRead
  <2>2. \E u \in Users : MarkAllRead(u) \/ \E n \in notices : MarkRead(n)
    BY <1>11, LifecycleAssumption DEF Users
  <2> QED BY <2>1, <2>2 DEF stepTold
<1>12. CASE \/ \E c \in Companies, t \in Terms : StartSubmit(c, t)
            \/ \E d \in drafts : DropSubmit(d)
            \/ \E c \in Companies : LoadOffer(c)
            \/ \E u \in uploads : DropUpload(u)
            \/ DayPasses
  BY <1>12 DEF StartSubmit, DropSubmit, LoadOffer, DropUpload, DayPasses, stepTold
<1> QED
  BY <1>1, <1>2, <1>3, <1>4, <1>5, <1>6, <1>7, <1>8, <1>9, <1>10, <1>11, <1>12 DEF MachineNext

\* An open screen does not freeze, however many companies, offers, rounds and
\* notices there are: what the services send after a step (publish) is heard by
\* every screen of every user on which the step shows, those that LiveScreens
\* leaves out by name excepted.  The lists of events are written by hand, in
\* another part of the program than what is sent.
THEOREM ScreensAlwaysTold == MachineSpec => ScreensAreTold
<1>1. Init => NothingSaidBefore
  BY DEF Init, NothingSaidBefore
<1>2. TypeOK /\ NothingSaidBefore /\ [Next]_vars => NothingSaidBefore'
  BY NextNothingSaidBefore
<1>3. TypeOK /\ SelectionConsistent /\ NothingSaidBefore => ScreenFacts
  BY ScreenFactsHold DEF NothingSaidBefore
<1>4. ScreenFacts /\ ScreenFacts' /\ [MachineNext]_vars => [stepTold]_vars
  BY EveryStepIsTold
<1> QED
  BY <1>1, <1>2, <1>3, <1>4, MachineImplementsLifecycle, LifecycleTypes,
     SelectionAlwaysConsistent, PTL
     DEF MachineSpec, Spec, KeepsLifecycle, ScreensAreTold, stepTold

===============================================================================
