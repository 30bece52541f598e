----------------------------- MODULE OrderMachine -----------------------------
(***************************************************************************)
(* How a transition of an order comes about.  The state machine is a pure  *)
(* function: from the order's status and an event it works out a refusal,  *)
(* or the next status with a list of effects.  The transition service      *)
(* reads what the event needs under the lock of the order, asks the        *)
(* machine, and writes the effects in the same transaction.                *)
(*                                                                         *)
(* OrderLifecycle says at once what each transition does to the rows; this *)
(* module shows that machine and service together do just that.            *)
(***************************************************************************)
EXTENDS OrderView

-----------------------------------------------------------------------------
(* What the machine is given *)

OrderStateContext == [client : {Client}, status : OrderStatus]

offerEvent(types, offerStatuses) ==
  [type : types, company : Companies, offerStatus : offerStatuses]

\* An event names a company's offer and the offer's status; the rest is what
\* the machine, which knows neither the database nor the time, must be told.
OrderEvent ==
  [type : {"OFFER_SUBMITTED"}, company : Companies, offerStatus : OfferStatus \union {NoOffer},
   rejectionCount : Nat]
  \union
  [type : {"OFFER_WITHDRAWN", "OFFER_REJECTED"}, company : Companies,
   offerStatus : OfferStatus, otherActiveOffers : SUBSET Companies]
  \union
  [type : {"OFFER_ACCEPTED"}, company : Companies, offerStatus : OfferStatus,
   terms : Terms, today : Nat, offerEditedAt : Nat \union {Null},
   seenOfferEditedAt : Nat \union {Null}, otherOffers : SUBSET Companies]
  \union
  offerEvent({"WORK_SUBMITTED"}, OfferStatus)
  \union
  [type : {"WORK_CONFIRMED"}, company : Companies, offerStatus : OfferStatus,
   completionComment : Texts \union {Null}]
  \union
  [type : {"WORK_DISPUTED"}, company : Companies, offerStatus : OfferStatus,
   correctionComment : Texts]

-----------------------------------------------------------------------------
(* What it answers *)

OrderSideEffect ==
  [kind : {"SET_OFFER_STATUS"}, company : Companies, status : OfferStatus]
  \union [kind : {"SET_ORDER_DEAL"}, terms : Terms]
  \union [kind : {"SET_CORRECTION_COMMENT"}, comment : Texts]
  \union [kind : {"SET_COMPLETION_COMMENT"}, comment : Texts \union {Null}]
  \union [kind : {"CREATE_NOTIFICATION"}, notice : Notice]

Refusal == {"InvalidStateTransition", "InvalidOfferStatus", "OfferFinallyRejected",
            "OfferExpired", "OfferChanged"}

setOfferStatus(c, newStatus) ==
  [kind |-> "SET_OFFER_STATUS", company |-> c, status |-> newStatus]

setDeal(terms) == [kind |-> "SET_ORDER_DEAL", terms |-> terms]
setCorrection(comment) == [kind |-> "SET_CORRECTION_COMMENT", comment |-> comment]
setCompletion(comment) == [kind |-> "SET_COMPLETION_COMMENT", comment |-> comment]

tell(user, type, key) ==
  [kind |-> "CREATE_NOTIFICATION", notice |-> notify(user, type, key)]

plan(nextStatus, effects) == [nextStatus |-> nextStatus, effects |-> effects]

offerSubmitted(context, event) ==
  plan("AWAITING_CONFIRMATION",
       {setOfferStatus(event.company, "SENT"),
        tell(context.client, "OFFER_RECEIVED", offerKey(event.company))})

offerLeftSelection(context, event, newStatus, addressee) ==
  plan(IF event.otherActiveOffers # {} THEN "AWAITING_CONFIRMATION" ELSE "WAITING",
       {setOfferStatus(event.company, newStatus),
        tell(addressee, event.type, offerKey(event.company))})

\* Those who lose the choice are named one by one.
SlipLosersRejected(context, event) ==
  plan("IN_PROGRESS",
       {setOfferStatus(event.company, "ACCEPTED"),
        setDeal(event.terms),
        tell(event.company, "OFFER_ACCEPTED", offerKey(event.company))}
       \union {setOfferStatus(b, "REJECTED") : b \in event.otherOffers}
       \union {tell(b, "OFFER_NOT_ACCEPTED", offerKey(b)) : b \in event.otherOffers})
offerAccepted(context, event) ==
  plan("IN_PROGRESS",
       {setOfferStatus(event.company, "ACCEPTED"),
        setDeal(event.terms),
        tell(event.company, "OFFER_ACCEPTED", offerKey(event.company))}
       \union {setOfferStatus(b, "NOT_ACCEPTED") : b \in event.otherOffers}
       \union {tell(b, "OFFER_NOT_ACCEPTED", offerKey(b)) : b \in event.otherOffers})

workSubmitted(context, event) ==
  plan("AWAITING_COMPLETION_CONFIRMATION",
       {setOfferStatus(event.company, "WORK_SUBMITTED"),
        tell(context.client, "WORK_SUBMITTED", Null)})

workConfirmed(context, event) ==
  plan("COMPLETED",
       {setOfferStatus(event.company, "COMPLETED"),
        setCompletion(event.completionComment),
        tell(event.company, "WORK_CONFIRMED", Null)})

workDisputed(context, event) ==
  plan("COMPLETION_DISPUTED",
       {setOfferStatus(event.company, "BACK_FOR_OVERRIDE"),
        setCorrection(event.correctionComment),
        tell(event.company, "WORK_DISPUTED", Null)})

\* TRANSITIONS: each event has the same handler wherever it is allowed.
handlerFor(context, event) ==
  CASE event.type = "OFFER_SUBMITTED" -> offerSubmitted(context, event)
    [] event.type = "OFFER_WITHDRAWN" ->
         offerLeftSelection(context, event, "WITHDRAWN", context.client)
    [] event.type = "OFFER_REJECTED" ->
         offerLeftSelection(context, event, "REJECTED", event.company)
    [] event.type = "OFFER_ACCEPTED"  -> offerAccepted(context, event)
    [] event.type = "WORK_SUBMITTED"  -> workSubmitted(context, event)
    [] event.type = "WORK_CONFIRMED"  -> workConfirmed(context, event)
    [] event.type = "WORK_DISPUTED"   -> workDisputed(context, event)

-----------------------------------------------------------------------------
(* transition(): what the machine objects to, each check on its own *)

isForbidden(context, event) == event.type \notin ORDER_TRANSITIONS[context.status]

isBadOffer(event) ==
  event.offerStatus # NoOffer /\ event.offerStatus \notin OFFER_PRECONDITIONS[event.type]

isOut(event) ==
  event.type = "OFFER_SUBMITTED" /\ isFinallyRejected(event.offerStatus, event.rejectionCount)

isLate(event) ==
  event.type = "OFFER_ACCEPTED" /\ isOfferExpired(event.terms.deadline, event.today)

isChanged(event) ==
  event.type = "OFFER_ACCEPTED" /\ event.offerEditedAt # event.seenOfferEditedAt

\* The first objection is the one that is told.
SlipChangedFirst(context, event) ==
  IF isForbidden(context, event) THEN "InvalidStateTransition"
  ELSE IF isBadOffer(event) THEN "InvalidOfferStatus"
  ELSE IF isOut(event) THEN "OfferFinallyRejected"
  ELSE IF isChanged(event) THEN "OfferChanged"
  ELSE IF isLate(event) THEN "OfferExpired"
  ELSE "none"
refusal(context, event) ==
  IF isForbidden(context, event) THEN "InvalidStateTransition"
  ELSE IF isBadOffer(event) THEN "InvalidOfferStatus"
  ELSE IF isOut(event) THEN "OfferFinallyRejected"
  ELSE IF isLate(event) THEN "OfferExpired"
  ELSE IF isChanged(event) THEN "OfferChanged"
  ELSE "none"

-----------------------------------------------------------------------------
(* The transition service *)

\* What a caller wants.  Work is done under the executor's offer, which nobody
\* has to name; the status before the upsert must be told.
Command ==
  [type : {"OFFER_SUBMITTED"}, company : Companies, offerStatusBefore : OfferStatus \union {NoOffer}]
  \union [type : {"OFFER_WITHDRAWN", "OFFER_REJECTED"}, company : Companies]
  \union [type : {"OFFER_ACCEPTED"}, company : Companies, seenOfferEditedAt : Nat \union {Null}]
  \union [type : {"WORK_SUBMITTED"}]
  \union [type : {"WORK_CONFIRMED"}, completionComment : Texts \union {Null}]
  \union [type : {"WORK_DISPUTED"}, correctionComment : Texts]

\* The rows that the command may be about; the upsert of a submitted offer has
\* just written its own.
resolveOffer(command) ==
  IF command.type \in {"WORK_SUBMITTED", "WORK_CONFIRMED", "WORK_DISPUTED"}
  THEN {c \in Companies : isExecutor(c)}
  ELSE {c \in {command.company} : command.type = "OFFER_SUBMITTED" \/ offerStatus[c] # NoOffer}

contextOf == [client |-> Client, status |-> status]

buildEvent(command, c) ==
  CASE command.type = "OFFER_SUBMITTED" ->
         [type |-> command.type, company |-> c, offerStatus |-> command.offerStatusBefore,
          rejectionCount |-> rejectionCount[c]]
    [] command.type \in {"OFFER_WITHDRAWN", "OFFER_REJECTED"} ->
         [type |-> command.type, company |-> c, offerStatus |-> offerStatus[c],
          otherActiveOffers |-> otherActiveOffers(c)]
    [] command.type = "OFFER_ACCEPTED" ->
         [type |-> command.type, company |-> c, offerStatus |-> offerStatus[c],
          terms |-> proposed[c], today |-> today, offerEditedAt |-> editedAt[c],
          seenOfferEditedAt |-> command.seenOfferEditedAt, otherOffers |-> otherActiveOffers(c)]
    [] command.type = "WORK_SUBMITTED" ->
         [type |-> command.type, company |-> c, offerStatus |-> offerStatus[c]]
    [] command.type = "WORK_CONFIRMED" ->
         [type |-> command.type, company |-> c, offerStatus |-> offerStatus[c],
          completionComment |-> command.completionComment]
    [] command.type = "WORK_DISPUTED" ->
         [type |-> command.type, company |-> c, offerStatus |-> offerStatus[c],
          correctionComment |-> command.correctionComment]

\* groupOfferIdsByStatus: the offers that get a status.
offersTo(effects, newStatus) == {c \in Companies : setOfferStatus(c, newStatus) \in effects}

statusAfter(effects, c) ==
  IF \E s \in OfferStatus : c \in offersTo(effects, s)
  THEN CHOOSE s \in OfferStatus : c \in offersTo(effects, s)
  ELSE offerStatus[c]

\* Only a rejection by the client counts; those who lose the choice go elsewhere.
rejectionsAfter(effects, c) ==
  rejectionCount[c] + (IF c \in offersTo(effects, "REJECTED") THEN 1 ELSE 0)

\* A column of the order: what an effect writes to it, or what it holds.
columnAfter(column, values) ==
  IF values = {} THEN column ELSE CHOOSE v \in values : TRUE

newNotices(effects) == {e.notice : e \in {f \in effects : f.kind = "CREATE_NOTIFICATION"}}

applyEffects(p) ==
  /\ status' = p.nextStatus
  /\ offerStatus' = [c \in Companies |-> statusAfter(p.effects, c)]
  /\ rejectionCount' = [c \in Companies |-> rejectionsAfter(p.effects, c)]
  /\ deal' = columnAfter(deal, {t \in Terms : setDeal(t) \in p.effects})
  /\ correctionComment' =
       columnAfter(correctionComment, {x \in Texts : setCorrection(x) \in p.effects})
  /\ clientCompletionComment' =
       columnAfter(clientCompletionComment,
                   {x \in Texts \union {Null} : setCompletion(x) \in p.effects})
  /\ createNotifications(newNotices(p.effects))
  /\ UNCHANGED <<creating, verifiedSquareMeters, taskFiles>>

\* run(), in the transaction that has locked the order.
apply(command) ==
  /\ status \in OrderStatus
  /\ \E c \in resolveOffer(command) :
       LET event == buildEvent(command, c) IN
       /\ refusal(contextOf, event) = "none"
       /\ applyEffects(handlerFor(contextOf, event))

-----------------------------------------------------------------------------
(* The callers *)

\* submit(): the status is read before the upsert, which writes SENT.
SubmitByMachine(d) ==
  LET c == d.company IN
  /\ drafts' = drafts \ {d}
  /\ proposed' = [proposed EXCEPT ![c] = d.terms]
  /\ editedAt' = [editedAt EXCEPT ![c] = stampOfUpsert(d)]
  /\ apply([type |-> "OFFER_SUBMITTED", company |-> c, offerStatusBefore |-> offerStatus[c]])
  /\ UNCHANGED <<roundVars, clockVars, seen, uploads>>

LeaveByMachine(c, event) ==
  /\ apply([type |-> event, company |-> c])
  /\ UNCHANGED <<proposed, editedAt, roundVars, clockVars, callerVars>>

AcceptByMachine ==
  /\ seen # Null
  /\ apply([type |-> "OFFER_ACCEPTED", company |-> seen.company,
            seenOfferEditedAt |-> seen.editedAt])
  /\ UNCHANGED <<proposed, editedAt, roundVars, clockVars, callerVars>>

SubmitWorkByMachine ==
  /\ apply([type |-> "WORK_SUBMITTED"])
  /\ \E r \in Round :
       /\ maySubmitRound(r)
       /\ roundState' = [roundState EXCEPT ![r] = "sent"]
  /\ UNCHANGED <<proposed, editedAt, roundComment, roundFiles, clockVars, callerVars>>

JudgeByMachine(command) ==
  /\ apply(command)
  /\ UNCHANGED <<proposed, editedAt, roundVars, clockVars, callerVars>>

-----------------------------------------------------------------------------
\* The steps of OrderLifecycle in which no transition takes part stay as they are.
MachineNext ==
  \/ \E d \in drafts : SubmitByMachine(d)
  \/ \E c \in Companies, event \in {"OFFER_WITHDRAWN", "OFFER_REJECTED"} :
       LeaveByMachine(c, event)
  \/ AcceptByMachine
  \/ SubmitWorkByMachine
  \/ \E text \in Texts \union {Null} :
       JudgeByMachine([type |-> "WORK_CONFIRMED", completionComment |-> text])
  \/ \E text \in Texts :
       JudgeByMachine([type |-> "WORK_DISPUTED", correctionComment |-> text])
  \/ Create
  \/ \E F \in SUBSET Files : AttachTaskFiles(F)
  \/ RollbackCreate
  \/ Remove
  \/ \E c \in Companies, t \in Terms : StartSubmit(c, t)
  \/ \E d \in drafts : DropSubmit(d)
  \/ \E c \in Companies : LoadOffer(c)
  \/ \E F \in (SUBSET Files) \ {{}}, text \in Texts : OpenSubmission(F, text)
  \/ \E u \in uploads : DropUpload(u)
  \/ \E u \in uploads : AttachWork(u)
  \/ \E area \in Areas : VerifyArea(area)
  \/ \E n \in notices : MarkRead(n)
  \/ \E u \in Readers : MarkAllRead(u)
  \/ DayPasses

MachineSpec == Init /\ [][MachineNext]_vars

-----------------------------------------------------------------------------
(* Properties *)

\* Rules, reads and writes are spread over a pure function and a service, and
\* yet every transition does to all rows at once what OrderLifecycle says.
KeepsLifecycle == Spec

\* The request that a company or the client could send at any moment, from a
\* page of any age.
requests ==
  {[type |-> "OFFER_SUBMITTED", company |-> c, offerStatusBefore |-> offerStatus[c]]
     : c \in Companies}
  \union [type : {"OFFER_WITHDRAWN", "OFFER_REJECTED"}, company : Companies]
  \union {[type |-> "OFFER_ACCEPTED", company |-> s.company, seenOfferEditedAt |-> s.editedAt]
            : s \in {seen} \ {Null}}
  \union {[type |-> t] : t \in {"WORK_SUBMITTED"}}

\* What the reload shows at once to the one who asked.
buttonOf ==
  [OFFER_SUBMITTED |-> "submitOffer", OFFER_WITHDRAWN |-> "withdraw",
   OFFER_REJECTED |-> "reject", OFFER_ACCEPTED |-> "accept", WORK_SUBMITTED |-> "submitWork"]

reloaded(type, c) ==
  IF type \in {"OFFER_REJECTED", "OFFER_ACCEPTED"}
  THEN clientButtons(toOrderDetail(Client), Client, c)
  ELSE companyButtons(toOrderDetail(c), c)

\* The words of a refusal are good advice.  "The state may have changed,
\* reload": the reloaded page no longer offers what was refused.  "The company
\* may send a new deadline": it may, now.  "The company changed the offer,
\* check and accept again": reading it again is enough, the next attempt is
\* not refused for another reason.  "You cannot send it any more": neither the
\* page nor the feed offers to.
RefusalsPointTheWay ==
  exists => \A command \in requests : \A c \in resolveOffer(command) :
    LET event == buildEvent(command, c)
        said == refusal(contextOf, event)
    IN
    /\ said \in {"InvalidStateTransition", "InvalidOfferStatus", "OfferFinallyRejected"} =>
         buttonOf[event.type] \notin reloaded(event.type, c)
    /\ said = "OfferFinallyRejected" => ~inFeed(c)
    /\ said = "OfferExpired" => maySubmit(c)
    /\ said = "OfferChanged" =>
         refusal(contextOf, [event EXCEPT !.seenOfferEditedAt = editedAt[c]]) = "none"

=============================================================================
