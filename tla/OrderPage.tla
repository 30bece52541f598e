------------------------------- MODULE OrderPage -------------------------------
(***************************************************************************)
(* What the page of an order says.  It is put together of cards; each of   *)
(* them shows itself by a condition of its own, carries some of the        *)
(* buttons, and speaks: of what goes on, of what its reader may do, and,   *)
(* in the dialogs, of what a click will lead to.  None of these sentences  *)
(* is computed from the rules of the state machine.                        *)
(*                                                                         *)
(* A sentence is a word here; holds says what it claims of the order.      *)
(***************************************************************************)
EXTENDS OrderMachine

-----------------------------------------------------------------------------
(* The cards *)

isExecutorHere(detail, u) ==
  ~isOwner(detail, u) /\ \E o \in ownOffer(detail, u) : isExecutorOffer(o.status)

isPartyHere(detail, u) == isOwner(detail, u) \/ isExecutorHere(detail, u)

executorOffer(detail, u) == {o \in detail.offers : isOwner(detail, u) /\ isExecutorOffer(o.status)}

openFiles(detail) == UNION {companyFiles(detail, r) : r \in openRound(detail)}

clientFiles(detail) == {f \in detail.files : f.ownerType = "CLIENT"}

mayOffer(detail, u) == ~isOwner(detail, u) /\ detail.canSubmitOffer

\* The number in the dialog of an upload, worked out by the page.
nextRound(detail) ==
  IF openRound(detail) # {} THEN CHOOSE r \in openRound(detail) : TRUE
  ELSE IF shownRounds(detail) = {} THEN 1
  ELSE 1 + CHOOSE r \in shownRounds(detail) : isLatest(detail, r)

\* workHint and completionHint are silent before there is work to speak of.
hasWorkHint(orderStatus) == ~acceptsOffers(orderStatus)
hasCompletionHint(orderStatus) == hasWorkHint(orderStatus) /\ orderStatus # "IN_PROGRESS"

Card == {"task", "clientFiles", "decisions", "executorOffer", "ownOffer", "submitOffer", "work",
         "completion", "submissions", "now", "client", "area"}

shownCards(detail, u) ==
  {k \in Card :
     CASE k \in {"task", "clientFiles"} -> TRUE
       [] k = "decisions"     -> isOwner(detail, u) /\ executorOffer(detail, u) = {}
       [] k = "executorOffer" -> isOwner(detail, u) /\ executorOffer(detail, u) # {}
       [] k = "ownOffer"      -> ~isOwner(detail, u) /\ ownOffer(detail, u) # {}
       [] k = "submitOffer"   -> ownOffer(detail, u) = {} /\ mayOffer(detail, u)
       [] k = "work"          -> isExecutorHere(detail, u) /\ hasWorkHint(detail.item.status)
       [] k = "completion"    -> /\ isPartyHere(detail, u)
                                 /\ \/ hasCompletionHint(detail.item.status)
                                    \/ detail.correctionComment # Null
                                    \/ detail.clientCompletionComment # Null
       [] k = "submissions"   -> isPartyHere(detail, u)
       [] k = "now"           -> seesRealStatus(detail, u)
       [] k = "client"        -> isExecutorHere(detail, u) /\ detail.clients # {}
       [] k = "area"          -> isExecutorHere(detail, u)}

\* Where a button is to be found.
cardOf(button, detail, u) ==
  CASE button \in {"accept", "reject"}   -> "decisions"
    [] button \in {"confirm", "dispute"} -> "completion"
    [] button = "withdraw"               -> "ownOffer"
    [] button = "submitOffer"            -> IF ownOffer(detail, u) = {} THEN "submitOffer"
                                                                        ELSE "ownOffer"
    [] button \in {"addFiles", "submitWork", "verifyArea"} -> "work"

onPage(buttons, detail, u) == \A b \in buttons : cardOf(b, detail, u) \in shownCards(detail, u)

-----------------------------------------------------------------------------
(* What the cards say *)

\* «Что сейчас» (resolveOrderNow).
clientText(orderStatus) ==
  CASE orderStatus = "WAITING"               -> "companies-see-it-in-the-feed"
    [] orderStatus = "AWAITING_CONFIRMATION" -> "offers-keep-coming"
    [] orderStatus = "IN_PROGRESS"           -> "executor-chosen-terms-fixed"
    [] orderStatus = "AWAITING_COMPLETION_CONFIRMATION" -> "the-client-decides"
    [] orderStatus = "COMPLETION_DISPUTED"   -> "back-with-the-comment"
    [] orderStatus = "COMPLETED"             -> "files-stay"

\* While the client chooses, the executor and the others would read the same.
companyText(orderStatus) ==
  CASE orderStatus = "WAITING"               -> "an-offer-is-sent-from-here"
    [] orderStatus = "AWAITING_CONFIRMATION" -> "terms-may-be-changed-or-withdrawn"
    [] orderStatus = "IN_PROGRESS"           -> "yours-on-your-terms"
    [] orderStatus = "AWAITING_COMPLETION_CONFIRMATION" -> "the-client-decides"
    [] orderStatus = "COMPLETION_DISPUTED"   -> "the-next-submission-goes-to-the-client"
    [] orderStatus = "COMPLETED"             -> "work-accepted"

nowWords(detail, u) ==
  {IF isOwner(detail, u) THEN clientText(detail.item.status)
   ELSE companyText(detail.item.status)}
  \union (IF detail.item.deal = Null THEN {} ELSE {"price-deadline-and-contractor"})

\* What a company is told of an offer that is no longer pending.
SlipNeverFinal(offer, canResubmit) ==
  IF offer.status \notin RESUBMITTABLE_OFFER_STATUSES THEN {}
  ELSE {IF canResubmit THEN "may-be-sent-again" ELSE "in-the-feed-if-searching"}
offerHint(offer, canResubmit) ==
  CASE offer.status = "SENT"              -> {}
    [] offer.status = "ACCEPTED"          -> {"you-may-start"}
    [] offer.status = "WORK_SUBMITTED"    -> {"the-client-decides"}
    [] offer.status = "BACK_FOR_OVERRIDE" -> {"back-with-the-comment"}
    [] offer.status = "COMPLETED"         -> {"work-accepted"}
    [] offer.status = "NOT_ACCEPTED"      -> {"another-was-chosen"}
    [] offer.status = "WITHDRAWN" ->
         {IF canResubmit THEN "may-be-sent-again" ELSE "in-the-feed-if-searching"}
    [] offer.status = "REJECTED" ->
         {IF isFinallyRejected(offer.status, offer.rejectionCount) THEN "never-again"
          ELSE IF canResubmit THEN "once-more" ELSE "in-the-feed-if-searching"}

\* The dialog opens on the own offer of old, and calls it an update while it is
\* pending (isUpdate).
offerDialogWord(c) == IF offerStatus[c] = "SENT" THEN "an-update" ELSE "a-new-offer"

ownOfferWords(detail, u) ==
  (IF mayOffer(detail, u) THEN {offerDialogWord(u)} ELSE {}) \union
  UNION {offerHint(o, mayOffer(detail, u) /\ ~isPendingOffer(o.status))
           : o \in {x \in ownOffer(detail, u) : ~isExecutorOffer(x.status)}}

\* The row of the offer in the company's list, which knows no canSubmitOffer.
offerRowWords(c) ==
  IF offerStatus[c] = NoOffer THEN {} ELSE offerHint(OfferDto(c), FALSE)

workHint(orderStatus, hasOpenFiles) ==
  CASE orderStatus = "AWAITING_COMPLETION_CONFIRMATION" -> "no-files-until-it-is-back"
    [] orderStatus = "COMPLETED" -> "files-stay"
    [] OTHER -> IF hasOpenFiles THEN "the-client-sees-the-files-submit-them"
                                ELSE "load-files-first"

completionHint(orderStatus, owning) ==
  CASE orderStatus = "AWAITING_COMPLETION_CONFIRMATION" -> "the-client-decides"
    [] orderStatus = "COMPLETION_DISPUTED" ->
         IF owning THEN "to-be-decided-after-the-next-submission" ELSE "back-with-the-comment"
    [] orderStatus = "COMPLETED" -> "work-accepted"

completionWords(detail, u) ==
  (IF hasCompletionHint(detail.item.status)
   THEN {completionHint(detail.item.status, isOwner(detail, u))} ELSE {})
  \union (IF detail.correctionComment # Null THEN {"was-sent-back"} ELSE {})

\* «Предложений пока нет», and the note on an offer that has expired.
decisionWords(detail, u) ==
  (IF decisions(detail, u) = {} THEN {"companies-see-it-in-the-feed"} ELSE {})
  \union (IF \E o \in decisions(detail, u) : isOfferExpired(o.terms.deadline, today)
          THEN {"an-expired-offer-may-be-renewed"} ELSE {})

submissionWords(detail) ==
  (IF shownRounds(detail) = {} THEN {"no-work-files-yet"} ELSE {})
  \union (IF openRound(detail) # {} THEN {"being-prepared"} ELSE {})
  \union (IF \E r \in shownRounds(detail) : isSubmittedRound(detail, r) THEN {"was-submitted"} ELSE {})
  \union (IF \E r \in shownRounds(detail) : ~isLatest(detail, r) THEN {"history"} ELSE {})

areaWords(detail) ==
  {IF detail.verifiedSquareMeters = Null THEN "make-the-area-precise" ELSE "you-made-it-precise"}

\* The area in the task, with the value of the executor beside that of the client.
taskWords(detail) ==
  IF detail.verifiedSquareMeters = Null THEN {} ELSE {"made-precise-by-the-executor"}

\* The row of the order in the client's list: money and contractor.
orderRowWords(item) ==
  {IF item.deal # Null THEN "price-of-the-deal" ELSE "only-the-clients-budget",
   IF item.contractors # {} THEN "executor-chosen-terms-fixed" ELSE "no-contractor"}

\* The row of the feed, with the same dialog.
feedRowWords(c) == IF inFeed(c) THEN {"may-be-sent-again", offerDialogWord(c)} ELSE {}

cardWords(card, detail, u) ==
  CASE card = "task" -> taskWords(detail)
    [] card = "clientFiles" -> IF clientFiles(detail) = {} THEN {"no-task-files"} ELSE {}
    [] card = "decisions"     -> decisionWords(detail, u)
    [] card = "executorOffer" -> {"executor-chosen-terms-fixed"}
    [] card = "ownOffer"      -> ownOfferWords(detail, u)
    [] card = "submitOffer"   -> {"no-offer-yet"}
    [] card = "work"          -> {workHint(detail.item.status, openFiles(detail) # {})}
    [] card = "completion"    -> completionWords(detail, u)
    [] card = "submissions"   -> submissionWords(detail)
    [] card = "now"           -> nowWords(detail, u)
    [] card = "client"        -> {"contacts-open-to-the-executor"}
    [] card = "area"          -> areaWords(detail)

words(detail, u) == UNION {cardWords(k, detail, u) : k \in shownCards(detail, u)}

-----------------------------------------------------------------------------
(* What the dialogs promise, and what the server is going to do *)

acceptOfferBody(offer) == offer.editedAt

submitRequest(c) ==
  [type |-> "OFFER_SUBMITTED", company |-> c, offerStatusBefore |-> offerStatus[c]]

acceptRequest(offer) ==
  [type |-> "OFFER_ACCEPTED", company |-> offer.company,
   seenOfferEditedAt |-> acceptOfferBody(offer)]

accepted(request, c) == refusal(contextOf, buildEvent(request, c)) = "none"
outcome(request, c) == handlerFor(contextOf, buildEvent(request, c))

\* The dialog counts the rivals by the list in front of the client.
rivals(detail, u) == Cardinality(decisions(detail, u)) - 1

\* "The order goes into work at this price and deadline, so many others get
\* the status «Не выбрано»."
AcceptOfferDialog(detail, u, offer) ==
  LET p == outcome(acceptRequest(offer), offer.company) IN
  /\ accepted(acceptRequest(offer), offer.company)
  /\ p.nextStatus = "IN_PROGRESS" /\ setDeal(offer.terms) \in p.effects
  /\ Cardinality(offersTo(p.effects, "NOT_ACCEPTED")) = rivals(detail, u)

\* "If there are no other offers the order returns to search, and the same
\* company may send a new one", which the last rejection leaves untrue.
RejectOfferDialog(detail, u, offer) ==
  LET request == [type |-> "OFFER_REJECTED", company |-> offer.company]
      p == outcome(request, offer.company)
  IN
  /\ accepted(request, offer.company)
  /\ (p.nextStatus = "WAITING") <=> (rivals(detail, u) = 0)
  /\ isFinallyRejected("REJECTED", offer.rejectionCount + 1)
     \/ canTransition(p.nextStatus, "OFFER_SUBMITTED", "REJECTED")

\* "The order returns to the feed, and you may send a new offer."
WithdrawOfferDialog(offer) ==
  LET request == [type |-> "OFFER_WITHDRAWN", company |-> offer.company] IN
  /\ accepted(request, offer.company)
  /\ canTransition(outcome(request, offer.company).nextStatus, "OFFER_SUBMITTED", "WITHDRAWN")

\* "The client will accept the work or send it back; nothing can be added to
\* this submission."
SubmitWorkDialog(detail, c) ==
  LET next == outcome([type |-> "WORK_SUBMITTED"], c).nextStatus IN
  /\ \A e \in {"WORK_CONFIRMED", "WORK_DISPUTED"} : canTransition(next, e, "WORK_SUBMITTED")
  /\ ~canUploadWork(next)
  /\ maySubmitRound(nextRound(detail))

\* What the form of a decision lets be sent: a comment, which only the client
\* who accepts the work may leave out.
CompletionDecision(type) ==
  IF type = "WORK_CONFIRMED" THEN [type : {type}, completionComment : Texts \union {Null}]
                             ELSE [type : {type}, correctionComment : Texts]

\* "It cannot be sent back after that", and "the company will be able to load
\* corrected files as a new submission".
ConfirmWorkDialog(c) ==
  \A request \in CompletionDecision("WORK_CONFIRMED"), s \in OfferStatus :
    accepted(request, c) /\ ~canTransition(outcome(request, c).nextStatus, "WORK_DISPUTED", s)

DisputeWorkDialog(c) ==
  \A request \in CompletionDecision("WORK_DISPUTED") :
    LET p == outcome(request, c) IN
    /\ accepted(request, c) /\ noneOpen
    /\ canUploadWork(p.nextStatus) /\ setCorrection(request.correctionComment) \in p.effects

\* "The offer may be changed or withdrawn as long as the client has not chosen."
OfferDialog(c) ==
  LET changeable(s) == \A e \in {"OFFER_SUBMITTED", "OFFER_WITHDRAWN"} : canTransition(s, e, "SENT")
  IN
  /\ accepted(submitRequest(c), c)
  /\ changeable(outcome(submitRequest(c), c).nextStatus)
  /\ \A s \in OrderStatus : canTransition(s, "OFFER_ACCEPTED", "SENT") => changeable(s)

-----------------------------------------------------------------------------
(* What the words mean *)

executors == {c \in Companies : isExecutor(c)}

holds(word, u) ==
  CASE word = "companies-see-it-in-the-feed" ->
         \A c \in Companies : inFeed(c) \/ isFinallyRejected(offerStatus[c], rejectionCount[c])
    [] word = "offers-keep-coming" ->
         acceptsOffers(status) /\ \A c \in Companies : offerStatus[c] = NoOffer => inFeed(c)
    [] word = "executor-chosen-terms-fixed" ->
         \E c \in executors : deal = proposed[c] /\ ~maySubmit(c) /\ executors = {c}
    [] word = "the-client-decides" ->
         \E c \in executors : {"confirm", "dispute"} \subseteq clientMay(c)
    [] word = "back-with-the-comment" ->
         correctionComment # Null /\ \E c \in executors : "addFiles" \in companyMay(c)
    [] word = "files-stay" ->
         \A f \in orderFiles : \A p \in executors \union {Client} :
           f \in documents(p) /\ assertFileAccess(p, f.ownerType)
    [] word = "an-offer-is-sent-from-here" -> maySubmit(u)
    [] word = "terms-may-be-changed-or-withdrawn" -> {"submitOffer", "withdraw"} \subseteq companyMay(u)
    [] word = "yours-on-your-terms" -> isExecutor(u) /\ deal = proposed[u]
    [] word = "the-next-submission-goes-to-the-client" -> "addFiles" \in companyMay(u)
    [] word = "work-accepted" -> status = "COMPLETED" /\ sentRounds # {} /\ noneOpen
    [] word = "price-deadline-and-contractor" -> toOrderListItem(u).contractors = executors
    [] word = "you-may-start" -> "addFiles" \in companyMay(u)
    [] word = "another-was-chosen" -> executors \ {u} # {}
    [] word = "once-more" -> maySubmit(u) /\ rejectionCount[u] + 1 = MAX_OFFER_REJECTIONS
    [] word = "may-be-sent-again" -> maySubmit(u)
    [] word = "never-again" -> ~maySubmit(u) /\ ~inFeed(u)
    [] word = "in-the-feed-if-searching" -> acceptsOffers(status) => inFeed(u)
    [] word = "no-files-until-it-is-back" ->
         "addFiles" \notin companyMay(u) /\ \E c \in executors : "dispute" \in clientMay(c)
    [] word = "the-client-sees-the-files-submit-them" ->
         /\ "submitWork" \in companyMay(u)
         /\ \A r \in Round : isOpen(r) => companyFiles(toOrderDetail(Client), r) # {}
    [] word = "load-files-first" ->
         "addFiles" \in companyMay(u) /\ "submitWork" \notin companyMay(u)
    [] word = "to-be-decided-after-the-next-submission" ->
         \A c \in executors : "confirm" \notin clientMay(c) /\ "addFiles" \in companyMay(c)
    [] word = "was-sent-back" -> sentRounds # {}
    [] word = "an-expired-offer-may-be-renewed" ->
         \A c \in Companies : "reject" \in clientMay(c) => maySubmit(c)
    [] word = "no-work-files-yet" -> \A r \in Round : ~hasRow(r) /\ roundFiles[r] = {}
    [] word = "was-submitted" -> \A r \in sentRounds : roundFiles[r] # {}
    [] word = "history" -> \A q, r \in Round : q < r /\ hasRow(q) /\ hasRow(r) => q \in sentRounds
    [] word = "being-prepared" -> \E c \in executors : "addFiles" \in companyMay(c)
    [] word = "make-the-area-precise" -> "verifyArea" \in companyMay(u) \/ status = "COMPLETED"
    [] word = "you-made-it-precise" -> verifiedSquareMeters # Null /\ isExecutor(u)
    [] word = "made-precise-by-the-executor" -> executors # {} /\ verifiedSquareMeters # Null
    [] word = "price-of-the-deal" -> \E c \in executors : deal = proposed[c]
    [] word \in {"only-the-clients-budget", "no-contractor"} -> executors = {} /\ deal = Null
    [] word = "an-update" -> "withdraw" \in companyMay(u)
    [] word = "a-new-offer" -> ~isActiveOffer(offerStatus[u]) /\ accepted(submitRequest(u), u)
    [] word = "no-task-files" -> taskFiles = {} \/ ~assertFileAccess(u, "CLIENT")
    [] word = "no-offer-yet" -> offerStatus[u] = NoOffer
    [] word = "contacts-open-to-the-executor" -> isExecutor(u)

-----------------------------------------------------------------------------
(* Properties *)

EveryWordHolds ==
  \A u \in Users : \A w \in words(toOrderDetail(u), u) : holds(w, u)

EveryRowHolds ==
  /\ \A c \in Companies : \A w \in offerRowWords(c) \union feedRowWords(c) : holds(w, c)
  /\ \A w \in orderRowWords(toOrderListItem(Client)) : holds(w, Client)

\* No card that is missing takes along a button the server would honour.
NoButtonIsHidden ==
  \A c \in Companies :
    /\ onPage(clientMay(c), toOrderDetail(Client), Client)
    /\ onPage(companyMay(c), toOrderDetail(c), c)

\* The number that the dialog names is the round the server would take.
RoundIsForeseen ==
  \A c \in executors : "addFiles" \in companyMay(c) =>
    \A r \in Round :
      isOpen(r) \/ (noneOpen /\ isNext(r)) => r = nextRound(toOrderDetail(c))

DialogsComeTrue ==
  LET detail == toOrderDetail(Client) IN
  /\ \A o \in decisions(detail, Client) :
       /\ canAccept(detail, o) => AcceptOfferDialog(detail, Client, o)
       /\ "reject" \in clientMay(o.company) => RejectOfferDialog(detail, Client, o)
  /\ \A c \in Companies :
       /\ "submitOffer" \in companyMay(c) => OfferDialog(c)
       /\ "withdraw" \in companyMay(c) => WithdrawOfferDialog(OfferDto(c))
       /\ "submitWork" \in companyMay(c) => SubmitWorkDialog(toOrderDetail(c), c)
       /\ "confirm" \in clientMay(c) => ConfirmWorkDialog(c)
       /\ "dispute" \in clientMay(c) => DisputeWorkDialog(c)

\* Some thirty sentences, spread over eleven cards and seven dialogs and written
\* by hand for each status, all hold of the order that a page has just loaded:
\* what they say of it, what they let expect, and what they let do.
PageIsTrue ==
  exists =>
    EveryWordHolds /\ EveryRowHolds /\ NoButtonIsHidden /\ RoundIsForeseen /\ DialogsComeTrue

=============================================================================
