------------------------------ MODULE OrderView ------------------------------
(***************************************************************************)
(* The order as each user gets it, and the buttons of the page made from   *)
(* it.  The backend masks the progress of an order from companies that are *)
(* not in play (order-view.ts); the page, which has nothing but this       *)
(* answer, works out who is looking and what may be done; files are listed *)
(* and handed out by rules of their own.                                   *)
(***************************************************************************)
EXTENDS OrderLifecycle

-----------------------------------------------------------------------------
(* What the backend shows *)

exists == status \in OrderStatus

\* The status of the viewer's own offer; the client has none.
ownStatus(u) == IF u \in Companies THEN offerStatus[u] ELSE NoOffer

seesProgress(u) == u = Client \/ isActiveOffer(ownStatus(u))
isParty(u) == u = Client \/ isExecutorOffer(ownStatus(u))

OfferDto(c) == [company |-> c, status |-> offerStatus[c], terms |-> proposed[c],
                editedAt |-> editedAt[c], rejectionCount |-> rejectionCount[c]]

\* To the client the offers in play, to a company its own.
visibleOffers(u) ==
  {OfferDto(c) : c \in {b \in Companies : IF u = Client THEN isActiveOffer(offerStatus[b])
                                          ELSE b = u /\ offerStatus[b] # NoOffer}}

orderFiles ==
  {[ownerType |-> "CLIENT", round |-> 0, content |-> f] : f \in taskFiles} \union
  UNION {{[ownerType |-> "COMPANY", round |-> r, content |-> f] : f \in roundFiles[r]} : r \in Round}

SlipVisibleFiles(u) ==
  IF isParty(u) THEN orderFiles
  ELSE {f \in orderFiles : f.ownerType = "CLIENT" /\ isActiveOffer(ownStatus(u))}
visibleFiles(u) ==
  IF isParty(u) THEN orderFiles
  ELSE {f \in orderFiles : f.ownerType = "CLIENT" /\ companySeesTaskFiles(status, ownStatus(u))}

shown(condition, value) == IF condition THEN value ELSE Null

toOrderListItem(u) ==
  [status |-> IF seesProgress(u) THEN status ELSE "WAITING",
   deal |-> shown(seesProgress(u), deal),
   contractors |-> {c \in Companies : isParty(u) /\ isExecutor(c)}]

\* All the files of the order count, shown or not.
SlipFilesSizeBytes(u) == Cardinality(orderFiles)
filesSizeBytes(u) == shown(isParty(u), Cardinality(orderFiles))

submissionDtos(u) ==
  {[round |-> r, comment |-> roundComment[r], isSubmitted |-> roundState[r] = "sent"]
     : r \in {q \in Round : isParty(u) /\ hasRow(q)}}

toOrderDetail(u) ==
  [item |-> toOrderListItem(u),
   verifiedSquareMeters |-> shown(seesProgress(u), verifiedSquareMeters),
   clientCompletionComment |-> shown(isParty(u), clientCompletionComment),
   correctionComment |-> shown(isParty(u), correctionComment),
   clients |-> {c \in {Client} : isParty(u)},
   offers |-> visibleOffers(u),
   files |-> visibleFiles(u),
   filesSizeBytes |-> filesSizeBytes(u),
   submissions |-> submissionDtos(u),
   canSubmitOffer |-> u # Client /\ canSubmitOffer(u)]

-----------------------------------------------------------------------------
(* Other doors to the same order *)

\* The ownership guard, and the rule of the gateway (isOrderParticipant).
mayEnter(u, mode) ==
  /\ exists
  /\ IF mode = "EXECUTOR" THEN isExecutorOffer(ownStatus(u))
     ELSE u = Client \/ (mode = "VIEWER" /\ u \in Companies)

isOrderParticipant(u) == exists /\ (u = Client \/ isActiveOffer(ownStatus(u)))

\* The download of a file.
assertFileAccess(u, ownerType) ==
  /\ exists
  /\ \/ u = Client
     \/ /\ u \in Companies
        /\ IF ownerType = "CLIENT" THEN companySeesTaskFiles(status, ownStatus(u))
                                   ELSE isExecutorOffer(ownStatus(u))

\* The files for which the user would be given a link.
getDownloadUrl(u) == {f \in orderFiles : assertFileAccess(u, f.ownerType)}

\* The section of documents: files of the orders to which the user is a party.
documents(u) ==
  {f \in orderFiles : u = Client \/ \E c \in Companies : c = u /\ isExecutor(c)}

-----------------------------------------------------------------------------
(* What the page makes of the answer: detail is all that it has *)

ownOffer(detail, u) == {o \in detail.offers : o.company = u}

isOwner(detail, u) == u \in detail.clients

seesRealStatus(detail, u) ==
  isOwner(detail, u) \/ \E o \in ownOffer(detail, u) : isActiveOffer(o.status)

\* resolveSubmissions: rounds come from the submissions and from the files.
companyFiles(detail, r) == {f \in detail.files : f.ownerType = "COMPANY" /\ f.round = r}
shownRounds(detail) ==
  {s.round : s \in detail.submissions} \union
  {r \in Round : companyFiles(detail, r) # {}}
isLatest(detail, r) == r \in shownRounds(detail) /\ \A q \in shownRounds(detail) : q <= r
isSubmittedRound(detail, r) == \E s \in detail.submissions : s.round = r /\ s.isSubmitted

\* The submission that the company has yet to send: the last one, or none.
SlipOpenRound(detail) == {r \in Round : isLatest(detail, r)}
openRound(detail) == {r \in Round : isLatest(detail, r) /\ ~isSubmittedRound(detail, r)}

Can(detail, event, o) == canTransition(detail.item.status, event, o.status)

\* resolveClientActions.  The client decides on pending offers, one by one.
decisions(detail, u) == {o \in detail.offers : isOwner(detail, u) /\ isPendingOffer(o.status)}

canAccept(detail, o) ==
  Can(detail, "OFFER_ACCEPTED", o) /\ ~isOfferExpired(o.terms.deadline, today)

ClientButton == {"accept", "reject", "confirm", "dispute"}

\* The buttons at the offer of company c.
clientButtons(detail, u, c) ==
  {b \in ClientButton :
     \E o \in detail.offers :
       /\ o.company = c /\ isOwner(detail, u)
       /\ CASE b = "accept"  -> o \in decisions(detail, u) /\ canAccept(detail, o)
            [] b = "reject"  -> o \in decisions(detail, u) /\ Can(detail, "OFFER_REJECTED", o)
            [] b = "confirm" -> isExecutorOffer(o.status) /\ Can(detail, "WORK_CONFIRMED", o)
            [] b = "dispute" -> isExecutorOffer(o.status) /\ Can(detail, "WORK_DISPUTED", o)}

showsDelete(detail, u) == isOwner(detail, u) /\ canDeleteOrder(detail.item.status)

\* resolveCompanyActions, and the card of the company's own offer.
CompanyButton == {"submitOffer", "withdraw", "addFiles", "submitWork", "verifyArea"}

companyButtons(detail, u) ==
  {b \in CompanyButton :
     LET own == ownOffer(detail, u)
         executing == {o \in own : isExecutorOffer(o.status)}
         isPending == \E o \in own : isPendingOffer(o.status)
     IN
     /\ ~isOwner(detail, u)
     /\ CASE b = "submitOffer" -> isPending \/ detail.canSubmitOffer
          [] b = "withdraw"    -> isPending
          [] b = "addFiles"    -> executing # {} /\ canUploadWork(detail.item.status)
          [] b = "submitWork"  -> /\ \E o \in executing : Can(detail, "WORK_SUBMITTED", o)
                                  /\ \E r \in openRound(detail) : companyFiles(detail, r) # {}
          [] b = "verifyArea"  -> executing # {} /\ canVerifyArea(detail.item.status)}

-----------------------------------------------------------------------------
(* Properties *)

\* What the server would do now, were each request sent.
moves(c, event) == offerStatus[c] # NoOffer /\ canTransition(status, event, offerStatus[c])

clientMay(c) ==
  {b \in ClientButton :
     CASE b = "accept"  -> moves(c, "OFFER_ACCEPTED") /\ ~isOfferExpired(proposed[c].deadline, today)
       [] b = "reject"  -> moves(c, "OFFER_REJECTED")
       [] b = "confirm" -> isExecutor(c) /\ moves(c, "WORK_CONFIRMED")
       [] b = "dispute" -> isExecutor(c) /\ moves(c, "WORK_DISPUTED")}

companyMay(c) ==
  {b \in CompanyButton :
     CASE b = "submitOffer" -> maySubmit(c)
       [] b = "withdraw"    -> moves(c, "OFFER_WITHDRAWN")
       [] b = "addFiles"    -> mayEnter(c, "EXECUTOR") /\ canUploadWork(status)
       [] b = "submitWork"  -> /\ mayEnter(c, "EXECUTOR") /\ moves(c, "WORK_SUBMITTED")
                               /\ \E r \in Round : maySubmitRound(r)
       [] b = "verifyArea"  -> mayEnter(c, "EXECUTOR") /\ mayVerifyArea}

\* The page has a masked answer and rules of its own, and yet shows exactly the
\* buttons on which the server would act: none that ends in a conflict, and
\* none missing from the page of an order that could go on.
ButtonsAgree ==
  exists =>
    /\ showsDelete(toOrderDetail(Client), Client) <=> canDeleteOrder(status)
    /\ \A c \in Companies :
         /\ clientButtons(toOrderDetail(Client), Client, c) = clientMay(c)
         /\ companyButtons(toOrderDetail(c), c) = companyMay(c)

\* List and download agree for every file and viewer, and whatever is among a
\* user's documents can be downloaded.
FilesShownAreServed ==
  exists => \A u \in Users :
    /\ visibleFiles(u) = getDownloadUrl(u)
    /\ documents(u) \subseteq visibleFiles(u)

\* The page asks for the room of the order exactly when the gateway lets its
\* user in, and shows a status exactly when it is the real one.
RoomIsForParticipants ==
  exists => \A u \in Users :
    LET detail == toOrderDetail(u) IN
    /\ seesRealStatus(detail, u) <=> isOrderParticipant(u)
    /\ seesRealStatus(detail, u) => detail.item.status = status

\* A company that is not in play cannot tell from the page what goes on: as
\* long as the client's task and the answer to "may I offer?" stay, no step of
\* others changes anything in what it gets.
outOfPlay(c) == exists /\ ~seesProgress(c)
StrangersSeeNoProgress ==
  [][\A c \in Companies :
       /\ outOfPlay(c) /\ outOfPlay(c)'
       /\ OfferDto(c)' = OfferDto(c)
       /\ acceptsOffers(status') = acceptsOffers(status)
       /\ acceptsOffers(status) => taskFiles' = taskFiles
       => toOrderDetail(c)' = toOrderDetail(c)]_vars

=============================================================================
