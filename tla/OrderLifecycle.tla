---------------------------- MODULE OrderLifecycle ----------------------------
(***************************************************************************)
(* One order of one client, from its creation to its completion or         *)
(* deletion: the order row, the offers of the companies, the submissions   *)
(* (rounds of work), and the notifications that the transactions write.    *)
(*                                                                         *)
(* Every transaction takes the row lock of the order first (lockOrder), so *)
(* a committed transaction is one step here, and one that rolls back       *)
(* changes nothing.  What is not atomic in the code is not atomic here:    *)
(*   - an offer takes its edit stamp when the request arrives and commits  *)
(*     later, after the queue of the order (drafts);                       *)
(*   - the client accepts the offer that a tab loaded earlier (seen);      *)
(*   - addFiles opens a submission, uploads, and attaches the files in a   *)
(*     second transaction (uploads);                                       *)
(*   - create commits the row, attaches the client's files after that, and *)
(*     deletes the row again when this fails (creating).                   *)
(* Checks that a guard makes on a snapshot and the transaction repeats     *)
(* under the lock appear once, in the transaction.                         *)
(***************************************************************************)
EXTENDS OrderRules, FiniteSets

CONSTANTS
  Companies,   \* companies that may send offers
  Client,      \* the client who owns the order
  Terms,       \* what an offer proposes: a price and a deadline (a day)
  Files,       \* contents of files, i.e. their hashes
  Texts,       \* comments of submissions, corrections and acceptance
  Areas,       \* values of verifiedSquareMeters
  Readers,     \* users who open the bell in this instance
  Null,        \* a column without a value
  StampGaps,   \* milliseconds that may pass between two offer requests
  MaxClock,    \* bound: edit stamps handed out
  MaxDay,      \* bound: days that pass
  MaxRound,    \* bound: submissions
  MaxDrafts,   \* bound: offer requests in flight
  MaxUploads   \* bound: upload requests in flight

Users == Companies \union {Client}
Round == 1..MaxRound

ASSUME LifecycleAssumption ==
  /\ Client \notin Companies /\ IsFiniteSet(Companies)
  /\ Terms \subseteq [price : Nat, deadline : Nat]
  /\ Null \notin Terms \union Nat \union Texts \union Areas \union Companies
  /\ Null \notin [company : Companies, terms : Terms, editedAt : Nat \union {Null}]
  /\ Null \notin {"offer", "files", "area"} \X Users
  /\ Readers \subseteq Users
  /\ StampGaps \subseteq Nat
  /\ MaxRound \in Nat

VARIABLES
  status,                   \* Order.status, "NONE" before and "DELETED" after the row
  creating,                 \* create() has yet to attach the client's files
  deal,                     \* Order.price and Order.deadline
  correctionComment,
  clientCompletionComment,
  verifiedSquareMeters,
  taskFiles,                \* OrderFile rows of round 0, the client's
  offerStatus,              \* Offer.status of each company, or NoOffer
  proposed,                 \* Offer.proposedPrice and Offer.proposedDeadline
  editedAt,                 \* Offer.editedAt
  rejectionCount,           \* Offer.rejectionCount
  roundState,               \* OrderSubmission: "none", "open" or "sent"
  roundComment,             \* OrderSubmission.comment
  roundFiles,               \* OrderFile rows of the round, the executor's
  notices,                  \* Notification rows
  clock,                    \* the server's clock, in milliseconds
  today,                    \* its calendar date
  drafts,                   \* POST /offers requests that have taken their stamp
  seen,                     \* the offer in the client's tab
  uploads                   \* addFiles requests past openSubmission

orderVars  == <<status, creating, deal, correctionComment, clientCompletionComment,
                verifiedSquareMeters, taskFiles>>
offerVars  == <<offerStatus, proposed, editedAt, rejectionCount>>
roundVars  == <<roundState, roundComment, roundFiles>>
clockVars  == <<clock, today>>
callerVars == <<drafts, seen, uploads>>
vars == <<orderVars, offerVars, roundVars, notices, clockVars, callerVars>>

-----------------------------------------------------------------------------
(* Notifications *)

NoticeType ==
  {"OFFER_RECEIVED", "OFFER_WITHDRAWN", "OFFER_REJECTED", "OFFER_ACCEPTED",
   "OFFER_NOT_ACCEPTED", "WORK_SUBMITTED", "WORK_CONFIRMED", "WORK_DISPUTED",
   "FILES_UPDATED", "AREA_VERIFIED", "ORDER_DELETED"}

NoticeKey == {"offer", "files", "area"} \X Users

\* A company has one offer on the order, so it names the offer in the key.
SlipOfferKeyBare(c) == c
SlipOfferKeyOfOrder(c) == <<"offer", Client>>
offerKey(c) == <<"offer", c>>
orderFilesKey == <<"files", Client>>
orderAreaKey == <<"area", Client>>

Notice == [user : Users, type : NoticeType, key : NoticeKey \union {Null}, isRead : BOOLEAN]

notify(user, type, key) == [user |-> user, type |-> type, key |-> key, isRead |-> FALSE]

\* Unread rows with the addressee and the key of a draft; read ones are history.
superseded(new) ==
  {n \in notices : ~n.isRead /\ \E m \in new : m.key # Null /\ m.user = n.user /\ m.key = n.key}

createNotifications(new) == notices' = (notices \ superseded(new)) \union new

-----------------------------------------------------------------------------
(* The order row and its initial state *)

Init ==
  /\ status = "NONE" /\ creating = FALSE
  /\ deal = Null /\ correctionComment = Null /\ clientCompletionComment = Null
  /\ verifiedSquareMeters = Null /\ taskFiles = {}
  /\ offerStatus = [c \in Companies |-> NoOffer]
  /\ proposed = [c \in Companies |-> Null]
  /\ editedAt = [c \in Companies |-> Null]
  /\ rejectionCount = [c \in Companies |-> 0]
  /\ roundState = [r \in Round |-> "none"]
  /\ roundComment = [r \in Round |-> Null]
  /\ roundFiles = [r \in Round |-> {}]
  /\ notices = {}
  /\ clock = 0 /\ today = 0
  /\ drafts = {} /\ seen = Null /\ uploads = {}

\* DELETE of the row: offers, submissions and file rows go by cascade, the
\* notifications stay (their orderId is set to null).
DeleteRow ==
  /\ status' = "DELETED"
  /\ deal' = Null /\ correctionComment' = Null /\ clientCompletionComment' = Null
  /\ verifiedSquareMeters' = Null /\ taskFiles' = {}
  /\ offerStatus' = [c \in Companies |-> NoOffer]
  /\ proposed' = [c \in Companies |-> Null]
  /\ editedAt' = [c \in Companies |-> Null]
  /\ rejectionCount' = [c \in Companies |-> 0]
  /\ roundState' = [r \in Round |-> "none"]
  /\ roundComment' = [r \in Round |-> Null]
  /\ roundFiles' = [r \in Round |-> {}]

\* create(): the row is committed, and visible in the feed, before the files.
Create ==
  /\ status = "NONE"
  /\ status' = "WAITING"
  /\ creating' \in BOOLEAN
  /\ UNCHANGED <<deal, correctionComment, clientCompletionComment, verifiedSquareMeters,
                 taskFiles, offerVars, roundVars, notices, clockVars, callerVars>>

AttachTaskFiles(F) ==
  /\ creating /\ status # "DELETED"
  /\ creating' = FALSE
  /\ taskFiles' = F
  /\ UNCHANGED <<status, deal, correctionComment, clientCompletionComment,
                 verifiedSquareMeters, offerVars, roundVars, notices, clockVars, callerVars>>

\* The catch block: order.delete, whatever has happened to the order since.
RollbackCreate ==
  /\ creating
  /\ creating' = FALSE
  /\ \/ status # "DELETED" /\ DeleteRow
     \/ status = "DELETED"
        /\ UNCHANGED <<status, deal, correctionComment, clientCompletionComment,
                       verifiedSquareMeters, taskFiles, offerVars, roundVars>>
  /\ UNCHANGED <<notices, clockVars, callerVars>>

\* Companies whose offers are in play: they are told that the order is gone.
SlipAffectedWithoutPending == {c \in Companies : isExecutorOffer(offerStatus[c])}
affectedOfDeletion == {c \in Companies : isActiveOffer(offerStatus[c])}

\* remove() and deleteWithNotices().
Remove ==
  /\ canDeleteOrder(status)
  /\ DeleteRow
  /\ createNotifications({notify(c, "ORDER_DELETED", Null) : c \in affectedOfDeletion})
  /\ UNCHANGED <<creating, clockVars, callerVars>>

-----------------------------------------------------------------------------
(* Offers *)

rowUnchanged == UNCHANGED <<creating, correctionComment, clientCompletionComment,
                            verifiedSquareMeters, taskFiles>>

\* submit(): the stamp of a later edit is taken here, before the queue.
StartSubmit(c, t) ==
  /\ clock < MaxClock /\ Cardinality(drafts) < MaxDrafts
  /\ status # "NONE"
  /\ drafts' = drafts \union {[company |-> c, terms |-> t, stamp |-> clock]}
  /\ \E gap \in StampGaps : clock' = clock + gap
  /\ UNCHANGED <<orderVars, offerVars, roundVars, notices, today, seen, uploads>>

\* A request that fails - refused by a rule, by the queue of the order, or by
\* the database - rolls back.
DropSubmit(d) ==
  /\ drafts' = drafts \ {d}
  /\ UNCHANGED <<orderVars, offerVars, roundVars, notices, clockVars, seen, uploads>>

\* What the state machine asks of OFFER_SUBMITTED.
SlipMaySubmitAgain(c) == canTransition(status, "OFFER_SUBMITTED", offerStatus[c])
maySubmit(c) ==
  /\ canTransition(status, "OFFER_SUBMITTED", offerStatus[c])
  /\ ~isFinallyRejected(offerStatus[c], rejectionCount[c])

\* The upsert stamps an edit and leaves a new row without a stamp.
stampOfUpsert(d) == IF offerStatus[d.company] = NoOffer THEN Null ELSE d.stamp

\* The transaction of submit(): upsert and transition.
CommitSubmit(d) ==
  LET c == d.company IN
  /\ maySubmit(c)
  /\ drafts' = drafts \ {d}
  /\ status' = "AWAITING_CONFIRMATION"
  /\ offerStatus' = [offerStatus EXCEPT ![c] = "SENT"]
  /\ proposed' = [proposed EXCEPT ![c] = d.terms]
  /\ editedAt' = [editedAt EXCEPT ![c] = stampOfUpsert(d)]
  /\ createNotifications({notify(Client, "OFFER_RECEIVED", offerKey(c))})
  /\ rowUnchanged
  /\ UNCHANGED <<deal, rejectionCount, roundVars, clockVars, seen, uploads>>

\* The count is taken under the lock and leaves the offer itself out.
SlipOtherActiveOffers(c) == {b \in Companies : isActiveOffer(offerStatus[b])}
otherActiveOffers(c) == {b \in Companies \ {c} : offerStatus[b] = "SENT"}

statusAfterLeaving(c) ==
  IF otherActiveOffers(c) # {} THEN "AWAITING_CONFIRMATION" ELSE "WAITING"

\* leaveSelection(): the offer of c leaves the client's choice; the side that
\* did nothing is notified.
leaveSelection(c, event, newStatus, addressee) ==
  /\ offerStatus[c] # NoOffer
  /\ canTransition(status, event, offerStatus[c])
  /\ status' = statusAfterLeaving(c)
  /\ offerStatus' = [offerStatus EXCEPT ![c] = newStatus]
  /\ createNotifications({notify(addressee, event, offerKey(c))})
  /\ rowUnchanged
  /\ UNCHANGED <<deal, proposed, editedAt, roundVars, clockVars, callerVars>>

Withdraw(c) ==
  /\ leaveSelection(c, "OFFER_WITHDRAWN", "WITHDRAWN", Client)
  /\ UNCHANGED rejectionCount

\* Only a rejection by the client counts.
Reject(c) ==
  /\ leaveSelection(c, "OFFER_REJECTED", "REJECTED", c)
  /\ rejectionCount' = [rejectionCount EXCEPT ![c] = @ + 1]

\* The client opens the order; offers that left the choice are not shown.
LoadOffer(c) ==
  /\ status \in OrderStatus /\ isActiveOffer(offerStatus[c])
  /\ seen' = [company |-> c, terms |-> proposed[c], editedAt |-> editedAt[c]]
  /\ UNCHANGED <<orderVars, offerVars, roundVars, notices, clockVars, drafts, uploads>>

\* OfferChangedError: the stamp sent by the tab is compared under the lock.
SlipOfferNotReread(c) == TRUE
offerUnchanged(c) == editedAt[c] = seen.editedAt

\* offerAccepted: one offer wins, the other pending ones lose, and the price
\* and the deadline of the row become the deal.
AcceptOffer ==
  /\ seen # Null
  /\ LET c == seen.company
         rivals == otherActiveOffers(c)
     IN
     /\ offerStatus[c] # NoOffer
     /\ canTransition(status, "OFFER_ACCEPTED", offerStatus[c])
     /\ ~isOfferExpired(proposed[c].deadline, today)
     /\ offerUnchanged(c)
     /\ status' = "IN_PROGRESS"
     /\ offerStatus' = [b \in Companies |-> IF b = c THEN "ACCEPTED"
                                            ELSE IF b \in rivals THEN "NOT_ACCEPTED"
                                            ELSE offerStatus[b]]
     /\ deal' = proposed[c]
     /\ createNotifications({notify(c, "OFFER_ACCEPTED", offerKey(c))} \union
                            {notify(b, "OFFER_NOT_ACCEPTED", offerKey(b)) : b \in rivals})
  /\ rowUnchanged
  /\ UNCHANGED <<proposed, editedAt, rejectionCount, roundVars, clockVars, callerVars>>

-----------------------------------------------------------------------------
(* Submissions *)

\* resolveOffer without an offer id: the offer under which the work is done.
isExecutor(c) == isExecutorOffer(offerStatus[c])

hasRow(r) == roundState[r] # "none"

\* findOpenSubmission: the open one of the highest round.
isOpen(r) ==
  /\ roundState[r] = "open"
  /\ \A q \in Round : q > r => roundState[q] # "open"

noneOpen == \A r \in Round : roundState[r] # "open"

\* The round after the last one.
isNext(r) ==
  /\ r = 1 \/ \E q \in Round : q = r - 1 /\ hasRow(q)
  /\ \A q \in Round : q >= r => ~hasRow(q)

\* First half of addFiles: reuse the open submission or create one, which
\* alone gets the comment now.
OpenSubmission(F, text) ==
  /\ canUploadWork(status) /\ Cardinality(uploads) < MaxUploads
  /\ \E c \in Companies : isExecutor(c)
  /\ \E r \in Round :
       /\ \/ isOpen(r) /\ UNCHANGED roundVars
          \/ /\ noneOpen /\ isNext(r)
             /\ roundState' = [roundState EXCEPT ![r] = "open"]
             /\ roundComment' = [roundComment EXCEPT ![r] = text]
             /\ UNCHANGED roundFiles
       /\ uploads' = uploads \union {[round |-> r, files |-> F, comment |-> text]}
  /\ UNCHANGED <<orderVars, offerVars, notices, clockVars, drafts, seen>>

\* The upload fails: the quota, the storage, or the connection of the client.
DropUpload(u) ==
  /\ uploads' = uploads \ {u}
  /\ UNCHANGED <<orderVars, offerVars, roundVars, notices, clockVars, drafts, seen>>

SlipSubmissionNotRechecked(u) == roundState[u.round] # "none"
assertSubmissionOpen(u) ==
  /\ canUploadWork(status)
  /\ roundState[u.round] = "open"

\* Second half of addFiles: comment, new file rows and the notification in one
\* transaction.  Files the round already has are skipped, and an upload that
\* adds none only saves its comment.
AttachWork(u) ==
  /\ assertSubmissionOpen(u)
  /\ uploads' = uploads \ {u}
  /\ roundComment' = [roundComment EXCEPT ![u.round] = u.comment]
  /\ roundFiles' = [roundFiles EXCEPT ![u.round] = @ \union u.files]
  /\ IF u.files \subseteq roundFiles[u.round]
     THEN UNCHANGED notices
     ELSE createNotifications({notify(Client, "FILES_UPDATED", orderFilesKey)})
  /\ UNCHANGED <<orderVars, offerVars, roundState, clockVars, drafts, seen>>

workTransition(c, event, orderStatus, newStatus) ==
  /\ isExecutor(c)
  /\ canTransition(status, event, offerStatus[c])
  /\ status' = orderStatus
  /\ offerStatus' = [offerStatus EXCEPT ![c] = newStatus]
  /\ UNCHANGED <<creating, deal, verifiedSquareMeters, taskFiles, proposed, editedAt,
                 rejectionCount, clockVars, callerVars>>

\* submitWork: the transition and the end of the open submission, which needs
\* at least one file, commit together.
maySubmitRound(r) == isOpen(r) /\ roundFiles[r] # {}

SubmitWork(c) ==
  /\ workTransition(c, "WORK_SUBMITTED", "AWAITING_COMPLETION_CONFIRMATION", "WORK_SUBMITTED")
  /\ \E r \in Round :
       /\ maySubmitRound(r)
       /\ roundState' = [roundState EXCEPT ![r] = "sent"]
  /\ createNotifications({notify(Client, "WORK_SUBMITTED", Null)})
  /\ UNCHANGED <<roundComment, roundFiles, correctionComment, clientCompletionComment>>

Confirm(c, text) ==
  /\ workTransition(c, "WORK_CONFIRMED", "COMPLETED", "COMPLETED")
  /\ clientCompletionComment' = text
  /\ createNotifications({notify(c, "WORK_CONFIRMED", Null)})
  /\ UNCHANGED <<roundVars, correctionComment>>

Dispute(c, text) ==
  /\ workTransition(c, "WORK_DISPUTED", "COMPLETION_DISPUTED", "BACK_FOR_OVERRIDE")
  /\ correctionComment' = text
  /\ createNotifications({notify(c, "WORK_DISPUTED", Null)})
  /\ UNCHANGED <<roundVars, clientCompletionComment>>

\* The check of verifyArea under the lock; the one on the guard's snapshot is
\* not enough, the client may have accepted the work since.
mayVerifyArea == canVerifyArea(status)

\* The same value again is no change and no event.
VerifyArea(area) ==
  /\ mayVerifyArea /\ \E c \in Companies : isExecutor(c)
  /\ verifiedSquareMeters # area
  /\ verifiedSquareMeters' = area
  /\ createNotifications({notify(Client, "AREA_VERIFIED", orderAreaKey)})
  /\ UNCHANGED <<status, creating, deal, correctionComment, clientCompletionComment, taskFiles,
                 offerVars, roundVars, clockVars, callerVars>>

-----------------------------------------------------------------------------
(* The bell and the calendar *)

MarkRead(n) ==
  /\ n.user \in Readers /\ ~n.isRead
  /\ notices' = (notices \ {n}) \union {[n EXCEPT !.isRead = TRUE]}
  /\ UNCHANGED <<orderVars, offerVars, roundVars, clockVars, callerVars>>

MarkAllRead(u) ==
  /\ \E n \in notices : n.user = u /\ ~n.isRead
  /\ notices' = {IF n.user = u THEN [n EXCEPT !.isRead = TRUE] ELSE n : n \in notices}
  /\ UNCHANGED <<orderVars, offerVars, roundVars, clockVars, callerVars>>

DayPasses ==
  /\ today < MaxDay
  /\ today' = today + 1
  /\ UNCHANGED <<orderVars, offerVars, roundVars, notices, clock, callerVars>>

-----------------------------------------------------------------------------
Next ==
  \/ Create
  \/ \E F \in SUBSET Files : AttachTaskFiles(F)
  \/ RollbackCreate
  \/ Remove
  \/ \E c \in Companies, t \in Terms : StartSubmit(c, t)
  \/ \E d \in drafts : DropSubmit(d)
  \/ \E d \in drafts : CommitSubmit(d)
  \/ \E c \in Companies : Withdraw(c)
  \/ \E c \in Companies : Reject(c)
  \/ \E c \in Companies : LoadOffer(c)
  \/ AcceptOffer
  \/ \E F \in (SUBSET Files) \ {{}}, text \in Texts : OpenSubmission(F, text)
  \/ \E u \in uploads : DropUpload(u)
  \/ \E u \in uploads : AttachWork(u)
  \/ \E c \in Companies : SubmitWork(c)
  \/ \E c \in Companies, text \in Texts \union {Null} : Confirm(c, text)
  \/ \E c \in Companies, text \in Texts : Dispute(c, text)
  \/ \E area \in Areas : VerifyArea(area)
  \/ \E n \in notices : MarkRead(n)
  \/ \E u \in Readers : MarkAllRead(u)
  \/ DayPasses

Spec == Init /\ [][Next]_vars

-----------------------------------------------------------------------------
(* What a company is shown *)

\* The feed of available orders (buildAvailableOrdersWhere).
SlipFeedWithoutLimit(c) ==
  /\ acceptsOffers(status)
  /\ offerStatus[c] \in {NoOffer} \union RESUBMITTABLE_OFFER_STATUSES
inFeed(c) ==
  /\ acceptsOffers(status)
  /\ \/ offerStatus[c] \in {NoOffer, "WITHDRAWN"}
     \/ offerStatus[c] = "REJECTED" /\ rejectionCount[c] < MAX_OFFER_REJECTIONS

\* The flag canSubmitOffer of the order's page (toOrderDetail).
canSubmitOffer(c) ==
  /\ canTransition(status, "OFFER_SUBMITTED", offerStatus[c])
  /\ ~(offerStatus[c] # NoOffer /\ isFinallyRejected(offerStatus[c], rejectionCount[c]))

-----------------------------------------------------------------------------
(* Invariants *)

TypeOK ==
  /\ status \in OrderStatus \union {"NONE", "DELETED"}
  /\ creating \in BOOLEAN
  /\ deal \in Terms \union {Null}
  /\ correctionComment \in Texts \union {Null}
  /\ clientCompletionComment \in Texts \union {Null}
  /\ verifiedSquareMeters \in Areas \union {Null}
  /\ taskFiles \subseteq Files
  /\ offerStatus \in [Companies -> OfferStatus \union {NoOffer}]
  /\ proposed \in [Companies -> Terms \union {Null}]
  /\ \A c \in Companies : offerStatus[c] = NoOffer \/ proposed[c] \in Terms
  /\ editedAt \in [Companies -> Nat \union {Null}]
  /\ rejectionCount \in [Companies -> Nat]
  /\ roundState \in [Round -> {"none", "open", "sent"}]
  /\ roundComment \in [Round -> Texts \union {Null}]
  /\ roundFiles \in [Round -> SUBSET Files]
  /\ notices \subseteq Notice
  /\ clock \in Nat /\ today \in Nat
  /\ drafts \subseteq [company : Companies, terms : Terms, stamp : Nat]
  /\ seen \in [company : Companies, terms : Terms, editedAt : Nat \union {Null}] \union {Null}
  /\ uploads \subseteq [round : Round, files : SUBSET Files, comment : Texts]

\* The status that the executor's offer has in each stage of the work.
executorStatus ==
  [s \in {"IN_PROGRESS", "AWAITING_COMPLETION_CONFIRMATION", "COMPLETION_DISPUTED",
          "COMPLETED"} |->
     CASE s = "IN_PROGRESS" -> "ACCEPTED"
       [] s = "AWAITING_COMPLETION_CONFIRMATION" -> "WORK_SUBMITTED"
       [] s = "COMPLETION_DISPUTED" -> "BACK_FOR_OVERRIDE"
       [] s = "COMPLETED" -> "COMPLETED"]

WorkStages == {"IN_PROGRESS", "AWAITING_COMPLETION_CONFIRMATION", "COMPLETION_DISPUTED",
               "COMPLETED"}

\* The order and its offers tell the same story, though each transition writes
\* them separately: an order waits for a choice exactly while some offer is
\* pending, nobody executes it before the choice, and after it exactly one
\* company does, in the status of the stage, with no offer left pending.
SelectionConsistent ==
  /\ status \in {"NONE", "DELETED"} => \A c \in Companies : offerStatus[c] = NoOffer
  /\ status = "WAITING" =>
       \A c \in Companies : offerStatus[c] \in {NoOffer, "WITHDRAWN", "REJECTED"}
  /\ status = "AWAITING_CONFIRMATION" =>
       /\ \E c \in Companies : offerStatus[c] = "SENT"
       /\ \A c \in Companies : offerStatus[c] \in {NoOffer, "SENT", "WITHDRAWN", "REJECTED"}
  /\ status \in WorkStages =>
       \E c \in Companies :
         /\ offerStatus[c] = executorStatus[status]
         /\ \A b \in Companies \ {c} :
              offerStatus[b] \in {NoOffer, "WITHDRAWN", "REJECTED", "NOT_ACCEPTED"}

\* The price and the deadline of the order are those in the executor's offer,
\* and there are none before the choice: no offer changes behind a deal.
DealIsTheOffer ==
  /\ status \notin WorkStages => deal = Null
  /\ status \in WorkStages => \A c \in Companies : isExecutor(c) => deal = proposed[c]

\* A company that the client turned down MAX_OFFER_REJECTIONS times is out for
\* good, whatever it withdrew and sent again in between.
FinalRejectionHolds ==
  \A c \in Companies :
    /\ rejectionCount[c] <= MAX_OFFER_REJECTIONS
    /\ rejectionCount[c] = MAX_OFFER_REJECTIONS => offerStatus[c] = "REJECTED"

\* Why the stamp tells the client's tab that an offer was rewritten: no stamp
\* is in use twice, and a row that bears the stamp the tab saw still proposes
\* the terms the tab saw.  Needs a millisecond between any two requests.
EditsToldApart ==
  /\ \A d, e \in drafts : d.stamp < clock /\ (d.stamp = e.stamp => d = e)
  /\ \A c \in Companies :
       editedAt[c] # Null => editedAt[c] < clock /\ \A d \in drafts : d.stamp # editedAt[c]
  /\ seen # Null =>
       /\ offerStatus[seen.company] # NoOffer \/ status = "DELETED"
       /\ seen.editedAt # Null =>
            seen.editedAt < clock /\ \A d \in drafts : d.stamp # seen.editedAt
       /\ offerStatus[seen.company] # NoOffer /\ editedAt[seen.company] = seen.editedAt =>
            proposed[seen.company] = seen.terms

sentRounds == {r \in Round : roundState[r] = "sent"}

\* Rounds are numbered without gaps, at most the last one is open, whatever
\* was submitted has files, and the client is never asked to judge an order
\* whose last round is still open: uploads that outlive a submission do not
\* disturb this.
RoundsFollowStatus ==
  /\ \A r \in Round : hasRow(r) => \A q \in 1..(r - 1) : roundState[q] = "sent"
  /\ \A r \in sentRounds : roundFiles[r] # {}
  /\ status \notin WorkStages => \A r \in Round : ~hasRow(r)
  /\ status = "IN_PROGRESS" => sentRounds = {}
  /\ status = "COMPLETION_DISPUTED" => sentRounds # {}
  /\ status \in {"AWAITING_COMPLETION_CONFIRMATION", "COMPLETED"} =>
       noneOpen /\ sentRounds # {}

announced(user, type, key) ==
  \E n \in notices : n.user = user /\ n.type = type /\ n.key = key

\* Collapsing never swallows the news: for the present status of every offer
\* there is a notification, read or not, to the side that did not act.
FateIsAnnounced ==
  \A c \in Companies :
    LET s == offerStatus[c] IN
    /\ s = "SENT" => announced(Client, "OFFER_RECEIVED", offerKey(c))
    /\ s = "WITHDRAWN" => announced(Client, "OFFER_WITHDRAWN", offerKey(c))
    /\ s = "REJECTED" => announced(c, "OFFER_REJECTED", offerKey(c))
    /\ s = "NOT_ACCEPTED" => announced(c, "OFFER_NOT_ACCEPTED", offerKey(c))
    /\ isExecutorOffer(s) => announced(c, "OFFER_ACCEPTED", offerKey(c))

\* The bell does not pile up repeats: at most one unread notification for each
\* addressee and key, whatever was read in between.
OneUnreadPerKey ==
  \A m, n \in notices :
    (m.user = n.user /\ m.key = n.key /\ m.key # Null /\ ~m.isRead /\ ~n.isRead) => m = n

\* The feed, the button on the order's page and the state machine, three copies
\* of one rule, agree: the feed shows an order exactly when the company has no
\* pending offer and sending one would be accepted now.
DoorsAgree ==
  \A c \in Companies :
    /\ canSubmitOffer(c) <=> maySubmit(c)
    /\ inFeed(c) <=> maySubmit(c) /\ offerStatus[c] # "SENT"

-----------------------------------------------------------------------------
(* Action properties *)

\* What the client agreed to is what the tab showed, although the company may
\* rewrite the offer at any moment, also with a request stamped earlier.
DealAsSeen ==
  [][status = "AWAITING_CONFIRMATION" /\ status' = "IN_PROGRESS" => deal' = seen.terms]_vars

\* A submitted round is closed: neither its comment nor its files change while
\* the order exists, whichever upload arrives late.
SubmittedRoundFrozen ==
  [][\A r \in Round :
       roundState[r] = "sent" /\ status' # "DELETED" =>
         /\ roundState'[r] = "sent"
         /\ roundComment'[r] = roundComment[r]
         /\ roundFiles'[r] = roundFiles[r]]_vars

\* Nothing that is still in flight touches the outcome of a completed order.
CompletedIsFinal ==
  [][status = "COMPLETED" /\ status' # "DELETED" =>
       UNCHANGED <<status, deal, correctionComment, clientCompletionComment,
                   verifiedSquareMeters, offerVars, roundVars>>]_vars

\* When the client removes an order, every company with an offer in play is
\* told.  (A creation that
\* takes its own order back is another matter.)
RemovalIsTold ==
  [][creating' = creating /\ status \in OrderStatus /\ status' = "DELETED" =>
       \A c \in Companies : isActiveOffer(offerStatus[c]) =>
         \E n \in notices' : n.user = c /\ n.type = "ORDER_DELETED" /\ ~n.isRead]_vars

-----------------------------------------------------------------------------
(* The lifecycle keeps the contract *)

contractStage ==
  CASE status \in OFFER_ELIGIBLE_ORDER_STATUSES -> "choosing"
    [] status \in WORK_UPLOAD_ORDER_STATUSES -> "working"
    [] status = "AWAITING_COMPLETION_CONFIRMATION" -> "judging"
    [] status = "COMPLETED" -> "done"
    [] status = "NONE" -> "none"
    [] status = "DELETED" -> "gone"

contractorOf ==
  IF status \in WorkStages THEN CHOOSE c \in Companies : isExecutor(c) ELSE Null

Contract == INSTANCE OrderContract WITH
              stage <- contractStage, contractor <- contractorOf, terms <- deal

\* Seen from the two sides, all the machinery of offers, tabs, rounds and late
\* uploads is the plain contract: once engaged, the contractor and the terms
\* stay, and the stages follow one another as promised.
KeepsContract == Contract!ContractSpec

-----------------------------------------------------------------------------
(* Who takes part *)

participantStage ==
  CASE status \in WorkStages -> "work"
    [] status = "DELETED" -> "gone"
    [] OTHER -> "open"

Participants == INSTANCE OrderParticipants WITH
                  stage <- participantStage,
                  active <- {c \in Companies : isActiveOffer(offerStatus[c])}

\* The rooms of the gateway may rely on little: companies come and go while the
\* order is open to offers, the choice leaves one of them, and nothing that
\* follows changes who takes part until the row is gone.
KeepsParticipants == Participants!ParticipantsSpec

=============================================================================
