------------------------------- MODULE LiveScreens -------------------------------
(***************************************************************************)
(* What the screens show of an order, and who is told when it changes.     *)
(* After a commit the services send events: to the rooms of users, to the  *)
(* room of the order, to the feed.  Each screen listens to a few kinds of  *)
(* them, put down by hand in a list, and reads itself again; what is on no *)
(* list stays on the screen as it was.                                     *)
(*                                                                         *)
(* A screen here is one that another tab of a user has open: the tab that  *)
(* acts learns the outcome from the answer to its request.                 *)
(***************************************************************************)
EXTENDS OrderPage

-----------------------------------------------------------------------------
(* The screens *)

Screen == {"orders", "offers", "available", "documents", "order", "notifications", "bell"}

\* A row of the client's list: contractor, status, price and deadline.
ordersList(u) == {toOrderListItem(v) : v \in {u} \intersect {Client}}

\* The company's offers; the order behind them gives no more than its title.
companyOffersList(u) ==
  {OfferDto(c) : c \in {b \in {u} \intersect Companies : offerStatus[b] # NoOffer}}

\* A row of the feed, with the offer that its dialog opens on.
toAvailableOrderItem(c) == [item |-> toOrderListItem(c), ownOffer |-> visibleOffers(c)]

\* (An order whose files are on their way is in the feed before it is announced.)
availableOrdersList(u) ==
  {toAvailableOrderItem(c) : c \in {b \in {u} \intersect Companies : inFeed(b) /\ ~creating}}

documentOwnerLabel(f, u) == IF (f.ownerType = "CLIENT") = (u = Client) THEN "own" ELSE "other"
documentsList(u) == {[file |-> f, owner |-> documentOwnerLabel(f, u)] : f \in documents(u)}

\* The foreign key is set to null when the order goes; ORDER_DELETED never had one.
toNotificationDto(n) ==
  [type |-> n.type, isRead |-> n.isRead, ofOrder |-> exists /\ n.type # "ORDER_DELETED"]

notificationHref(notification) == IF notification.ofOrder THEN "order" ELSE Null

NotificationRow(notification) ==
  [type |-> notification.type, href |-> notificationHref(notification),
   canBeRead |-> ~notification.isRead]

notificationsList(u) ==
  {NotificationRow(toNotificationDto(n)) : n \in {m \in notices : m.user = u}}

unreadCount(u) == Cardinality({n \in notices : n.user = u /\ ~n.isRead})

\* No badge, and nothing to mark, when all is read: both go by the one count
\* that the frame of the cabinet keeps.
NotificationBell(count) == {count} \ {0}
MarkAllReadButton(count) == count > 0

UnreadProvider(u) ==
  LET count == unreadCount(u) IN
  [badge |-> NotificationBell(count), canMarkAll |-> MarkAllReadButton(count)]

shownOn(s, u) ==
  CASE s = "orders"        -> IF exists THEN ordersList(u) ELSE {}
    [] s = "offers"        -> companyOffersList(u)
    [] s = "available"     -> availableOrdersList(u)
    [] s = "documents"     -> documentsList(u)
    [] s = "order"         -> IF exists THEN {toOrderDetail(u)} ELSE {}
    [] s = "notifications" -> <<notificationsList(u), UnreadProvider(u).canMarkAll>>
    [] s = "bell"          -> UnreadProvider(u).badge

\* An order that has yet to be created has no page.
isOpenable(s) == s = "order" => exists

-----------------------------------------------------------------------------
(* What is sent *)

userRoom(u) == <<"user", u>>
orderRoom == <<"order", Null>>
companyFeed == <<"company-feed", Null>>

message(event, rooms) == [event |-> event, rooms |-> rooms, type |-> Null]

notificationMessages(new) ==
  {[event |-> "notification:created", rooms |-> {userRoom(n.user)}, type |-> n.type] : n \in new}

broadcast(messages, evicted) == [messages |-> messages, evicted |-> evicted]

nothing == broadcast({}, {})

orderCreatedBroadcast == broadcast({message("order:created", {companyFeed})}, {})

\* The offers to which a plan gives a status, the old one again included.
offerUpdates(p) == {c \in Companies : \E s \in OfferStatus : setOfferStatus(c, s) \in p.effects}

statusMessage(p) ==
  IF p.nextStatus = status THEN {}
  ELSE {message("order:status_changed",
                {orderRoom, userRoom(Client)} \union
                {room \in {companyFeed} : acceptsOffers(status) # acceptsOffers(p.nextStatus)})}

transitionBroadcast(p, offerMessages) ==
  broadcast(offerMessages \union statusMessage(p)
              \union {message("offer:status_changed", {userRoom(Client), userRoom(c)})
                        : c \in offerUpdates(p)}
              \union notificationMessages(newNotices(p.effects)),
            {c \in offerUpdates(p) : ~isActiveOffer(statusAfter(p.effects, c))})

\* Whether the offer is new the caller knows, who looked before the upsert.
offerEventOf(c) ==
  {message(IF offerStatus[c] = NoOffer THEN "offer:created" ELSE "offer:updated",
           {userRoom(Client), userRoom(c)})}

orderUpdateBroadcast(event, new) ==
  broadcast({message(event, {orderRoom, userRoom(Client)})} \union notificationMessages(new), {})

orderDeletedBroadcast ==
  broadcast({message("order:status_changed", {companyFeed})}
              \union notificationMessages({notify(c, "ORDER_DELETED", Null)
                                             : c \in affectedOfDeletion}),
            Users)

\* addFiles: an event for new files, and for a new comment alone; a notice for
\* new files only.
filesBroadcast(u) ==
  IF u.files \subseteq roundFiles[u.round] /\ u.comment = roundComment[u.round] THEN nothing
  ELSE orderUpdateBroadcast("order:files_updated",
         IF u.files \subseteq roundFiles[u.round] THEN {}
         ELSE {notify(Client, "FILES_UPDATED", orderFilesKey)})

areaBroadcast ==
  orderUpdateBroadcast("order:area_verified", {notify(Client, "AREA_VERIFIED", orderAreaKey)})

-----------------------------------------------------------------------------
(* Who listens to what *)

ORDER_DETAIL_EVENTS ==
  {"order:status_changed", "offer:created", "offer:updated", "offer:status_changed",
   "order:files_updated", "order:area_verified", "notification:created"}

ORDERS_LIST_EVENTS == {"order:status_changed"}
COMPANY_OFFERS_EVENTS == {"offer:status_changed", "notification:created"}
COMPANY_FEED_EVENTS == {"order:created", "order:status_changed", "notification:created"}

SlipDocumentsEvents == {"order:files_updated"}
DOCUMENTS_EVENTS == {"order:files_updated", "offer:status_changed"}
NOTIFICATIONS_EVENTS == {"notification:created"}

eventsOf(s) ==
  CASE s = "orders"        -> ORDERS_LIST_EVENTS
    [] s = "offers"        -> COMPANY_OFFERS_EVENTS
    [] s = "available"     -> COMPANY_FEED_EVENTS
    [] s = "documents"     -> DOCUMENTS_EVENTS
    [] s = "order"         -> ORDER_DETAIL_EVENTS
    [] s \in {"notifications", "bell"} -> NOTIFICATIONS_EVENTS

\* Every socket is in the room of its user; the feed is for companies, and the
\* page of an order asks for its room when it shows the real status.
roomsOf(s, u) ==
  {userRoom(u)}
  \union {room \in {companyFeed} : s = "available" /\ u \in Companies}
  \union {room \in {orderRoom} : s = "order" /\ seesRealStatus(toOrderDetail(u), u)}

\* acceptsOrderDetailEvent: of the notices only the one of a deletion.
accepts(s, m) ==
  s = "order" /\ m.event = "notification:created" => m.type = "ORDER_DELETED"

\* Those who are evicted leave the order's room before anything is sent.
hears(s, u, sent) ==
  LET rooms == roomsOf(s, u) \ {room \in {orderRoom} : u \in sent.evicted} IN
  \E m \in sent.messages :
    m.event \in eventsOf(s) /\ m.rooms \intersect rooms # {} /\ accepts(s, m)

-----------------------------------------------------------------------------
(* Property *)

\* Where something else is to be shown the screen hears of it, if it is not left out.
tells(sent, leftOut) ==
  \A u \in Users, s \in Screen :
    isOpenable(s) /\ <<u, s>> \notin leftOut /\ shownOn(s, u)' # shownOn(s, u)
      => hears(s, u, sent)

mine(u, screens) == {u} \X screens
bystanders == {c \in Companies : ~isActiveOffer(offerStatus[c])}

transitionTold(command, c, offerMessages, leftOut) ==
  tells(transitionBroadcast(outcome(command, c), offerMessages), leftOut)

rowStepTold ==
  \/ Create /\ tells(IF creating' THEN nothing ELSE orderCreatedBroadcast,
                     mine(Client, {"orders"}))
  \/ \E F \in SUBSET Files :
       AttachTaskFiles(F) /\ tells(orderCreatedBroadcast, Users \X {"documents", "order"})
  \/ RollbackCreate
  \/ Remove /\ tells(orderDeletedBroadcast,
                     mine(Client, {"orders", "documents", "order", "notifications"})
                       \union (bystanders \X {"offers", "order", "notifications"}))

workStepTold ==
  \E c \in executors :
    \/ \E u \in uploads : AttachWork(u) /\ tells(filesBroadcast(u), mine(c, {"documents"}))
    \/ \E F \in (SUBSET Files) \ {{}}, text \in Texts :
         OpenSubmission(F, text) /\ tells(nothing, {Client, c} \X {"order"})
    \/ \E area \in Areas : VerifyArea(area) /\ tells(areaBroadcast, {})
    \/ SubmitWorkByMachine /\ transitionTold([type |-> "WORK_SUBMITTED"], c, {}, {})
    \/ \E command \in UNION {CompletionDecision(t) : t \in {"WORK_CONFIRMED", "WORK_DISPUTED"}} :
         JudgeByMachine(command) /\ transitionTold(command, c, {}, {})

offerStepTold ==
  \/ \E d \in drafts :
       /\ SubmitByMachine(d)
       /\ transitionTold(submitRequest(d.company), d.company, offerEventOf(d.company),
                         mine(d.company, {"available"}))
  \/ \E c \in Companies :
       /\ LeaveByMachine(c, "OFFER_WITHDRAWN")
       /\ transitionTold([type |-> "OFFER_WITHDRAWN", company |-> c], c, {},
                         mine(c, {"available"}))
  \/ \E c \in Companies :
       /\ LeaveByMachine(c, "OFFER_REJECTED")
       /\ transitionTold([type |-> "OFFER_REJECTED", company |-> c], c, {}, {})
  \/ /\ AcceptByMachine
     /\ transitionTold(acceptRequest(seen), seen.company, {}, bystanders \X {"order"})

\* An open screen does not freeze: every step of the deal that changes what
\* some screen of some user shows sends an event that is on the list of this
\* screen, to a room its tab is in.  Left out are, in so many words: a user's
\* own screens in another tab after creating or deleting an order, after an
\* offer (the feed) and after loading files (the documents); the page of a
\* company that has no offer in play, when the order leaves the search or goes;
\* its list of offers, and the links of its notices, when the order goes; a
\* submission opened by an upload that has yet to bring its files; and a creation
\* that is under way or taken back.  Nothing is sent when a notice is read.
ScreensAreTold ==
  [][\/ UNCHANGED <<orderVars, offerVars, roundVars, notices>>
     \/ UNCHANGED <<orderVars, offerVars, roundVars>>
        /\ \E u \in Users : MarkAllRead(u) \/ \E n \in notices : MarkRead(n)
     \/ rowStepTold
     \/ workStepTold
     \/ offerStepTold]_vars

=============================================================================
