------------------------------ MODULE OrderRoom ------------------------------
(***************************************************************************)
(* The room of one order at the gateway, and the pages that show it.       *)
(*                                                                         *)
(* A commit changes who takes part (OrderParticipants) and leaves a        *)
(* broadcast that is dispatched after it; a subscription reads the         *)
(* participants before it joins the room and again afterwards; a page      *)
(* renders a version of the order, listens from its mount on, keeps its    *)
(* subscription over reconnections and failures, and reads the order again *)
(* when it is told of a change.                                            *)
(*                                                                         *)
(* A socket delivers in order and loses what is under way when it breaks.  *)
(* Reads of the order over HTTP are independent of it and of one another.  *)
(***************************************************************************)
EXTENDS OrderParticipants, Integers, Sequences, FiniteSets, SequencesExt

CONSTANTS
  Tabs,        \* browser tabs, one socket each
  Owner,       \* the user of each tab
  Nobody,      \* no tab
  Retries,     \* Len(ROOM_RETRY_DELAYS_MS)
  MaxVersion,  \* bound: versions of the order
  MaxBinds,    \* bound: bindings of the room by each tab
  MaxVisits,   \* bound: visits of each tab to the page
  MaxReads,    \* bound: reads of the order that a tab waits for
  MaxDrops,    \* bound: broken connections of each tab
  MaxFaults    \* bound: refused messages and failed queries

Users == Companies \union {Client}
Binding == 1..MaxBinds

ASSUME RoomAssumption ==
  /\ Client \notin Companies
  /\ Owner \in [Tabs -> Users] /\ Nobody \notin Tabs
  /\ Retries \in Nat /\ MaxVersion \in Nat \ {0} /\ MaxBinds \in Nat /\ MaxVisits \in Nat
  /\ MaxReads \in Nat /\ MaxDrops \in Nat /\ MaxFaults \in Nat

VARIABLES
  \* the database and the dispatch
  views,       \* the participants at each version of the order
  pending,     \* broadcasts of committed changes, in the order of the commits
  \* the gateway
  room,        \* sockets in the room of the order
  inbox,       \* messages from each tab that the server has yet to read
  handlers,    \* subscriptions of each socket being handled
  abandoned,   \* sockets whose second check failed
  \* the socket of a tab
  connected,
  replies,     \* acknowledgements on their way to the tab
  news,        \* kinds of events on their way: "own" or "order"
  \* bindRoom: one closure for each binding
  bound,       \* the binding of the open page, or 0
  binds,       \* bindings so far
  attempt,     \* retries made by each binding
  timer,       \* bindings whose retry is scheduled
  \* the page: OrderLive and bindRefresh
  page,        \* "away", "loading" (rendered by the server) or "open"
  visits,
  card,        \* the version shown
  missed,      \* the socket broke since the page opened
  burst,       \* a reading is scheduled
  asked,       \* readings that the server has yet to make
  answers,     \* versions read for the tab, on their way to it
  \* what the properties remember
  newest,      \* the newest version this visit has shown
  owed,        \* the newest version of which the open page was to be told
  online,      \* the page opened while the socket was connected
  drops,       \* broken connections of each tab
  faults

dbVars     == <<stage, active, views>>
serverVars == <<room, inbox, handlers, abandoned>>
wireVars   == <<connected, replies, news>>
bindVars   == <<bound, binds, attempt, timer>>
pageVars   == <<page, visits, card, missed, burst, asked, answers, newest, owed, online>>
vars == <<dbVars, pending, serverVars, wireVars, bindVars, pageVars, drops, faults>>

Version == Len(views)
tabsOf(U) == {t \in Tabs : Owner[t] \in U}

-----------------------------------------------------------------------------
(* Broadcasts *)

\* The tab that acts is told by the answer to its request, not by an event.
Broadcast == [version : 1..MaxVersion, evict : SUBSET Users, own : SUBSET Users,
              inRoom : BOOLEAN, actor : Tabs \union {Nobody}, visit : 0..MaxVisits,
              except : Tabs \union {Nobody}]

Init ==
  /\ ParticipantsInit
  /\ views = <<[stage |-> stage, active |-> active, silent |-> FALSE]>>
  /\ pending = <<>>
  /\ room = {} /\ abandoned = {}
  /\ inbox = [t \in Tabs |-> <<>>]
  /\ handlers = [t \in Tabs |-> <<>>]
  /\ connected = [t \in Tabs |-> FALSE]
  /\ replies = [t \in Tabs |-> <<>>]
  /\ news = [t \in Tabs |-> {}]
  /\ bound = [t \in Tabs |-> 0] /\ binds = [t \in Tabs |-> 0]
  /\ attempt = [t \in Tabs |-> [b \in Binding |-> 0]]
  /\ timer = [t \in Tabs |-> {}]
  /\ page = [t \in Tabs |-> "away"] /\ visits = [t \in Tabs |-> 0]
  /\ card = [t \in Tabs |-> 0] /\ newest = [t \in Tabs |-> 0] /\ owed = [t \in Tabs |-> 0]
  /\ missed = [t \in Tabs |-> FALSE] /\ burst = [t \in Tabs |-> FALSE]
  /\ asked = [t \in Tabs |-> 0] /\ answers = [t \in Tabs |-> {}]
  /\ online = [t \in Tabs |-> FALSE]
  /\ drops = [t \in Tabs |-> 0] /\ faults = 0

\* Readings under way, the answer to the page's own action included.
mayRead(t) ==
  asked[t] + Cardinality({i \in DOMAIN pending : pending[i].actor = t}) < MaxReads

\* A page acts for its user while it has room for one more reading.
MayAct(t) ==
  /\ page[t] = "open"
  /\ mayRead(t)

Actors(U) == {t \in tabsOf(U) : MayAct(t)} \union {Nobody}

\* A transaction commits; what it broadcasts is dispatched later.
Commit(evict, own, inRoom, actor) ==
  /\ Version < MaxVersion
  /\ views' = Append(views, [stage |-> stage', active |-> active', silent |-> FALSE])
  /\ pending' = Append(pending,
       [version |-> Version + 1, evict |-> evict, own |-> own, inRoom |-> inRoom,
        actor |-> actor, visit |-> IF actor = Nobody THEN 0 ELSE visits[actor],
        except |-> IF actor # Nobody /\ connected[actor] THEN actor ELSE Nobody])
  /\ UNCHANGED <<serverVars, wireVars, bindVars, pageVars, drops, faults>>

\* transitionBroadcast: the client and the company hear about the offer; the
\* room hears only when the status of the order changes.
CommitOfferSent(c) ==
  /\ OfferSent(c)
  /\ \E actor \in Actors({c}) : Commit({}, {Client, c}, active = {}, actor)

CommitOfferLeft(c) ==
  /\ OfferLeft(c)
  /\ \E actor \in Actors({c, Client}) : Commit({c}, {Client, c}, active' = {}, actor)

CommitOfferTaken(c) ==
  /\ OfferTaken(c)
  /\ \E actor \in Actors({Client}) :
       Commit(active \ {c}, active \union {Client}, TRUE, actor)

\* A step of the work moves the executor's offer as well; files and the area
\* are news for the room and the client.
CommitWork ==
  /\ WorkMoves
  /\ \E own \in {{Client}, active \union {Client}}, actor \in Actors(active \union {Client}) :
       Commit({}, own, TRUE, actor)

\* orderDeletedBroadcast: the whole room goes, the companies get a notice.
CommitRemoval ==
  /\ OrderRemoved
  /\ \E actor \in Actors({Client}) : Commit(Users, active, FALSE, actor)

\* The rollback of a creation and the reset of the demo send nothing.
CommitVanishing ==
  /\ OrderVanishes
  /\ Version < MaxVersion
  /\ views' = Append(views, [stage |-> stage', active |-> active', silent |-> TRUE])
  /\ UNCHANGED <<pending, serverVars, wireVars, bindVars, pageVars, drops, faults>>

\* Sockets leave the room, evicted, put out or of their own accord.
leaveRoom(T) == room' = room \ T /\ abandoned' = abandoned \ T

\* Sockets that an event reaches: the personal rooms, and the order's room.
hearsOwn(b) == {t \in tabsOf(b.own) : connected[t]} \ {b.except}
hearsInRoom(b) == IF b.inRoom THEN (room \ tabsOf(b.evict)) \ {b.except} ELSE {}

\* Whom a broadcast concerns, reached or not: users by name, and participants'
\* pages through the room, which they are to be in.
addressed(b) ==
  {t \in Tabs : /\ page[t] = "open"
                /\ Owner[t] \in b.own \/ t \in hearsInRoom(b)
                   \/ (~connected[t] /\ b.inRoom /\ bound[t] # 0)}

\* dispatch: evict, then emit; the acting tab's request goes on to read the order.
Dispatch ==
  /\ pending # <<>>
  /\ LET b == Head(pending)
         answered == IF b.actor # Nobody /\ page[b.actor] = "open" /\ visits[b.actor] = b.visit
                     THEN {b.actor} ELSE {}
     IN /\ leaveRoom(tabsOf(b.evict))
        /\ news' = [t \in Tabs |-> news[t] \union (IF t \in hearsOwn(b) THEN {"own"} ELSE {})
                                          \union (IF t \in hearsInRoom(b) THEN {"order"} ELSE {})]
        /\ asked' = [t \in Tabs |-> asked[t] + IF t \in answered THEN 1 ELSE 0]
        /\ owed' = [t \in Tabs |-> IF t \in addressed(b) THEN b.version ELSE owed[t]]
  /\ pending' = Tail(pending)
  /\ UNCHANGED <<dbVars, inbox, handlers, connected, replies, bindVars, page, visits,
                 card, missed, burst, answers, newest, online, drops, faults>>

-----------------------------------------------------------------------------
(* The gateway *)

\* handle: a message over the limit, or a query that fails, is answered with
\* retryable.
Fault == faults < MaxFaults /\ faults' = faults + 1

reply(t, b, answer) == replies' = [replies EXCEPT ![t] = Append(@, [binding |-> b, answer |-> answer])]

\* subscribeOrder begins: the first check is a query under way.
ReceiveSubscribe(t) ==
  /\ connected[t] /\ inbox[t] # <<>> /\ Head(inbox[t]).kind = "subscribe"
  /\ inbox' = [inbox EXCEPT ![t] = Tail(@)]
  /\ LET b == Head(inbox[t]).binding IN
     \/ /\ handlers' = [handlers EXCEPT ![t] = Append(@, [binding |-> b, phase |-> "asking"])]
        /\ UNCHANGED <<replies, faults>>
     \/ /\ Fault
        /\ reply(t, b, "retry")
        /\ UNCHANGED handlers
  /\ UNCHANGED <<dbVars, pending, room, abandoned, connected, news, bindVars, pageVars, drops>>

\* unsubscribeOrder leaves at once, unless it is over the limit.
ReceiveUnsubscribe(t) ==
  /\ connected[t] /\ inbox[t] # <<>> /\ Head(inbox[t]).kind = "unsubscribe"
  /\ inbox' = [inbox EXCEPT ![t] = Tail(@)]
  /\ \/ leaveRoom({t}) /\ UNCHANGED faults
     \/ Fault /\ UNCHANGED <<room, abandoned>>
  /\ UNCHANGED <<dbVars, pending, handlers, wireVars, bindVars, pageVars, drops>>

nextPhase(t, i, phase) ==
  /\ handlers' = [handlers EXCEPT ![t][i].phase = phase]
  /\ UNCHANGED replies

finish(t, i, answer) ==
  /\ handlers' = [handlers EXCEPT ![t] = RemoveAt(@, i)]
  /\ reply(t, handlers[t][i].binding, answer)

\* The query of the first check reads the participants; the answer is used later.
CheckBefore(t, i) ==
  /\ handlers[t][i].phase = "asking"
  /\ \/ /\ IF isOrderParticipant(Owner[t]) THEN nextPhase(t, i, "admitted")
                                           ELSE finish(t, i, "forbidden")
        /\ UNCHANGED faults
     \/ Fault /\ finish(t, i, "retry")
  /\ UNCHANGED <<dbVars, pending, room, inbox, abandoned, connected, news, bindVars, pageVars, drops>>

Join(t, i) ==
  /\ handlers[t][i].phase = "admitted"
  /\ room' = room \union {t}
  /\ nextPhase(t, i, "joined")
  /\ UNCHANGED <<dbVars, pending, inbox, abandoned, connected, news, bindVars, pageVars, drops, faults>>

\* The query of the second check.  A failure leaves the socket in the room.
SlipCheckAfterSkipped(t, i) ==
  /\ handlers[t][i].phase = "joined"
  /\ finish(t, i, "ok")
  /\ UNCHANGED <<dbVars, pending, room, inbox, abandoned, connected, news, bindVars, pageVars, drops,
                 faults>>
CheckAfter(t, i) ==
  /\ handlers[t][i].phase = "joined"
  /\ \/ /\ IF isOrderParticipant(Owner[t]) THEN finish(t, i, "ok") ELSE nextPhase(t, i, "leaving")
        /\ abandoned' = abandoned \ {t}
        /\ UNCHANGED faults
     \/ /\ Fault
        /\ finish(t, i, "retry")
        /\ abandoned' = abandoned \union ({t} \intersect room)
  /\ UNCHANGED <<dbVars, pending, room, inbox, connected, news, bindVars, pageVars, drops>>

LeaveAfterCheck(t, i) ==
  /\ handlers[t][i].phase = "leaving"
  /\ leaveRoom({t})
  /\ finish(t, i, "forbidden")
  /\ UNCHANGED <<dbVars, pending, inbox, connected, news, bindVars, pageVars, drops, faults>>

-----------------------------------------------------------------------------
(* bindRoom *)

\* emit: a message of a broken socket waits for the next connection.
send(t, message) == inbox' = [inbox EXCEPT ![t] = Append(@, message)]
subscribe(b) == [kind |-> "subscribe", binding |-> b]
unsubscribe == [kind |-> "unsubscribe", binding |-> 0]

\* The binding begins: join now, if there is a connection.
Bind(t) ==
  /\ binds[t] < MaxBinds
  /\ binds' = [binds EXCEPT ![t] = @ + 1]
  /\ bound' = [bound EXCEPT ![t] = binds[t] + 1]
  /\ IF connected[t] THEN send(t, subscribe(binds[t] + 1)) ELSE UNCHANGED inbox
  /\ UNCHANGED <<attempt, timer>>

\* The binding ends: the retry is cancelled, and a living socket unsubscribes.
Unbind(t) ==
  /\ bound' = [bound EXCEPT ![t] = 0]
  /\ timer' = [timer EXCEPT ![t] = @ \ {bound[t]}]
  /\ IF connected[t] THEN send(t, unsubscribe) ELSE UNCHANGED inbox
  /\ UNCHANGED <<binds, attempt>>

\* The effect of useRoom runs when enabled has changed.
FollowRoom(t, enabled) ==
  \/ enabled /\ bound[t] = 0 /\ Bind(t)
  \/ ~enabled /\ bound[t] # 0 /\ Unbind(t)
  \/ (enabled <=> bound[t] # 0) /\ UNCHANGED <<bindVars, inbox>>

\* The acknowledgement of join.  Its closure lives on after the binding ended.
ReceiveReply(t) ==
  /\ connected[t] /\ replies[t] # <<>>
  /\ replies' = [replies EXCEPT ![t] = Tail(@)]
  /\ LET b == Head(replies[t]).binding
         answer == Head(replies[t]).answer
     IN \/ /\ answer = "ok"
           /\ attempt' = [attempt EXCEPT ![t][b] = 0]
           /\ UNCHANGED timer
        \/ /\ answer = "retry" /\ attempt[t][b] < Retries
           /\ attempt' = [attempt EXCEPT ![t][b] = @ + 1]
           /\ timer' = [timer EXCEPT ![t] = @ \union {b}]
        \/ /\ answer = "forbidden" \/ (answer = "retry" /\ attempt[t][b] >= Retries)
           /\ UNCHANGED <<attempt, timer>>
  /\ UNCHANGED <<dbVars, pending, serverVars, connected, news, bound, binds, pageVars, drops, faults>>

RetryJoin(t, b) ==
  /\ b \in timer[t]
  /\ timer' = [timer EXCEPT ![t] = @ \ {b}]
  /\ send(t, subscribe(b))
  /\ UNCHANGED <<dbVars, pending, room, handlers, abandoned, wireVars, bound, binds, attempt,
                 pageVars, drops, faults>>

-----------------------------------------------------------------------------
(* The connection *)

\* The messages that waited for the connection go first, then "connect" is
\* handled: bindRoom joins afresh, bindRefresh reads what was missed.
SlipRefreshNothingMissed(t) == burst' = burst /\ missed' = [missed EXCEPT ![t] = FALSE]
RefreshMissed(t) ==
  /\ burst' = [burst EXCEPT ![t] = @ \/ missed[t]]
  /\ missed' = [missed EXCEPT ![t] = FALSE]

Rejoin(t) ==
  IF bound[t] = 0 THEN UNCHANGED <<inbox, attempt, timer>>
  ELSE /\ send(t, subscribe(bound[t]))
       /\ attempt' = [attempt EXCEPT ![t][bound[t]] = 0]
       /\ timer' = [timer EXCEPT ![t] = @ \ {bound[t]}]

Connect(t) ==
  /\ ~connected[t]
  /\ connected' = [connected EXCEPT ![t] = TRUE]
  /\ Rejoin(t)
  /\ RefreshMissed(t)
  /\ UNCHANGED <<dbVars, pending, room, handlers, abandoned, replies, news, bound, binds, page, visits,
                 card, asked, answers, newest, owed, online, drops, faults>>

\* The network breaks, or the server closes a socket whose token has expired.
\* The next connection has another identifier.
Disconnect(t) ==
  /\ connected[t] /\ drops[t] < MaxDrops
  /\ drops' = [drops EXCEPT ![t] = @ + 1]
  /\ connected' = [connected EXCEPT ![t] = FALSE]
  /\ leaveRoom({t})
  /\ inbox' = [inbox EXCEPT ![t] = <<>>] /\ handlers' = [handlers EXCEPT ![t] = <<>>]
  /\ replies' = [replies EXCEPT ![t] = <<>>] /\ news' = [news EXCEPT ![t] = {}]
  /\ pending' = [i \in DOMAIN pending |->
                   IF pending[i].except = t THEN [pending[i] EXCEPT !.except = Nobody] ELSE pending[i]]
  /\ missed' = [missed EXCEPT ![t] = page[t] = "open"]
  /\ UNCHANGED <<dbVars, bindVars, page, visits, card, burst, asked, answers, newest, owed, online, faults>>

-----------------------------------------------------------------------------
(* The page *)

seesRealStatus(t, v) == Owner[t] \in views[v].active \union {Client}

\* The server renders the order as it is.
Render(t) ==
  /\ page[t] = "away" /\ visits[t] < MaxVisits /\ stage # "gone"
  /\ page' = [page EXCEPT ![t] = "loading"]
  /\ visits' = [visits EXCEPT ![t] = @ + 1]
  /\ card' = [card EXCEPT ![t] = Version]
  /\ newest' = [newest EXCEPT ![t] = Version]
  /\ UNCHANGED <<dbVars, pending, serverVars, wireVars, bindVars, missed, burst, asked, answers, owed,
                 online, drops, faults>>

Mount(t) ==
  /\ page[t] = "loading"
  /\ page' = [page EXCEPT ![t] = "open"]
  /\ online' = [online EXCEPT ![t] = connected[t]]
  /\ FollowRoom(t, seesRealStatus(t, card[t]))
  /\ UNCHANGED <<dbVars, pending, room, handlers, abandoned, wireVars, visits, card, missed, burst,
                 asked, answers, newest, owed, drops, faults>>

\* The listeners go, the burst is cancelled, answers under way find no page.
close(t) ==
  /\ page' = [page EXCEPT ![t] = "away"]
  /\ card' = [card EXCEPT ![t] = 0]
  /\ newest' = [newest EXCEPT ![t] = 0] /\ owed' = [owed EXCEPT ![t] = 0]
  /\ missed' = [missed EXCEPT ![t] = FALSE] /\ burst' = [burst EXCEPT ![t] = FALSE]
  /\ asked' = [asked EXCEPT ![t] = 0] /\ answers' = [answers EXCEPT ![t] = {}]
  /\ online' = [online EXCEPT ![t] = FALSE]
  /\ FollowRoom(t, FALSE)
  /\ UNCHANGED visits

Leave(t) ==
  /\ page[t] # "away"
  /\ close(t)
  /\ UNCHANGED <<dbVars, pending, room, handlers, abandoned, wireVars, drops, faults>>

\* Events tell no content: they schedule a reading, unless one is scheduled.
ReceiveNews(t) ==
  /\ connected[t] /\ news[t] # {}
  /\ news' = [news EXCEPT ![t] = {}]
  /\ burst' = [burst EXCEPT ![t] = @ \/ page[t] = "open"]
  /\ UNCHANGED <<dbVars, pending, serverVars, connected, replies, bindVars, page, visits, card, missed,
                 asked, answers, newest, owed, online, drops, faults>>

Reload(t) ==
  /\ burst[t] /\ mayRead(t)
  /\ burst' = [burst EXCEPT ![t] = FALSE]
  /\ asked' = [asked EXCEPT ![t] = @ + 1]
  /\ UNCHANGED <<dbVars, pending, serverVars, wireVars, bindVars, page, visits, card, missed, answers,
                 newest, owed, online, drops, faults>>

ReadOrder(t) ==
  /\ asked[t] > 0
  /\ asked' = [asked EXCEPT ![t] = @ - 1]
  /\ answers' = [answers EXCEPT ![t] = @ \union {Version}]
  /\ UNCHANGED <<dbVars, pending, serverVars, wireVars, bindVars, page, visits, card, missed, burst,
                 newest, owed, online, drops, faults>>

larger(v, w) == IF v > w THEN v ELSE w

\* apply replaces the order whatever it shows now; an order that is gone has
\* no page.  Answers may arrive in any order.
Apply(t, v) ==
  /\ v \in answers[t]
  /\ \/ /\ views[v].stage = "gone"
        /\ close(t)
     \/ /\ views[v].stage # "gone"
        /\ card' = [card EXCEPT ![t] = v]
        /\ newest' = [newest EXCEPT ![t] = larger(@, v)]
        /\ answers' = [answers EXCEPT ![t] = @ \ {v}]
        /\ FollowRoom(t, seesRealStatus(t, v))
        /\ UNCHANGED <<page, visits, missed, burst, asked, owed, online>>
  /\ UNCHANGED <<dbVars, pending, room, handlers, abandoned, wireVars, drops, faults>>

-----------------------------------------------------------------------------
Next ==
  \/ \E c \in Companies : CommitOfferSent(c) \/ CommitOfferLeft(c) \/ CommitOfferTaken(c)
  \/ CommitWork
  \/ CommitRemoval
  \/ CommitVanishing
  \/ Dispatch
  \/ \E t \in Tabs :
       \/ ReceiveSubscribe(t) \/ ReceiveUnsubscribe(t)
       \/ \E i \in DOMAIN handlers[t] :
            CheckBefore(t, i) \/ Join(t, i) \/ CheckAfter(t, i) \/ LeaveAfterCheck(t, i)
       \/ ReceiveReply(t)
       \/ \E b \in timer[t] : RetryJoin(t, b)
       \/ Connect(t) \/ Disconnect(t)
       \/ Render(t) \/ Mount(t) \/ Leave(t)
       \/ ReceiveNews(t) \/ Reload(t) \/ ReadOrder(t)
       \/ \E v \in answers[t] : Apply(t, v)

Spec == Init /\ [][Next]_vars

-----------------------------------------------------------------------------
(* Invariants *)

TypeOK ==
  /\ stage \in {"open", "work", "gone"} /\ active \subseteq Companies
  /\ views \in Seq([stage : {"open", "work", "gone"}, active : SUBSET Companies, silent : BOOLEAN])
  /\ pending \in Seq(Broadcast)
  /\ room \subseteq Tabs /\ abandoned \subseteq room
  /\ inbox \in [Tabs -> Seq({subscribe(b) : b \in Binding} \union {unsubscribe})]
  /\ handlers \in [Tabs -> Seq([binding : Binding, phase : {"asking", "admitted", "joined", "leaving"}])]
  /\ connected \in [Tabs -> BOOLEAN]
  /\ replies \in [Tabs -> Seq([binding : Binding, answer : {"ok", "retry", "forbidden"}])]
  /\ news \in [Tabs -> SUBSET {"own", "order"}]
  /\ bound \in [Tabs -> 0..MaxBinds] /\ binds \in [Tabs -> 0..MaxBinds]
  /\ attempt \in [Tabs -> [Binding -> 0..Retries]] /\ timer \in [Tabs -> SUBSET Binding]
  /\ page \in [Tabs -> {"away", "loading", "open"}] /\ visits \in [Tabs -> 0..MaxVisits]
  /\ missed \in [Tabs -> BOOLEAN] /\ burst \in [Tabs -> BOOLEAN] /\ online \in [Tabs -> BOOLEAN]
  /\ asked \in [Tabs -> Nat] /\ answers \in [Tabs -> SUBSET (1..MaxVersion)]
  /\ drops \in [Tabs -> 0..MaxDrops] /\ faults \in 0..MaxFaults
  /\ card \in [Tabs -> 0..MaxVersion] /\ newest \in [Tabs -> 0..MaxVersion]
  /\ owed \in [Tabs -> 0..MaxVersion]

handling(t, phases) == \E i \in DOMAIN handlers[t] : handlers[t][i].phase \in phases

\* Only participants are let in: whoever else is in the room is about to be
\* evicted, or is the handler's to put out, or slipped through a second check
\* that failed; whichever way checks, joins, commits and evictions interleave.
StrangersAreOnTheirWayOut ==
  \A t \in room :
    \/ isOrderParticipant(Owner[t])
    \/ \E i \in DOMAIN pending : Owner[t] \in pending[i].evict
    \/ handling(t, {"joined", "leaving"})
    \/ t \in abandoned
    \/ views[Version].silent

\* What an open page was told of, or missed while its socket was away, it
\* shows, or a reading is under way that will: neither a collapsed burst, nor
\* a broken connection, nor an answer that overtakes another keeps it from the
\* page for ever.  The page must have opened while the socket was connected:
\* bindRefresh counts as missed only what breaks after the mount.
tellsSoon(t) ==
  news[t] # {} \/ burst[t] \/ asked[t] > 0 \/ missed[t] \/ \E v \in answers[t] : v >= owed[t]
NewsReachOpenPages ==
  \A t \in Tabs : page[t] = "open" /\ online[t] /\ owed[t] > newest[t] => tellsSoon(t)

\* A page that is bound to the room is in it, or on its way in, or has used up
\* its retries: no failure, reconnection or late message of an earlier binding
\* leaves it outside in silence.  (A company that has lost its place and won
\* it again may be outside until its page has seen both.)
hasLostPlace(u) ==
  \E v, w \in 1..Version : v < w /\ u \in views[v].active \ views[w].active
joinsSoon(t) ==
  \/ \E i \in DOMAIN inbox[t] : inbox[t][i] = subscribe(bound[t])
  \/ \E i \in DOMAIN handlers[t] :
       handlers[t][i].binding = bound[t] /\ handlers[t][i].phase \in {"asking", "admitted"}
  \/ \E i \in DOMAIN replies[t] : replies[t][i] = [binding |-> bound[t], answer |-> "retry"]
  \/ bound[t] \in timer[t]
BoundPageIsInRoom ==
  \A t \in Tabs :
    /\ bound[t] # 0 /\ connected[t]
    /\ isOrderParticipant(Owner[t]) /\ ~hasLostPlace(Owner[t])
    => t \in room \/ joinsSoon(t) \/ attempt[t][bound[t]] = Retries

\* The room of an order holds whom it should: nobody else for longer than it
\* takes to put them out, and every participant whose page has asked for it.
RoomHoldsParticipants == StrangersAreOnTheirWayOut /\ BoundPageIsInRoom

=============================================================================
