---------------------------- MODULE OrderRoomProofs ----------------------------
(***************************************************************************)
(* Proofs about OrderRoom, for any companies, tabs and owners, any number  *)
(* of retries, and any bounds: its types; who is in the room; that a page  *)
(* which is bound to the room is not left outside; and that no page loses  *)
(* the news it was told of.                                                *)
(***************************************************************************)
EXTENDS OrderRoom, SequenceTheorems, TLAPS

-----------------------------------------------------------------------------
(* The inductive invariant: versions, broadcasts and pages *)

\* The last version is the order as it is; only the last may have come in silence.
LastVersion ==
  /\ Version \in 1..MaxVersion
  /\ views[Version].stage = stage /\ views[Version].active = active
  /\ views[Version].silent => stage = "gone"

\* Broadcasts are of versions there are; the tab that a broadcast spares is the one that
\* acted, over a connection that holds; and the answer to its action still finds the page, or
\* a page that was rendered later.
BroadcastsFollow ==
  \A i \in DOMAIN pending :
    /\ pending[i].version <= Version
    /\ pending[i].except # Nobody =>
         pending[i].except = pending[i].actor /\ connected[pending[i].except]
    /\ \A t \in Tabs :
         pending[i].actor = t /\ page[t] # "away" /\ visits[t] # pending[i].visit =>
           newest[t] >= pending[i].version

\* A page shows a version there is and awaits such; nothing is owed to one that is not open;
\* one that opened connected and is not connected has missed something.
PageFollows(t) ==
  /\ page[t] # "away" => card[t] \in 1..Version
  /\ answers[t] \subseteq 1..Version
  /\ owed[t] <= Version
  /\ page[t] # "open" => owed[t] = 0
  /\ page[t] = "open" /\ online[t] /\ ~connected[t] => missed[t]
PagesFollow == \A t \in Tabs : PageFollows(t)

-----------------------------------------------------------------------------
(* Who takes part *)

\* Who takes no part for good: the order is gone, or the place was lost once.
isOut(u) == stage = "gone" \/ hasLostPlace(u)
hasHadPlace(u) == u = Client \/ \E v \in 1..Version : u \in views[v].active

\* Whom an eviction names is out.
EvictedAreOut == \A i \in DOMAIN pending : \A u \in pending[i].evict : isOut(u)

-----------------------------------------------------------------------------
(* What is under way between a tab and the gateway *)

\* A handler of binding b is in a phase; b has an answer on its way; the tab has asked
\* for b; it has asked to leave; all that it asks of b comes after that.
handles(t, b, phase) ==
  \E i \in DOMAIN handlers[t] : handlers[t][i].binding = b /\ handlers[t][i].phase = phase
answered(t, b, answer) ==
  \E i \in DOMAIN replies[t] : replies[t][i].binding = b /\ replies[t][i].answer = answer
awaits(t, b) == \E i \in DOMAIN inbox[t] : inbox[t][i] = subscribe(b)
toLeave(t) == \E i \in DOMAIN inbox[t] : inbox[t][i] = unsubscribe
inOrder(t, b) ==
  \A i, j \in DOMAIN inbox[t] : inbox[t][i] = unsubscribe /\ inbox[t][j] = subscribe(b) => i < j

Phases == {"asking", "admitted", "joined", "leaving"}
Answers == {"ok", "retry", "forbidden"}
inProgress(t, b) ==
  \/ \E p \in Phases : handles(t, b, p)
  \/ \E a \in Answers : answered(t, b, a)
  \/ b \in timer[t]

\* Only a socket that is connected is in the room, is being handled or answered, or leaves.
OnlyConnected(t) ==
  ~connected[t] =>
    /\ t \notin room /\ ~toLeave(t)
    /\ \A b \in Binding : \A p \in Phases, a \in Answers : ~handles(t, b, p) /\ ~answered(t, b, a)

\* Bindings are numbered as they are made, and only who has had a place makes one.
BindingsFollow(t) ==
  /\ bound[t] <= binds[t]
  /\ binds[t] > 0 => hasHadPlace(Owner[t])
  /\ \A b \in Binding : inProgress(t, b) \/ awaits(t, b) => b <= binds[t]

\* Whom a handler is about to put out is out.
LeaversAreOut(t) == \A b \in Binding : handles(t, b, "leaving") => isOut(Owner[t])

\* Of the binding b of the open page: a message that leaves the room is of an earlier
\* binding, and all that b asks for comes after it.
LeavingComesFirst(t, b) ==
  toLeave(t) => awaits(t, b) /\ inOrder(t, b) /\ ~inProgress(t, b)

\* Whom b has let in is in the room, while its user takes part.
staysIn(t) == connected[t] /\ ~isOut(Owner[t])
AdmittedIsIn(t, b) ==
  staysIn(t) /\ (handles(t, b, "joined") \/ answered(t, b, "ok")) => t \in room

\* Whoever is bound is in the room or on its way, or has used up the retries.
BoundIsIn(t, b) ==
  staysIn(t) =>
    \/ t \in room
    \/ awaits(t, b) \/ handles(t, b, "asking") \/ handles(t, b, "admitted")
    \/ answered(t, b, "retry") \/ b \in timer[t]
    \/ attempt[t][b] = Retries

BindingHolds(t, b) == LeavingComesFirst(t, b) /\ AdmittedIsIn(t, b) /\ BoundIsIn(t, b)

TabInv(t) ==
  /\ OnlyConnected(t) /\ BindingsFollow(t) /\ LeaversAreOut(t)
  /\ \A b \in Binding : bound[t] = b => BindingHolds(t, b)
TabsInv == \A t \in Tabs : TabInv(t)

IInv ==
  /\ TypeOK /\ LastVersion /\ BroadcastsFollow /\ PagesFollow /\ EvictedAreOut /\ TabsInv
  /\ StrangersAreOnTheirWayOut /\ NewsReachOpenPages

-----------------------------------------------------------------------------
(* Sequences, by their members *)

LEMMA Appended ==
  ASSUME NEW S, NEW s \in Seq(S), NEW e \in S
  PROVE  /\ Append(s, e) \in Seq(S)
         /\ DOMAIN s = 1..Len(s) /\ DOMAIN Append(s, e) = 1..(Len(s) + 1) /\ Len(s) \in Nat
         /\ \A i \in DOMAIN s : i \in DOMAIN Append(s, e) /\ Append(s, e)[i] = s[i]
         /\ Append(s, e)[Len(s) + 1] = e
  BY AppendProperties, LenProperties

LEMMA Shortened ==
  ASSUME NEW S, NEW s \in Seq(S), s # <<>>
  PROVE  /\ Tail(s) \in Seq(S) /\ Head(s) = s[1] /\ 1 \in DOMAIN s /\ DOMAIN s \subseteq Nat
         /\ \A i \in DOMAIN Tail(s) : i + 1 \in DOMAIN s /\ Tail(s)[i] = s[i + 1]
         /\ \A i \in DOMAIN s : i # 1 => i - 1 \in DOMAIN Tail(s) /\ Tail(s)[i - 1] = s[i]
  <1>1. Len(s) \in Nat /\ Len(s) # 0 /\ DOMAIN s = 1..Len(s) BY LenProperties, EmptySeq
  <1>2. /\ Tail(s) \in Seq(S) /\ Len(Tail(s)) = Len(s) - 1
        /\ \A i \in 1 .. Len(Tail(s)) : Tail(s)[i] = s[i+1]
    BY HeadTailProperties
  <1>3. DOMAIN Tail(s) = 1..(Len(s) - 1) BY <1>2, LenProperties
  <1>4. Head(s) = s[1] BY <1>1 
  <1>5. ASSUME NEW i \in DOMAIN s, i # 1
        PROVE  i - 1 \in DOMAIN Tail(s) /\ Tail(s)[i - 1] = s[i]
    <2>1. i - 1 \in 1..(Len(s) - 1) /\ (i - 1) + 1 = i BY <1>1, <1>5
    <2> QED BY <2>1, <1>2, <1>3
  <1> QED BY <1>1, <1>2, <1>3, <1>4, <1>5

LEMMA Removed ==
  ASSUME NEW S, NEW s \in Seq(S), NEW i \in DOMAIN s
  PROVE  /\ RemoveAt(s, i) \in Seq(S)
         /\ \A k \in DOMAIN RemoveAt(s, i) : \E j \in DOMAIN s \ {i} : RemoveAt(s, i)[k] = s[j]
         /\ \A j \in DOMAIN s \ {i} : \E k \in DOMAIN RemoveAt(s, i) : RemoveAt(s, i)[k] = s[j]
  <1> DEFINE l == SubSeq(s, 1, i - 1)
             r == SubSeq(s, i + 1, Len(s))
  <1>1. /\ Len(s) \in Nat /\ DOMAIN s = 1..Len(s) /\ i \in 1..Len(s)
        /\ \A j \in 1..Len(s) : s[j] \in S
    BY LenProperties, ElementOfSeq
  <1>2. /\ l \in Seq(S) /\ Len(l) = i - 1
        /\ \A j \in 1..(i - 1) : l[j] = s[j]
    <2>1. \A j \in 1..(i - 1) : s[j] \in S BY <1>1
    <2>2. /\ l \in Seq(S) /\ Len(l) = IF 1 <= i - 1 THEN i - 1 - 1 + 1 ELSE 0
          /\ \A j \in 1..(i - 1 - 1 + 1) : l[j] = s[1 + j - 1]
      BY <1>1, <2>1, SubSeqProperties
    <2> QED BY <1>1, <2>2
  <1>3. /\ r \in Seq(S) /\ Len(r) = Len(s) - i
        /\ \A j \in 1..(Len(s) - i) : r[j] = s[i + j]
    <2>1. \A j \in (i + 1)..Len(s) : s[j] \in S BY <1>1
    <2>2. /\ r \in Seq(S) /\ Len(r) = IF i + 1 <= Len(s) THEN Len(s) - (i + 1) + 1 ELSE 0
          /\ \A j \in 1..(Len(s) - (i + 1) + 1) : r[j] = s[(i + 1) + j - 1]
      BY <1>1, <2>1, SubSeqProperties
    <2>3. /\ Len(s) - (i + 1) + 1 = Len(s) - i
          /\ \A j \in 1..(Len(s) - i) : (i + 1) + j - 1 = i + j
      BY <1>1
    <2>4. \A j \in 1..(Len(s) - i) : r[j] = s[i + j] BY <2>2, <2>3
    <2>5. Len(r) = Len(s) - i BY <1>1, <2>2
    <2> QED BY <2>2, <2>4, <2>5
  <1>4. RemoveAt(s, i) = l \o r BY DEF RemoveAt
  <1> HIDE DEF l, r
  <1>5. /\ l \o r \in Seq(S) /\ Len(l \o r) = Len(s) - 1
        /\ \A k \in 1..(Len(s) - 1) : (l \o r)[k] = IF k <= i - 1 THEN l[k] ELSE r[k - (i - 1)]
    <2>1. /\ l \o r \in Seq(S) /\ Len(l \o r) = Len(l) + Len(r)
          /\ \A k \in 1..(Len(l) + Len(r)) : (l \o r)[k] = IF k <= Len(l) THEN l[k] ELSE r[k - Len(l)]
      BY <1>2, <1>3, ConcatProperties
    <2> QED BY <1>1, <1>2, <1>3, <2>1
  <1>6. DOMAIN (l \o r) = 1..(Len(s) - 1) BY <1>5, LenProperties
  <1>7. ASSUME NEW k \in 1..(Len(s) - 1)
        PROVE  (l \o r)[k] = IF k < i THEN s[k] ELSE s[k + 1]
    <2>1. CASE k < i BY <1>1, <1>2, <1>5, <2>1
    <2>2. CASE ~(k < i)
      <3>1. k - (i - 1) \in 1..(Len(s) - i) /\ i + (k - (i - 1)) = k + 1 BY <1>1, <2>2
      <3> QED BY <1>1, <1>3, <1>5, <2>2, <3>1
    <2> QED BY <2>1, <2>2
  <1>8. ASSUME NEW k \in DOMAIN (l \o r) PROVE \E j \in DOMAIN s \ {i} : (l \o r)[k] = s[j]
    <2>1. k \in 1..(Len(s) - 1) BY <1>6
    <2>2. CASE k < i
      <3>1. k \in DOMAIN s \ {i} BY <1>1, <2>1, <2>2
      <3> QED BY <1>7, <2>1, <2>2, <3>1
    <2>3. CASE ~(k < i)
      <3>1. k + 1 \in DOMAIN s \ {i} BY <1>1, <2>1, <2>3
      <3> QED BY <1>7, <2>1, <2>3, <3>1
    <2> QED BY <2>2, <2>3
  <1>9. ASSUME NEW j \in DOMAIN s \ {i} PROVE \E k \in DOMAIN (l \o r) : (l \o r)[k] = s[j]
    <2>1. CASE j < i
      <3>1. j \in 1..(Len(s) - 1) BY <1>1, <2>1
      <3> QED BY <1>6, <1>7, <2>1, <3>1
    <2>2. CASE ~(j < i)
      <3>1. j - 1 \in 1..(Len(s) - 1) /\ ~(j - 1 < i) /\ (j - 1) + 1 = j BY <1>1, <2>2
      <3> QED BY <1>6, <1>7, <3>1
    <2> QED BY <2>1, <2>2
  <1> QED BY <1>4, <1>5, <1>8, <1>9


-----------------------------------------------------------------------------
(* Types, by the part of the system *)

Stages == {"open", "work", "gone"}
View == [stage : Stages, active : SUBSET Companies, silent : BOOLEAN]
Message == {subscribe(b) : b \in Binding} \union {unsubscribe}
Handler == [binding : Binding, phase : Phases]
Reply == [binding : Binding, answer : Answers]

DbTypes ==
  /\ stage \in Stages /\ active \subseteq Companies
  /\ views \in Seq(View) /\ pending \in Seq(Broadcast)
RoomTypes == room \subseteq Tabs /\ abandoned \subseteq room
InboxTypes == inbox \in [Tabs -> Seq(Message)]
HandlerTypes == handlers \in [Tabs -> Seq(Handler)]
ReplyTypes == replies \in [Tabs -> Seq(Reply)]
WireTypes == connected \in [Tabs -> BOOLEAN] /\ news \in [Tabs -> SUBSET {"own", "order"}]
BindTypes ==
  /\ bound \in [Tabs -> 0..MaxBinds] /\ binds \in [Tabs -> 0..MaxBinds]
  /\ attempt \in [Tabs -> [Binding -> 0..Retries]] /\ timer \in [Tabs -> SUBSET Binding]
PageTypes ==
  /\ page \in [Tabs -> {"away", "loading", "open"}] /\ visits \in [Tabs -> 0..MaxVisits]
  /\ missed \in [Tabs -> BOOLEAN] /\ burst \in [Tabs -> BOOLEAN] /\ online \in [Tabs -> BOOLEAN]
  /\ asked \in [Tabs -> Nat] /\ answers \in [Tabs -> SUBSET (1..MaxVersion)]
  /\ card \in [Tabs -> 0..MaxVersion] /\ newest \in [Tabs -> 0..MaxVersion]
  /\ owed \in [Tabs -> 0..MaxVersion]
BoundTypes == drops \in [Tabs -> 0..MaxDrops] /\ faults \in 0..MaxFaults

LEMMA TypesByPart ==
  TypeOK <=> /\ DbTypes /\ RoomTypes /\ InboxTypes /\ HandlerTypes /\ ReplyTypes /\ WireTypes
             /\ BindTypes /\ PageTypes /\ BoundTypes
  BY DEF TypeOK, DbTypes, RoomTypes, InboxTypes, HandlerTypes, ReplyTypes, WireTypes, BindTypes,
     PageTypes, BoundTypes, Stages, View, Message, Handler, Reply, Phases, Answers

LEMMA RoomNumbers ==
  /\ Retries \in Nat /\ MaxVersion \in Nat /\ MaxBinds \in Nat /\ MaxVisits \in Nat
  /\ MaxDrops \in Nat /\ MaxFaults \in Nat
  /\ \A t \in Tabs : t # Nobody /\ Owner[t] \in Users
  BY RoomAssumption

\* The parts of a step that leaves them alone.
LEMMA TypesStay ==
  /\ DbTypes /\ UNCHANGED <<dbVars, pending>> => DbTypes'
  /\ RoomTypes /\ UNCHANGED <<room, abandoned>> => RoomTypes'
  /\ InboxTypes /\ UNCHANGED inbox => InboxTypes'
  /\ HandlerTypes /\ UNCHANGED handlers => HandlerTypes'
  /\ ReplyTypes /\ UNCHANGED replies => ReplyTypes'
  /\ WireTypes /\ UNCHANGED <<connected, news>> => WireTypes'
  /\ BindTypes /\ UNCHANGED bindVars => BindTypes'
  /\ PageTypes /\ UNCHANGED pageVars => PageTypes'
  /\ BoundTypes /\ UNCHANGED <<drops, faults>> => BoundTypes'
  BY DEF DbTypes, RoomTypes, InboxTypes, HandlerTypes, ReplyTypes, WireTypes, BindTypes,
     PageTypes, BoundTypes, dbVars, bindVars, pageVars

LEMMA TypesKept ==
  ASSUME TypeOK,
         DbTypes' \/ UNCHANGED <<dbVars, pending>>,
         RoomTypes' \/ UNCHANGED <<room, abandoned>>,
         InboxTypes' \/ UNCHANGED inbox,
         HandlerTypes' \/ UNCHANGED handlers,
         ReplyTypes' \/ UNCHANGED replies,
         WireTypes' \/ UNCHANGED <<connected, news>>,
         BindTypes' \/ UNCHANGED bindVars,
         PageTypes' \/ UNCHANGED pageVars,
         BoundTypes' \/ UNCHANGED <<drops, faults>>
  PROVE  TypeOK'
  <1>1. /\ DbTypes /\ RoomTypes /\ InboxTypes /\ HandlerTypes /\ ReplyTypes /\ WireTypes
        /\ BindTypes /\ PageTypes /\ BoundTypes
    BY TypesByPart
  <1>2. /\ DbTypes' /\ RoomTypes' /\ InboxTypes' /\ HandlerTypes' /\ ReplyTypes' /\ WireTypes'
        /\ BindTypes' /\ PageTypes' /\ BoundTypes'
    BY <1>1, TypesStay
  <1> QED
    BY <1>2 DEF TypeOK, DbTypes, RoomTypes, InboxTypes, HandlerTypes, ReplyTypes, WireTypes,
       BindTypes, PageTypes, BoundTypes, Stages, View, Message, Handler, Reply, Phases, Answers

LEMMA TypesInit == Init => TypeOK
  <1> SUFFICES ASSUME Init PROVE TypeOK
    OBVIOUS
  <1>1. <<[stage |-> "open", active |-> {}, silent |-> FALSE]>> \in Seq(View)
    BY DEF View, Stages
  <1>2. DbTypes BY <1>1 DEF Init, ParticipantsInit, DbTypes, Stages
  <1>3. BindTypes /\ PageTypes /\ BoundTypes
    BY RoomNumbers DEF Init, BindTypes, PageTypes, BoundTypes
  <1>4. RoomTypes /\ InboxTypes /\ HandlerTypes /\ ReplyTypes /\ WireTypes
    BY DEF Init, RoomTypes, InboxTypes, HandlerTypes, ReplyTypes, WireTypes
  <1> QED BY <1>2, <1>3, <1>4, TypesByPart

-----------------------------------------------------------------------------
(* Commits *)

LEMMA Versions ==
  ASSUME DbTypes
  PROVE  /\ Version \in Nat /\ DOMAIN views = 1..Version
         /\ \A v \in 1..Version : views[v] \in View
  BY LenProperties, ElementOfSeq DEF DbTypes, Version

LEMMA GrownViews ==
  ASSUME DbTypes, Version < MaxVersion, stage' \in Stages, active' \subseteq Companies,
         NEW s \in BOOLEAN,
         views' = Append(views, [stage |-> stage', active |-> active', silent |-> s])
  PROVE  /\ views' \in Seq(View) /\ Version' = Version + 1 /\ Version + 1 <= MaxVersion
         /\ \A v \in 1..Version : views'[v] = views[v]
         /\ views'[Version'].stage = stage' /\ views'[Version'].active = active'
         /\ views'[Version'].silent = s
  <1> DEFINE e == [stage |-> stage', active |-> active', silent |-> s]
  <1>1. e \in View BY DEF View
  <1>2. /\ views' \in Seq(View) /\ Len(views') = Len(views) + 1
        /\ \A v \in 1..Len(views) : views'[v] = views[v]
        /\ views'[Len(views) + 1] = e
    BY <1>1, AppendProperties DEF DbTypes
  <1>3. Len(views) \in Nat /\ MaxVersion \in Nat BY Versions, RoomNumbers DEF Version
  <1> QED BY <1>2, <1>3 DEF Version


\* What a commit that is broadcast says.
Tells(b) ==
  /\ b \in Broadcast /\ b.version = Version'
  /\ b.except # Nobody => b.except = b.actor /\ connected[b.except]
  /\ \A t \in Tabs : b.actor = t => b.visit = visits[t]
  /\ \A u \in b.evict : isOut(u)'
  /\ \A u \in Users : isOrderParticipant(u) /\ ~isOrderParticipant(u)' => u \in b.evict

Commits ==
  /\ stage # "gone" /\ DbTypes' /\ LastVersion'
  /\ Version' = Version + 1 /\ \A v \in 1..Version : views'[v] = views[v]
  /\ \/ \E b : pending' = Append(pending, b) /\ Tells(b)
     \/ pending' = pending /\ views'[Version'].silent
  /\ UNCHANGED <<serverVars, wireVars, bindVars, pageVars, drops, faults>>

\* Who was in play and is not has lost the place.
LEMMA LosingIsOut ==
  ASSUME DbTypes, LastVersion, Version' = Version + 1,
         \A v \in 1..Version : views'[v] = views[v], views'[Version'].active = active',
         NEW u, u \in active, u \notin active'
  PROVE  isOut(u)'
  <1>1. Version \in 1..(Version + 1) /\ Version + 1 \in 1..(Version + 1) /\ Version < Version + 1
    BY DEF LastVersion
  <1>2. u \in views'[Version].active /\ u \notin views'[Version + 1].active
    BY <1>1 DEF LastVersion
  <1> QED BY <1>1, <1>2 DEF isOut, hasLostPlace

LEMMA CommitTells ==
  ASSUME TypeOK, LastVersion, stage # "gone", stage' \in Stages, active' \subseteq Companies,
         NEW evict \in SUBSET Users, NEW own \in SUBSET Users, NEW inRoom \in BOOLEAN,
         NEW actor \in Tabs \union {Nobody}, Commit(evict, own, inRoom, actor),
         stage' = "gone" \/ evict \subseteq active \ active',
         stage' = "gone" => evict = Users,
         \A u \in active \ active' : u \in evict
  PROVE  Commits
  <1> DEFINE b == [version |-> Version + 1, evict |-> evict, own |-> own, inRoom |-> inRoom,
                   actor |-> actor, visit |-> IF actor = Nobody THEN 0 ELSE visits[actor],
                   except |-> IF actor # Nobody /\ connected[actor] THEN actor ELSE Nobody]
  <1>0. DbTypes /\ PageTypes BY TypesByPart
  <1>1. /\ Version < MaxVersion /\ pending' = Append(pending, b)
        /\ views' = Append(views, [stage |-> stage', active |-> active', silent |-> FALSE])
        /\ UNCHANGED <<serverVars, wireVars, bindVars, pageVars, drops, faults>>
    BY DEF Commit
  <1>2. /\ views' \in Seq(View) /\ Version' = Version + 1 /\ Version + 1 <= MaxVersion
        /\ \A v \in 1..Version : views'[v] = views[v]
        /\ views'[Version'].stage = stage' /\ views'[Version'].active = active'
        /\ views'[Version'].silent = FALSE
    BY <1>0, <1>1, GrownViews
  <1>3. Version \in Nat /\ Version + 1 \in 1..MaxVersion /\ MaxVersion \in Nat /\ MaxVisits \in Nat
    BY <1>0, <1>2, Versions, RoomNumbers
  <1>4. b \in Broadcast
    <2>1. actor # Nobody => visits[actor] \in 0..MaxVisits BY <1>0 DEF PageTypes
    <2>2. 0 \in 0..MaxVisits BY <1>3
    <2> QED BY <1>3, <2>1, <2>2 DEF Broadcast
  <1>5. DbTypes'
    <2>1. pending' \in Seq(Broadcast) BY <1>0, <1>1, <1>4, AppendProperties DEF DbTypes
    <2> QED BY <2>1, <1>2 DEF DbTypes
  <1>6. LastVersion' BY <1>2, <1>3 DEF LastVersion
  <1>7. \A u \in evict : isOut(u)'
    <2>1. CASE stage' = "gone" BY <2>1 DEF isOut
    <2>2. CASE evict \subseteq active \ active'
      BY <2>2, <1>0, <1>2, LosingIsOut
    <2> QED BY <2>1, <2>2
  <1>8. \A u \in Users : isOrderParticipant(u) /\ ~isOrderParticipant(u)' => u \in evict
    BY DEF isOrderParticipant
  <1>9. /\ b.version = Version' /\ b.evict = evict
        /\ b.except # Nobody => b.except = b.actor /\ connected[b.except]
        /\ \A t \in Tabs : b.actor = t => b.visit = visits[t]
    BY <1>2, RoomNumbers
  <1>10. Tells(b)
    <2> HIDE DEF b
    <2> QED BY <1>4, <1>7, <1>8, <1>9 DEF Tells
  <1> QED BY <1>1, <1>2, <1>5, <1>6, <1>10 DEF Commits

LEMMA CommitSteps ==
  ASSUME TypeOK, LastVersion,
         \/ \E c \in Companies : CommitOfferSent(c) \/ CommitOfferLeft(c) \/ CommitOfferTaken(c)
         \/ CommitWork \/ CommitRemoval \/ CommitVanishing
  PROVE  Commits
  <1>0. DbTypes /\ active \subseteq Companies BY TypesByPart DEF DbTypes
  <1>00. \A U : Actors(U) \subseteq Tabs \union {Nobody} BY DEF Actors, tabsOf
  <1>1. ASSUME NEW c \in Companies, CommitOfferSent(c) PROVE Commits
    <2>1. /\ stage = "open" /\ stage' = "open" /\ active' = active \union {c}
          /\ \E actor \in Actors({c}) : Commit({}, {Client, c}, active = {}, actor)
      BY <1>1 DEF CommitOfferSent, OfferSent
    <2> QED BY <1>0, <1>00, <2>1, CommitTells DEF Users, Stages
  <1>2. ASSUME NEW c \in Companies, CommitOfferLeft(c) PROVE Commits
    <2>1. /\ stage = "open" /\ stage' = "open" /\ c \in active /\ active' = active \ {c}
          /\ \E actor \in Actors({c, Client}) : Commit({c}, {Client, c}, active' = {}, actor)
      BY <1>2 DEF CommitOfferLeft, OfferLeft
    <2> QED BY <1>0, <1>00, <2>1, CommitTells DEF Users, Stages
  <1>3. ASSUME NEW c \in Companies, CommitOfferTaken(c) PROVE Commits
    <2>1. /\ stage = "open" /\ stage' = "work" /\ c \in active /\ active' = {c}
          /\ \E actor \in Actors({Client}) :
               Commit(active \ {c}, active \union {Client}, TRUE, actor)
      BY <1>3 DEF CommitOfferTaken, OfferTaken
    <2> QED BY <1>0, <1>00, <2>1, CommitTells DEF Users, Stages
  <1>4. ASSUME CommitWork PROVE Commits
    <2>1. /\ stage = "work" /\ stage' = "work" /\ active' = active
          /\ \E own \in {{Client}, active \union {Client}}, actor \in Actors(active \union {Client}) :
               Commit({}, own, TRUE, actor)
      BY <1>4 DEF CommitWork, WorkMoves, partVars
    <2> QED BY <1>0, <1>00, <2>1, CommitTells DEF Users, Stages
  <1>5. ASSUME CommitRemoval PROVE Commits
    <2>1. /\ stage = "open" /\ stage' = "gone" /\ active' = {}
          /\ \E actor \in Actors({Client}) : Commit(Users, active, FALSE, actor)
      BY <1>5 DEF CommitRemoval, OrderRemoved
    <2> QED BY <1>0, <1>00, <2>1, CommitTells DEF Users, Stages
  <1>6. ASSUME CommitVanishing PROVE Commits
    <2>1. /\ stage # "gone" /\ stage' = "gone" /\ active' = {} /\ Version < MaxVersion
          /\ views' = Append(views, [stage |-> stage', active |-> active', silent |-> TRUE])
          /\ UNCHANGED <<pending, serverVars, wireVars, bindVars, pageVars, drops, faults>>
      BY <1>6 DEF CommitVanishing, OrderVanishes
    <2>2. /\ views' \in Seq(View) /\ Version' = Version + 1 /\ Version + 1 <= MaxVersion
          /\ \A v \in 1..Version : views'[v] = views[v]
          /\ views'[Version'].stage = stage' /\ views'[Version'].active = active'
          /\ views'[Version'].silent = TRUE
      BY <1>0, <2>1, GrownViews DEF Stages
    <2>3. Version \in Nat /\ MaxVersion \in Nat BY <1>0, Versions, RoomNumbers
    <2>4. DbTypes' BY <1>0, <2>1, <2>2 DEF DbTypes, Stages
    <2>5. Version' \in 1..MaxVersion BY <2>2, <2>3
    <2>6. LastVersion' BY <2>1, <2>2, <2>5 DEF LastVersion
    <2> QED BY <2>1, <2>2, <2>4, <2>6 DEF Commits
  <1> QED BY <1>1, <1>2, <1>3, <1>4, <1>5, <1>6


-----------------------------------------------------------------------------
(* What handlers, answers and messages become *)

LEMMA HandlerBegins ==
  ASSUME HandlerTypes, NEW t \in Tabs, NEW b \in Binding,
         handlers' = [handlers EXCEPT ![t] = Append(@, [binding |-> b, phase |-> "asking"])]
  PROVE  /\ HandlerTypes' /\ \A u \in Tabs \ {t} : handlers'[u] = handlers[u]
         /\ \A c, p : handles(t, c, p)' <=> handles(t, c, p) \/ (c = b /\ p = "asking")
         /\ \A i \in DOMAIN handlers[t] : i \in DOMAIN handlers'[t] /\ handlers'[t][i] = handlers[t][i]
  <1> DEFINE h == [binding |-> b, phase |-> "asking"]
  <1>1. handlers[t] \in Seq(Handler) /\ h \in Handler BY DEF HandlerTypes, Handler, Phases
  <1>2. handlers'[t] = Append(handlers[t], h) /\ \A u \in Tabs \ {t} : handlers'[u] = handlers[u]
    BY DEF HandlerTypes
  <1>3. h.binding = b /\ h.phase = "asking" OBVIOUS
  <1> HIDE DEF h
  <1>4. /\ handlers'[t] \in Seq(Handler)
        /\ DOMAIN handlers[t] = 1..Len(handlers[t]) /\ Len(handlers[t]) \in Nat
        /\ DOMAIN handlers'[t] = 1..(Len(handlers[t]) + 1)
        /\ \A i \in DOMAIN handlers[t] : i \in DOMAIN handlers'[t] /\ handlers'[t][i] = handlers[t][i]
        /\ handlers'[t][Len(handlers[t]) + 1] = h
    BY <1>1, <1>2, Appended
  <1>5. HandlerTypes' BY <1>4 DEF HandlerTypes
  <1>6. ASSUME NEW c, NEW p
        PROVE  handles(t, c, p)' <=> handles(t, c, p) \/ (c = b /\ p = "asking")
    BY <1>3, <1>4 DEF handles
  <1> QED BY <1>2, <1>4, <1>5, <1>6

LEMMA HandlerMoves ==
  ASSUME HandlerTypes, NEW t \in Tabs, NEW i \in DOMAIN handlers[t], NEW p0 \in Phases,
         nextPhase(t, i, p0)
  PROVE  LET h == handlers[t][i]
         IN  /\ HandlerTypes' /\ \A u \in Tabs \ {t} : handlers'[u] = handlers[u]
             /\ h.binding \in Binding /\ h.phase \in Phases
             /\ handles(t, h.binding, h.phase) /\ \A b : b = h.binding => handles(t, b, p0)'
             /\ \A c, p : handles(t, c, p)' => handles(t, c, p) \/ (c = h.binding /\ p = p0)
             /\ \A c, p : handles(t, c, p) => handles(t, c, p)' \/ (c = h.binding /\ p = h.phase)
  <1> DEFINE s == handlers[t]
             h == s[i]
             g == [h EXCEPT !.phase = p0]
  <1>1. s \in Seq(Handler) BY DEF HandlerTypes
  <1>2. DOMAIN s = 1..Len(s) /\ h \in Handler BY <1>1, LenProperties, ElementOfSeq
  <1>3. g \in Handler /\ g.binding = h.binding /\ g.phase = p0
        /\ h.binding \in Binding /\ h.phase \in Phases
    BY <1>2 DEF Handler
  <1>4. handlers' = [handlers EXCEPT ![t] = [s EXCEPT ![i] = g]] BY DEF nextPhase
  <1>5. handlers'[t] = [s EXCEPT ![i] = g] /\ \A u \in Tabs \ {t} : handlers'[u] = handlers[u]
    BY <1>4 DEF HandlerTypes
  <1> HIDE DEF g
  <1>6. /\ [s EXCEPT ![i] = g] \in Seq(Handler)
        /\ Len([s EXCEPT ![i] = g]) = Len(s)
        /\ \A j \in 1..Len(s) : [s EXCEPT ![i] = g][j] = IF j = i THEN g ELSE s[j]
    BY <1>1, <1>2, <1>3, ExceptSeq
  <1>7. DOMAIN handlers'[t] = DOMAIN s BY <1>5
  <1>8. HandlerTypes' BY <1>4, <1>6 DEF HandlerTypes
  <1>9. \A j \in DOMAIN s : handlers'[t][j] = IF j = i THEN g ELSE s[j] BY <1>2, <1>5, <1>6
  <1> HIDE DEF h
  <1>10. h = s[i] BY DEF h
  <1>11. handles(t, h.binding, h.phase) BY <1>10 DEF handles
  <1>13. ASSUME NEW b, b = h.binding PROVE handles(t, b, p0)'
    <2>1. i \in DOMAIN handlers'[t] /\ handlers'[t][i] = g BY <1>7, <1>9
    <2> QED BY <1>3, <1>13, <2>1 DEF handles
  <1>12. ASSUME NEW c, NEW p
         PROVE  /\ handles(t, c, p)' => handles(t, c, p) \/ (c = h.binding /\ p = p0)
                /\ handles(t, c, p) => handles(t, c, p)' \/ (c = h.binding /\ p = h.phase)
    BY <1>3, <1>7, <1>9, <1>10 DEF handles
  <1> QED BY <1>3, <1>5, <1>8, <1>11, <1>12, <1>13 DEF h

LEMMA HandlerEnds ==
  ASSUME HandlerTypes, NEW t \in Tabs, NEW i \in DOMAIN handlers[t],
         handlers' = [handlers EXCEPT ![t] = RemoveAt(@, i)]
  PROVE  LET h == handlers[t][i]
         IN  /\ HandlerTypes' /\ \A u \in Tabs \ {t} : handlers'[u] = handlers[u]
             /\ h.binding \in Binding /\ h.phase \in Phases /\ handles(t, h.binding, h.phase)
             /\ \A c, p : handles(t, c, p)' => handles(t, c, p)
             /\ \A c, p : handles(t, c, p) => handles(t, c, p)' \/ (c = h.binding /\ p = h.phase)
  <1> DEFINE s == handlers[t]
             h == s[i]
  <1>1. s \in Seq(Handler) BY DEF HandlerTypes
  <1>2. DOMAIN s = 1..Len(s) /\ h \in Handler BY <1>1, LenProperties, ElementOfSeq
  <1>3. h.binding \in Binding /\ h.phase \in Phases BY <1>2 DEF Handler
  <1>4. handlers'[t] = RemoveAt(s, i) /\ \A u \in Tabs \ {t} : handlers'[u] = handlers[u]
    BY DEF HandlerTypes
  <1>5. /\ handlers'[t] \in Seq(Handler)
        /\ \A k \in DOMAIN handlers'[t] : \E j \in DOMAIN s \ {i} : handlers'[t][k] = s[j]
        /\ \A j \in DOMAIN s \ {i} : \E k \in DOMAIN handlers'[t] : handlers'[t][k] = s[j]
    <2>1. /\ RemoveAt(s, i) \in Seq(Handler)
          /\ \A k \in DOMAIN RemoveAt(s, i) : \E j \in DOMAIN s \ {i} : RemoveAt(s, i)[k] = s[j]
          /\ \A j \in DOMAIN s \ {i} : \E k \in DOMAIN RemoveAt(s, i) : RemoveAt(s, i)[k] = s[j]
      BY <1>1, Removed
    <2>2. handlers'[t] = RemoveAt(s, i) BY <1>4
    <2> HIDE DEF s
    <2> QED BY <2>1, <2>2
  <1>6. HandlerTypes' BY <1>5 DEF HandlerTypes
  <1>7. ASSUME NEW c, NEW p
        PROVE  /\ handles(t, c, p)' => handles(t, c, p)
               /\ handles(t, c, p) => handles(t, c, p)' \/ (c = h.binding /\ p = h.phase)
    <2>1. ASSUME handles(t, c, p)' PROVE handles(t, c, p)
      <3>1. PICK k \in DOMAIN handlers'[t] : handlers'[t][k].binding = c /\ handlers'[t][k].phase = p
        BY <2>1 DEF handles
      <3>2. PICK j \in DOMAIN s \ {i} : handlers'[t][k] = s[j] BY <1>5
      <3> QED BY <3>1, <3>2 DEF handles
    <2>2. ASSUME handles(t, c, p), ~(c = h.binding /\ p = h.phase) PROVE handles(t, c, p)'
      <3>1. PICK j \in DOMAIN s : s[j].binding = c /\ s[j].phase = p BY <2>2 DEF handles
      <3>2. j # i BY <2>2, <3>1
      <3>3. PICK k \in DOMAIN handlers'[t] : handlers'[t][k] = s[j] BY <1>5, <3>2
      <3> QED BY <3>1, <3>3 DEF handles
    <2> QED BY <2>1, <2>2
  <1>8. handles(t, h.binding, h.phase) BY DEF handles
  <1> QED BY <1>3, <1>4, <1>6, <1>7, <1>8

LEMMA AnswerSent ==
  ASSUME ReplyTypes, NEW t \in Tabs, NEW b \in Binding, NEW a \in Answers, reply(t, b, a)
  PROVE  /\ ReplyTypes' /\ \A u \in Tabs \ {t} : replies'[u] = replies[u]
         /\ \A c, x : answered(t, c, x)' <=> answered(t, c, x) \/ (c = b /\ x = a)
  <1> DEFINE r == [binding |-> b, answer |-> a]
  <1>1. replies[t] \in Seq(Reply) /\ r \in Reply BY DEF ReplyTypes, Reply
  <1>2. replies'[t] = Append(replies[t], r) /\ \A u \in Tabs \ {t} : replies'[u] = replies[u]
    BY DEF ReplyTypes, reply
  <1>3. r.binding = b /\ r.answer = a OBVIOUS
  <1> HIDE DEF r
  <1>4. /\ replies'[t] \in Seq(Reply)
        /\ DOMAIN replies[t] = 1..Len(replies[t]) /\ Len(replies[t]) \in Nat
        /\ DOMAIN replies'[t] = 1..(Len(replies[t]) + 1)
        /\ \A i \in DOMAIN replies[t] : i \in DOMAIN replies'[t] /\ replies'[t][i] = replies[t][i]
        /\ replies'[t][Len(replies[t]) + 1] = r
    BY <1>1, <1>2, Appended
  <1>5. replies' = [replies EXCEPT ![t] = Append(replies[t], r)] BY DEF reply, r
  <1>6. ReplyTypes' BY <1>2, <1>4, <1>5 DEF ReplyTypes
  <1>7. ASSUME NEW c, NEW x
        PROVE  answered(t, c, x)' <=> answered(t, c, x) \/ (c = b /\ x = a)
    BY <1>3, <1>4 DEF answered
  <1> QED BY <1>2, <1>6, <1>7

LEMMA AnswerRead ==
  ASSUME ReplyTypes, NEW t \in Tabs, replies[t] # <<>>,
         replies' = [replies EXCEPT ![t] = Tail(@)]
  PROVE  LET r == Head(replies[t])
         IN  /\ ReplyTypes' /\ \A u \in Tabs \ {t} : replies'[u] = replies[u]
             /\ r.binding \in Binding /\ r.answer \in Answers /\ answered(t, r.binding, r.answer)
             /\ \A c, x : answered(t, c, x)' => answered(t, c, x)
             /\ \A c, x : answered(t, c, x) => answered(t, c, x)' \/ (c = r.binding /\ x = r.answer)
  <1> DEFINE s == replies[t]
             r == Head(s)
  <1>1. s \in Seq(Reply) BY DEF ReplyTypes
  <1>2. /\ Tail(s) \in Seq(Reply) /\ Head(s) = s[1] /\ 1 \in DOMAIN s /\ DOMAIN s \subseteq Nat
        /\ \A i \in DOMAIN Tail(s) : i + 1 \in DOMAIN s /\ Tail(s)[i] = s[i + 1]
        /\ \A i \in DOMAIN s : i # 1 => i - 1 \in DOMAIN Tail(s) /\ Tail(s)[i - 1] = s[i]
    BY <1>1, Shortened
  <1>3. r \in Reply BY <1>1, <1>2, LenProperties, ElementOfSeq
  <1>4. r.binding \in Binding /\ r.answer \in Answers BY <1>3 DEF Reply
  <1>5. replies'[t] = Tail(s) /\ \A u \in Tabs \ {t} : replies'[u] = replies[u] BY DEF ReplyTypes
  <1>6. ReplyTypes' BY <1>2 DEF ReplyTypes
  <1>7. ASSUME NEW c, NEW x
        PROVE  /\ answered(t, c, x)' => answered(t, c, x)
               /\ answered(t, c, x) => answered(t, c, x)' \/ (c = r.binding /\ x = r.answer)
    <2>1. ASSUME answered(t, c, x)' PROVE answered(t, c, x)
      <3>1. PICK k \in DOMAIN Tail(s) : Tail(s)[k].binding = c /\ Tail(s)[k].answer = x
        BY <1>5, <2>1 DEF answered
      <3>2. k + 1 \in DOMAIN s /\ Tail(s)[k] = s[k + 1] BY <1>2
      <3> QED BY <3>1, <3>2 DEF answered
    <2>2. ASSUME answered(t, c, x), ~(c = r.binding /\ x = r.answer) PROVE answered(t, c, x)'
      <3>1. PICK j \in DOMAIN s : s[j].binding = c /\ s[j].answer = x BY <2>2 DEF answered
      <3>2. j # 1 BY <1>2, <2>2, <3>1
      <3>3. j - 1 \in DOMAIN Tail(s) /\ Tail(s)[j - 1] = s[j] BY <1>2, <3>2
      <3> QED BY <1>5, <3>1, <3>3 DEF answered
    <2> QED BY <2>1, <2>2
  <1>8. answered(t, r.binding, r.answer) BY <1>2 DEF answered
  <1> QED BY <1>4, <1>5, <1>6, <1>7, <1>8


LEMMA Messages ==
  /\ unsubscribe \in Message
  /\ \A b \in Binding : subscribe(b) \in Message
  /\ \A b : subscribe(b) # unsubscribe
  /\ \A b, c : subscribe(b) = subscribe(c) => b = c
  /\ unsubscribe.kind = "unsubscribe"
  /\ \A b : subscribe(b).kind = "subscribe" /\ subscribe(b).binding = b
  <1>1. \A b : subscribe(b).kind = "subscribe" /\ subscribe(b).binding = b BY DEF subscribe
  <1>2. unsubscribe.kind = "unsubscribe" BY DEF unsubscribe
  <1> QED BY <1>1, <1>2 DEF Message

\* The two kinds of messages, read off a record.
LEMMA MessageIs ==
  ASSUME NEW m \in Message
  PROVE  /\ m.kind = "subscribe" => m.binding \in Binding /\ m = subscribe(m.binding)
         /\ m.kind = "unsubscribe" => m = unsubscribe
  <1>1. CASE m = unsubscribe BY <1>1, Messages
  <1>2. ASSUME NEW b \in Binding, m = subscribe(b) PROVE m.binding = b /\ m.kind = "subscribe"
    BY <1>2, Messages
  <1> QED BY <1>1, <1>2 DEF Message

LEMMA MessageSent ==
  ASSUME InboxTypes, NEW t \in Tabs, NEW m \in Message, send(t, m)
  PROVE  /\ InboxTypes' /\ \A u \in Tabs \ {t} : inbox'[u] = inbox[u]
         /\ \A b : awaits(t, b)' <=> awaits(t, b) \/ m = subscribe(b)
         /\ toLeave(t)' <=> toLeave(t) \/ m = unsubscribe
         /\ \A b : m # unsubscribe /\ inOrder(t, b) => inOrder(t, b)'
         /\ \A b : ~awaits(t, b) => inOrder(t, b)
  <1>1. inbox[t] \in Seq(Message) BY DEF InboxTypes
  <1>2. inbox'[t] = Append(inbox[t], m) /\ \A u \in Tabs \ {t} : inbox'[u] = inbox[u]
    BY DEF InboxTypes, send
  <1>3. /\ inbox'[t] \in Seq(Message)
        /\ DOMAIN inbox[t] = 1..Len(inbox[t]) /\ Len(inbox[t]) \in Nat
        /\ DOMAIN inbox'[t] = 1..(Len(inbox[t]) + 1)
        /\ \A i \in DOMAIN inbox[t] : i \in DOMAIN inbox'[t] /\ inbox'[t][i] = inbox[t][i]
        /\ inbox'[t][Len(inbox[t]) + 1] = m
    BY <1>1, <1>2, Appended
  <1>4. InboxTypes'
    <2>1. inbox' = [inbox EXCEPT ![t] = Append(inbox[t], m)] BY DEF send
    <2> QED BY <1>2, <1>3, <2>1 DEF InboxTypes
  <1>5. ASSUME NEW b PROVE awaits(t, b)' <=> awaits(t, b) \/ m = subscribe(b)
    BY <1>3 DEF awaits, subscribe
  <1>6. toLeave(t)' <=> toLeave(t) \/ m = unsubscribe
    BY <1>3 DEF toLeave, unsubscribe
  <1>7. ASSUME NEW b, m # unsubscribe, inOrder(t, b) PROVE inOrder(t, b)'
    <2>1. ASSUME NEW i \in DOMAIN inbox'[t], NEW j \in DOMAIN inbox'[t],
                 inbox'[t][i] = unsubscribe, inbox'[t][j] = subscribe(b)
          PROVE  i < j
      <3>1. i # Len(inbox[t]) + 1 BY <1>3, <1>7, <2>1
      <3>2. i \in DOMAIN inbox[t] /\ inbox[t][i] = unsubscribe BY <1>3, <2>1, <3>1
      <3>3. CASE j = Len(inbox[t]) + 1 BY <1>3, <3>2, <3>3
      <3>4. CASE j # Len(inbox[t]) + 1
        <4>1. j \in DOMAIN inbox[t] /\ inbox[t][j] = subscribe(b) BY <1>3, <2>1, <3>4
        <4> QED BY <1>7, <3>2, <4>1 DEF inOrder
      <3> QED BY <3>3, <3>4
    <2> QED BY <2>1 DEF inOrder, unsubscribe, subscribe
  <1>8. \A b : ~awaits(t, b) => inOrder(t, b) BY DEF awaits, inOrder
  <1> QED BY <1>2, <1>4, <1>5, <1>6, <1>7, <1>8

LEMMA MessageRead ==
  ASSUME InboxTypes, NEW t \in Tabs, inbox[t] # <<>>, inbox' = [inbox EXCEPT ![t] = Tail(@)]
  PROVE  LET m == Head(inbox[t])
         IN  /\ m \in Message
             /\ InboxTypes' /\ \A u \in Tabs \ {t} : inbox'[u] = inbox[u]
             /\ \A b : awaits(t, b)' => awaits(t, b)
             /\ \A b : awaits(t, b) => awaits(t, b)' \/ m = subscribe(b)
             /\ toLeave(t)' => toLeave(t)
             /\ toLeave(t) => toLeave(t)' \/ m = unsubscribe
             /\ m = unsubscribe => toLeave(t)
             /\ \A b : m = subscribe(b) => awaits(t, b)
             /\ \A b : inOrder(t, b) => inOrder(t, b)'
             /\ \A b : m = subscribe(b) /\ inOrder(t, b) => ~toLeave(t)
  <1> DEFINE s == inbox[t]
             m == Head(s)
  <1>1. s \in Seq(Message) BY DEF InboxTypes
  <1>2. /\ Tail(s) \in Seq(Message) /\ Head(s) = s[1] /\ 1 \in DOMAIN s /\ DOMAIN s \subseteq Nat
        /\ \A i \in DOMAIN Tail(s) : i + 1 \in DOMAIN s /\ Tail(s)[i] = s[i + 1]
        /\ \A i \in DOMAIN s : i # 1 => i - 1 \in DOMAIN Tail(s) /\ Tail(s)[i - 1] = s[i]
    BY <1>1, Shortened
  <1>3. m \in Message BY <1>1, <1>2, LenProperties, ElementOfSeq
  <1>4. inbox'[t] = Tail(s) /\ \A u \in Tabs \ {t} : inbox'[u] = inbox[u] BY DEF InboxTypes
  <1>5. InboxTypes' BY <1>2 DEF InboxTypes
  <1>6. /\ \A i \in DOMAIN inbox'[t] : i + 1 \in DOMAIN s /\ inbox'[t][i] = s[i + 1]
        /\ \A i \in DOMAIN s : i # 1 => i - 1 \in DOMAIN inbox'[t] /\ inbox'[t][i - 1] = s[i]
        /\ DOMAIN inbox'[t] \subseteq Nat
    <2>1. DOMAIN Tail(s) = 1..Len(Tail(s)) /\ Len(Tail(s)) \in Nat BY <1>2, LenProperties
    <2>2. inbox'[t] = Tail(s) BY <1>4
    <2> HIDE DEF s
    <2> QED BY <1>2, <2>1, <2>2
  <1>61. ASSUME NEW e
         PROVE  LET has(q) == \E i \in DOMAIN q : q[i] = e
                IN  /\ has(inbox'[t]) => has(s)
                    /\ has(s) => has(inbox'[t]) \/ m = e
                    /\ m = e => has(s)
    <2>1. ASSUME NEW i \in DOMAIN inbox'[t], inbox'[t][i] = e PROVE \E j \in DOMAIN s : s[j] = e
      BY <1>6, <2>1
    <2>2. ASSUME NEW j \in DOMAIN s, s[j] = e, m # e PROVE \E i \in DOMAIN inbox'[t] : inbox'[t][i] = e
      <3>1. j # 1 BY <1>2, <2>2
      <3> QED BY <1>6, <2>2, <3>1
    <2>3. m = e => \E j \in DOMAIN s : s[j] = e BY <1>2
    <2> QED BY <2>1, <2>2, <2>3
  <1>7. ASSUME NEW b
        PROVE  /\ awaits(t, b)' => awaits(t, b)
               /\ awaits(t, b) => awaits(t, b)' \/ m = subscribe(b)
               /\ m = subscribe(b) => awaits(t, b)
    BY <1>61 DEF awaits, subscribe
  <1>8. /\ toLeave(t)' => toLeave(t)
        /\ toLeave(t) => toLeave(t)' \/ m = unsubscribe
        /\ m = unsubscribe => toLeave(t)
    BY <1>61 DEF toLeave, unsubscribe
  <1>9. ASSUME NEW b, inOrder(t, b) PROVE inOrder(t, b)'
    <2>1. ASSUME NEW i \in DOMAIN inbox'[t], NEW j \in DOMAIN inbox'[t],
                 inbox'[t][i] = unsubscribe, inbox'[t][j] = subscribe(b)
          PROVE  i < j
      <3>1. i + 1 < j + 1 BY <1>6, <1>9, <2>1 DEF inOrder
      <3> QED BY <1>6, <3>1
    <2> QED BY <2>1 DEF inOrder, unsubscribe, subscribe
  <1>10. ASSUME NEW b, m = subscribe(b), inOrder(t, b), toLeave(t) PROVE FALSE
    <2>1. PICK i \in DOMAIN s : s[i] = unsubscribe BY <1>10 DEF toLeave
    <2>2. s[1] = subscribe(b) BY <1>2, <1>10
    <2>3. i < 1 BY <1>2, <1>10, <2>1, <2>2 DEF inOrder
    <2>4. i \in 1..Len(s) BY <1>1, LenProperties
    <2> QED BY <2>3, <2>4
  <1> QED BY <1>3, <1>4, <1>5, <1>7, <1>8, <1>9, <1>10


-----------------------------------------------------------------------------
(* The binding of a page *)

\* Nothing of the binding of a tab changes.
SameBinding(t) ==
  /\ bound'[t] = bound[t] /\ binds'[t] = binds[t] /\ attempt'[t] = attempt[t]
  /\ timer'[t] = timer[t] /\ inbox'[t] = inbox[t]

Binds(t) ==
  /\ bound[t] = 0 /\ bound'[t] = binds[t] + 1 /\ binds'[t] = binds[t] + 1
  /\ bound'[t] \in Binding
  /\ attempt'[t] = attempt[t] /\ timer'[t] = timer[t]
  /\ IF connected[t] THEN send(t, subscribe(binds[t] + 1)) ELSE inbox' = inbox

Unbinds(t) ==
  /\ bound[t] # 0 /\ bound'[t] = 0 /\ binds'[t] = binds[t]
  /\ attempt'[t] = attempt[t] /\ timer'[t] = timer[t] \ {bound[t]}
  /\ IF connected[t] THEN send(t, unsubscribe) ELSE inbox' = inbox

LEMMA Following ==
  ASSUME BindTypes, InboxTypes, NEW t \in Tabs, NEW enabled, FollowRoom(t, enabled)
  PROVE  /\ BindTypes' /\ InboxTypes'
         /\ \A u \in Tabs \ {t} : SameBinding(u)
         /\ SameBinding(t) \/ (enabled /\ Binds(t)) \/ Unbinds(t)
  <1>0. bound[t] \in 0..MaxBinds /\ binds[t] \in 0..MaxBinds /\ MaxBinds \in Nat
    BY RoomNumbers DEF BindTypes
  <1>1. CASE enabled /\ bound[t] = 0 /\ Bind(t)
    <2>1. /\ binds[t] < MaxBinds /\ binds' = [binds EXCEPT ![t] = binds[t] + 1]
          /\ bound' = [bound EXCEPT ![t] = binds[t] + 1]
          /\ UNCHANGED <<attempt, timer>>
          /\ IF connected[t] THEN send(t, subscribe(binds[t] + 1)) ELSE inbox' = inbox
      BY <1>1 DEF Bind
    <2>2. binds[t] + 1 \in Binding /\ binds[t] + 1 \in 0..MaxBinds
      BY <1>0, <2>1 DEF Binding
    <2>3. BindTypes' BY <2>1, <2>2 DEF BindTypes
    <2>4. InboxTypes' /\ \A u \in Tabs \ {t} : inbox'[u] = inbox[u]
      <3>1. subscribe(binds[t] + 1) \in Message BY <2>2, Messages
      <3> QED BY <2>1, <3>1, MessageSent, TypesStay
    <2>5. \A u \in Tabs \ {t} : SameBinding(u)
      BY <2>1, <2>4 DEF SameBinding, BindTypes
    <2>6. Binds(t) BY <1>1, <2>1, <2>2 DEF Binds, BindTypes
    <2> QED BY <1>1, <2>3, <2>4, <2>5, <2>6
  <1>2. CASE ~enabled /\ bound[t] # 0 /\ Unbind(t)
    <2>1. /\ bound' = [bound EXCEPT ![t] = 0] /\ timer' = [timer EXCEPT ![t] = timer[t] \ {bound[t]}]
          /\ UNCHANGED <<binds, attempt>>
          /\ IF connected[t] THEN send(t, unsubscribe) ELSE inbox' = inbox
      BY <1>2 DEF Unbind
    <2>2. BindTypes' BY <1>0, <2>1 DEF BindTypes
    <2>3. InboxTypes' /\ \A u \in Tabs \ {t} : inbox'[u] = inbox[u]
      BY <2>1, Messages, MessageSent, TypesStay
    <2>4. \A u \in Tabs \ {t} : SameBinding(u)
      BY <2>1, <2>3 DEF SameBinding, BindTypes
    <2>5. Unbinds(t) BY <1>2, <2>1 DEF Unbinds, BindTypes
    <2> QED BY <2>2, <2>3, <2>4, <2>5
  <1>3. CASE UNCHANGED <<bindVars, inbox>>
    BY <1>3 DEF bindVars, SameBinding, BindTypes, InboxTypes
  <1> QED BY <1>1, <1>2, <1>3 DEF FollowRoom

\* A page that closes.
LEMMA Closing ==
  ASSUME PageTypes, BindTypes, InboxTypes, NEW t \in Tabs, close(t)
  PROVE  /\ PageTypes' /\ FollowRoom(t, FALSE)
         /\ page'[t] = "away" /\ owed'[t] = 0 /\ answers'[t] = {} /\ visits' = visits
         /\ \A u \in Tabs \ {t} :
              /\ page'[u] = page[u] /\ card'[u] = card[u] /\ newest'[u] = newest[u]
              /\ owed'[u] = owed[u] /\ missed'[u] = missed[u] /\ burst'[u] = burst[u]
              /\ asked'[u] = asked[u] /\ answers'[u] = answers[u] /\ online'[u] = online[u]
  <1>1. 0 \in 0..MaxVersion BY RoomNumbers
  <1>2. PageTypes' BY <1>1 DEF PageTypes, close
  <1>3. page'[t] = "away" /\ owed'[t] = 0 /\ answers'[t] = {} BY DEF PageTypes, close
  <1>4. ASSUME NEW u \in Tabs \ {t}
        PROVE  /\ page'[u] = page[u] /\ card'[u] = card[u] /\ newest'[u] = newest[u]
               /\ owed'[u] = owed[u] /\ missed'[u] = missed[u] /\ burst'[u] = burst[u]
               /\ asked'[u] = asked[u] /\ answers'[u] = answers[u] /\ online'[u] = online[u]
    <2>1. page'[u] = page[u] /\ card'[u] = card[u] /\ newest'[u] = newest[u]
      BY DEF PageTypes, close
    <2>2. owed'[u] = owed[u] /\ missed'[u] = missed[u] /\ burst'[u] = burst[u]
      BY DEF PageTypes, close
    <2>3. asked'[u] = asked[u] /\ answers'[u] = answers[u] /\ online'[u] = online[u]
      BY DEF PageTypes, close
    <2> QED BY <2>1, <2>2, <2>3
  <1> QED BY <1>2, <1>3, <1>4 DEF close


-----------------------------------------------------------------------------
(* Types *)

\* A broadcast is taken out; a tab that breaks is no longer spared by any.
LEMMA PendingTypes ==
  ASSUME DbTypes
  PROVE  /\ pending # <<>> => Head(pending) \in Broadcast /\ Tail(pending) \in Seq(Broadcast)
         /\ DOMAIN pending = 1..Len(pending) /\ Len(pending) \in Nat
         /\ \A i \in DOMAIN pending : pending[i] \in Broadcast
  <1>1. pending \in Seq(Broadcast) BY DEF DbTypes
  <1> QED BY <1>1, HeadTailProperties, LenProperties, ElementOfSeq

LEMMA UnsparedTypes ==
  ASSUME DbTypes, NEW t,
         pending' = [i \in DOMAIN pending |->
                       IF pending[i].except = t THEN [pending[i] EXCEPT !.except = Nobody] ELSE pending[i]]
  PROVE  /\ pending' \in Seq(Broadcast) /\ DOMAIN pending' = DOMAIN pending
         /\ \A i \in DOMAIN pending :
              /\ pending'[i].version = pending[i].version /\ pending'[i].evict = pending[i].evict
              /\ pending'[i].own = pending[i].own /\ pending'[i].inRoom = pending[i].inRoom
              /\ pending'[i].actor = pending[i].actor /\ pending'[i].visit = pending[i].visit
              /\ pending'[i].except = IF pending[i].except = t THEN Nobody ELSE pending[i].except
  <1> DEFINE cut(b) == IF b.except = t THEN [b EXCEPT !.except = Nobody] ELSE b
  <1>1. ASSUME NEW b \in Broadcast
        PROVE  /\ cut(b) \in Broadcast
               /\ cut(b).version = b.version /\ cut(b).evict = b.evict /\ cut(b).own = b.own
               /\ cut(b).inRoom = b.inRoom /\ cut(b).actor = b.actor /\ cut(b).visit = b.visit
               /\ cut(b).except = IF b.except = t THEN Nobody ELSE b.except
    BY DEF Broadcast
  <1>2. /\ DOMAIN pending = 1..Len(pending) /\ Len(pending) \in Nat
        /\ \A i \in DOMAIN pending : pending[i] \in Broadcast
    BY PendingTypes
  <1>3. pending' = [i \in 1..Len(pending) |-> cut(pending[i])] BY <1>2
  <1> HIDE DEF cut
  <1>4. \A i \in 1..Len(pending) : cut(pending[i]) \in Broadcast BY <1>1, <1>2
  <1>5. pending' \in Seq(Broadcast) BY <1>2, <1>3, <1>4, IsASeq
  <1> QED BY <1>1, <1>2, <1>3, <1>5

LEMMA DispatchTypes ==
  ASSUME TypeOK, Dispatch
  PROVE  TypeOK'
  <1> DEFINE b == Head(pending)
             answers1 == IF b.actor # Nobody /\ page[b.actor] = "open" /\ visits[b.actor] = b.visit
                         THEN {b.actor} ELSE {}
  <1>0. /\ DbTypes /\ RoomTypes /\ InboxTypes /\ HandlerTypes /\ ReplyTypes /\ WireTypes
        /\ BindTypes /\ PageTypes /\ BoundTypes
    BY TypesByPart
  <1>1. /\ pending # <<>> /\ pending' = Tail(pending) /\ UNCHANGED <<dbVars, inbox, handlers, connected, replies, bindVars, page, visits,
                 card, missed, burst, answers, newest, online, drops, faults>>
        /\ leaveRoom(tabsOf(b.evict))
        /\ news' = [t \in Tabs |-> news[t] \union (IF t \in hearsOwn(b) THEN {"own"} ELSE {})
                                           \union (IF t \in hearsInRoom(b) THEN {"order"} ELSE {})]
        /\ asked' = [t \in Tabs |-> asked[t] + IF t \in answers1 THEN 1 ELSE 0]
        /\ owed' = [t \in Tabs |-> IF t \in addressed(b) THEN b.version ELSE owed[t]]
    BY DEF Dispatch
  <1>2. b \in Broadcast /\ Tail(pending) \in Seq(Broadcast) BY <1>0, <1>1, PendingTypes
  <1>3. b.version \in 0..MaxVersion BY <1>2, RoomNumbers DEF Broadcast
  <1>4. DbTypes' BY <1>0, <1>1, <1>2 DEF DbTypes, dbVars
  <1>5. RoomTypes' BY <1>0, <1>1 DEF RoomTypes, leaveRoom
  <1> HIDE DEF b, answers1
  <1>6. WireTypes' BY <1>0, <1>1 DEF WireTypes
  <1>7. asked' \in [Tabs -> Nat] BY <1>0, <1>1 DEF PageTypes
  <1>8. owed' \in [Tabs -> 0..MaxVersion] BY <1>0, <1>1, <1>3 DEF PageTypes
  <1>9. PageTypes' BY <1>0, <1>1, <1>7, <1>8 DEF PageTypes
  <1> QED BY <1>0, <1>1, <1>4, <1>5, <1>6, <1>9, TypesKept

LEMMA GatewayTypes ==
  ASSUME TypeOK, NEW t \in Tabs,
         \/ ReceiveSubscribe(t) \/ ReceiveUnsubscribe(t)
         \/ \E i \in DOMAIN handlers[t] :
              CheckBefore(t, i) \/ Join(t, i) \/ CheckAfter(t, i) \/ LeaveAfterCheck(t, i)
  PROVE  TypeOK'
  <1>0. /\ DbTypes /\ RoomTypes /\ InboxTypes /\ HandlerTypes /\ ReplyTypes /\ WireTypes
        /\ BindTypes /\ PageTypes /\ BoundTypes
    BY TypesByPart
  <1>00. faults \in 0..MaxFaults /\ MaxFaults \in Nat BY <1>0, RoomNumbers DEF BoundTypes
  <1>01. (Fault \/ UNCHANGED faults) => faults' \in 0..MaxFaults BY <1>00 DEF Fault
  <1>02. {"retry", "ok", "forbidden"} \subseteq Answers /\ {"admitted", "joined", "leaving"} \subseteq Phases
    BY DEF Answers, Phases
  <1>03. \A i \in DOMAIN handlers[t] : handlers[t][i].binding \in Binding
    <2>1. handlers[t] \in Seq(Handler) BY <1>0 DEF HandlerTypes
    <2>2. \A i \in DOMAIN handlers[t] : handlers[t][i] \in Handler BY <2>1, LenProperties, ElementOfSeq
    <2> QED BY <2>2 DEF Handler
  <1>1. CASE ReceiveSubscribe(t)
    <2> DEFINE b == Head(inbox[t]).binding
    <2>1. /\ inbox[t] # <<>> /\ Head(inbox[t]).kind = "subscribe"
          /\ inbox' = [inbox EXCEPT ![t] = Tail(@)]
          /\ \/ /\ handlers' = [handlers EXCEPT ![t] = Append(@, [binding |-> b, phase |-> "asking"])]
                /\ UNCHANGED <<replies, faults>>
             \/ Fault /\ reply(t, b, "retry") /\ UNCHANGED handlers
          /\ UNCHANGED <<dbVars, pending, room, abandoned, connected, news, bindVars, pageVars, drops>>
      BY <1>1 DEF ReceiveSubscribe
    <2>2. b \in Binding
      <3>1. Head(inbox[t]) \in Message BY <1>0, <2>1, MessageRead
      <3> QED BY <2>1, <3>1, MessageIs
    <2>3. InboxTypes' BY <1>0, <2>1, MessageRead
    <2>4. HandlerTypes' /\ ReplyTypes'
      BY <1>0, <1>02, <2>1, <2>2, HandlerBegins, AnswerSent, TypesStay
    <2>5. BoundTypes' BY <1>0, <1>01, <2>1 DEF BoundTypes
    <2> QED BY <1>0, <2>1, <2>3, <2>4, <2>5, TypesKept
  <1>2. CASE ReceiveUnsubscribe(t)
    <2>1. /\ inbox[t] # <<>> /\ inbox' = [inbox EXCEPT ![t] = Tail(@)]
          /\ (leaveRoom({t}) /\ UNCHANGED faults) \/ (Fault /\ UNCHANGED <<room, abandoned>>)
          /\ UNCHANGED <<dbVars, pending, handlers, wireVars, bindVars, pageVars, drops>>
      BY <1>2 DEF ReceiveUnsubscribe
    <2>2. InboxTypes' BY <1>0, <2>1, MessageRead
    <2>3. RoomTypes' BY <1>0, <2>1 DEF RoomTypes, leaveRoom
    <2>4. BoundTypes' BY <1>0, <1>01, <2>1 DEF BoundTypes
    <2>5. UNCHANGED replies /\ UNCHANGED <<connected, news>> BY <2>1 DEF wireVars
    <2> QED BY <1>0, <2>1, <2>2, <2>3, <2>4, <2>5, TypesKept
  <1>3. ASSUME NEW i \in DOMAIN handlers[t], CheckBefore(t, i) PROVE TypeOK'
    <2>1. /\ \/ (nextPhase(t, i, "admitted") \/ finish(t, i, "forbidden")) /\ UNCHANGED faults
             \/ Fault /\ finish(t, i, "retry")
          /\ UNCHANGED <<dbVars, pending, room, inbox, abandoned, connected, news, bindVars, pageVars, drops>>
      BY <1>3 DEF CheckBefore
    <2>2. HandlerTypes' /\ ReplyTypes'
      BY <1>0, <1>02, <1>03, <2>1, HandlerMoves, HandlerEnds, AnswerSent, TypesStay DEF finish, nextPhase
    <2>3. BoundTypes' BY <1>0, <1>01, <2>1 DEF BoundTypes
    <2> QED BY <1>0, <2>1, <2>2, <2>3, TypesKept
  <1>4. ASSUME NEW i \in DOMAIN handlers[t], Join(t, i) PROVE TypeOK'
    <2>1. /\ room' = room \union {t} /\ nextPhase(t, i, "joined")
          /\ UNCHANGED <<dbVars, pending, inbox, abandoned, connected, news, bindVars, pageVars, drops, faults>>
      BY <1>4 DEF Join
    <2>2. HandlerTypes' /\ ReplyTypes'
      BY <1>0, <1>02, <2>1, HandlerMoves, TypesStay DEF nextPhase
    <2>3. RoomTypes' BY <1>0, <2>1 DEF RoomTypes
    <2> QED BY <1>0, <2>1, <2>2, <2>3, TypesKept
  <1>5. ASSUME NEW i \in DOMAIN handlers[t], CheckAfter(t, i) PROVE TypeOK'
    <2>1. /\ \/ /\ finish(t, i, "ok") \/ nextPhase(t, i, "leaving")
                /\ abandoned' = abandoned \ {t} /\ UNCHANGED faults
             \/ /\ Fault /\ finish(t, i, "retry")
                /\ abandoned' = abandoned \union ({t} \intersect room)
          /\ UNCHANGED <<dbVars, pending, room, inbox, connected, news, bindVars, pageVars, drops>>
      BY <1>5 DEF CheckAfter
    <2>2. HandlerTypes' /\ ReplyTypes'
      BY <1>0, <1>02, <1>03, <2>1, HandlerMoves, HandlerEnds, AnswerSent, TypesStay DEF finish, nextPhase
    <2>3. RoomTypes' BY <1>0, <2>1 DEF RoomTypes
    <2>4. BoundTypes' BY <1>0, <1>01, <2>1 DEF BoundTypes
    <2> QED BY <1>0, <2>1, <2>2, <2>3, <2>4, TypesKept
  <1>6. ASSUME NEW i \in DOMAIN handlers[t], LeaveAfterCheck(t, i) PROVE TypeOK'
    <2>1. /\ leaveRoom({t}) /\ finish(t, i, "forbidden")
          /\ UNCHANGED <<dbVars, pending, inbox, connected, news, bindVars, pageVars, drops, faults>>
      BY <1>6 DEF LeaveAfterCheck
    <2>2. HandlerTypes' /\ ReplyTypes'
      BY <1>0, <1>02, <1>03, <2>1, HandlerEnds, AnswerSent DEF finish
    <2>3. RoomTypes' BY <1>0, <2>1 DEF RoomTypes, leaveRoom
    <2> QED BY <1>0, <2>1, <2>2, <2>3, TypesKept
  <1> QED BY <1>1, <1>2, <1>3, <1>4, <1>5, <1>6


LEMMA TabTypes ==
  ASSUME TypeOK, NEW t \in Tabs,
         \/ ReceiveReply(t) \/ (\E b \in timer[t] : RetryJoin(t, b))
         \/ Connect(t) \/ Disconnect(t)
  PROVE  TypeOK'
  <1>0. /\ DbTypes /\ RoomTypes /\ InboxTypes /\ HandlerTypes /\ ReplyTypes /\ WireTypes
        /\ BindTypes /\ PageTypes /\ BoundTypes
    BY TypesByPart
  <1>1. CASE ReceiveReply(t)
    <2> DEFINE b == Head(replies[t]).binding
    <2>1. /\ replies[t] # <<>> /\ replies' = [replies EXCEPT ![t] = Tail(@)]
          /\ \/ attempt' = [attempt EXCEPT ![t][b] = 0] /\ UNCHANGED timer
             \/ /\ attempt[t][b] < Retries
                /\ attempt' = [attempt EXCEPT ![t][b] = attempt[t][b] + 1]
                /\ timer' = [timer EXCEPT ![t] = timer[t] \union {b}]
             \/ UNCHANGED <<attempt, timer>>
          /\ UNCHANGED <<dbVars, pending, serverVars, connected, news, bound, binds, pageVars, drops, faults>>
      BY <1>1 DEF ReceiveReply
    <2>2. ReplyTypes' /\ b \in Binding BY <1>0, <2>1, AnswerRead
    <2> HIDE DEF b
    <2>3. attempt[t][b] \in 0..Retries /\ Retries \in Nat BY <1>0, <2>2, RoomNumbers DEF BindTypes
    <2>4. timer' \in [Tabs -> SUBSET Binding] BY <1>0, <2>1, <2>2 DEF BindTypes
    <2>5. attempt' \in [Tabs -> [Binding -> 0..Retries]]
      <3>1. attempt \in [Tabs -> [Binding -> 0..Retries]] BY <1>0 DEF BindTypes
      <3>2. ASSUME NEW n \in 0..Retries, attempt' = [attempt EXCEPT ![t][b] = n]
            PROVE  attempt' \in [Tabs -> [Binding -> 0..Retries]]
        BY <3>1, <3>2
      <3>3. 0 \in 0..Retries /\ (attempt[t][b] < Retries => attempt[t][b] + 1 \in 0..Retries) BY <2>3
      <3> QED BY <2>1, <3>1, <3>2, <3>3
    <2>6. BindTypes' BY <1>0, <2>1, <2>4, <2>5 DEF BindTypes
    <2> QED BY <2>1, <2>2, <2>6, TypesKept DEF serverVars
  <1>2. ASSUME NEW b \in timer[t], RetryJoin(t, b) PROVE TypeOK'
    <2>1. /\ timer' = [timer EXCEPT ![t] = timer[t] \ {b}] /\ send(t, subscribe(b))
          /\ UNCHANGED <<dbVars, pending, room, handlers, abandoned, wireVars, bound, binds, attempt,
                         pageVars, drops, faults>>
      BY <1>2 DEF RetryJoin
    <2>2. b \in Binding BY <1>0 DEF BindTypes
    <2>3. BindTypes' BY <1>0, <2>1 DEF BindTypes
    <2>4. InboxTypes' BY <1>0, <2>1, <2>2, Messages, MessageSent
    <2> QED BY <2>1, <2>3, <2>4, TypesKept DEF wireVars
  <1>3. CASE Connect(t)
    <2>1. /\ connected' = [connected EXCEPT ![t] = TRUE] /\ Rejoin(t)
          /\ burst' = [burst EXCEPT ![t] = burst[t] \/ missed[t]]
          /\ missed' = [missed EXCEPT ![t] = FALSE]
          /\ UNCHANGED <<dbVars, pending, room, handlers, abandoned, replies, news, bound, binds, page,
                         visits, card, asked, answers, newest, owed, online, drops, faults>>
      BY <1>3 DEF Connect, RefreshMissed
    <2>2. WireTypes' BY <1>0, <2>1 DEF WireTypes
    <2>3. PageTypes'
      <3>1. (burst[t] \/ missed[t]) \in BOOLEAN BY <1>0 DEF PageTypes
      <3>2. burst' \in [Tabs -> BOOLEAN] /\ missed' \in [Tabs -> BOOLEAN]
        BY <1>0, <2>1, <3>1 DEF PageTypes
      <3> QED BY <1>0, <2>1, <3>2 DEF PageTypes
    <2>4. BindTypes' /\ InboxTypes'
      <3>1. CASE bound[t] = 0
        BY <1>0, <2>1, <3>1, TypesStay DEF Rejoin, bindVars
      <3>2. CASE bound[t] # 0
        <4>1. /\ send(t, subscribe(bound[t])) /\ attempt' = [attempt EXCEPT ![t][bound[t]] = 0]
              /\ timer' = [timer EXCEPT ![t] = timer[t] \ {bound[t]}]
          BY <2>1, <3>2 DEF Rejoin
        <4>2. bound[t] \in Binding BY <1>0, <3>2, RoomNumbers DEF BindTypes, Binding
        <4>3. 0 \in 0..Retries BY RoomNumbers
        <4>4. BindTypes' BY <1>0, <2>1, <4>1, <4>2, <4>3 DEF BindTypes
        <4>5. InboxTypes' BY <1>0, <4>1, <4>2, Messages, MessageSent
        <4> QED BY <4>4, <4>5
      <3> QED BY <3>1, <3>2
    <2> QED BY <2>1, <2>2, <2>3, <2>4, TypesKept
  <1>4. CASE Disconnect(t)
    <2>1. /\ drops[t] < MaxDrops /\ drops' = [drops EXCEPT ![t] = drops[t] + 1]
          /\ connected' = [connected EXCEPT ![t] = FALSE]
          /\ leaveRoom({t})
          /\ inbox' = [inbox EXCEPT ![t] = <<>>] /\ handlers' = [handlers EXCEPT ![t] = <<>>]
          /\ replies' = [replies EXCEPT ![t] = <<>>] /\ news' = [news EXCEPT ![t] = {}]
          /\ pending' = [i \in DOMAIN pending |->
               IF pending[i].except = t THEN [pending[i] EXCEPT !.except = Nobody] ELSE pending[i]]
          /\ missed' = [missed EXCEPT ![t] = page[t] = "open"]
          /\ UNCHANGED <<dbVars, bindVars, page, visits, card, burst, asked, answers, newest, owed,
                         online, faults>>
      BY <1>4 DEF Disconnect
    <2>2. DbTypes' BY <1>0, <2>1, UnsparedTypes DEF DbTypes, dbVars
    <2>3. RoomTypes' BY <1>0, <2>1 DEF RoomTypes, leaveRoom
    <2>4. InboxTypes' /\ HandlerTypes' /\ ReplyTypes'
      BY <1>0, <2>1 DEF InboxTypes, HandlerTypes, ReplyTypes
    <2>5. WireTypes' BY <1>0, <2>1 DEF WireTypes
    <2>6. PageTypes' BY <1>0, <2>1 DEF PageTypes
    <2>7. BoundTypes'
      <3>1. drops[t] + 1 \in 0..MaxDrops BY <1>0, <2>1, RoomNumbers DEF BoundTypes
      <3> QED BY <1>0, <2>1, <3>1 DEF BoundTypes
    <2> QED BY <2>1, <2>2, <2>3, <2>4, <2>5, <2>6, <2>7, TypesKept
  <1> QED BY <1>1, <1>2, <1>3, <1>4

LEMMA PageActionTypes ==
  ASSUME TypeOK, LastVersion, NEW t \in Tabs,
         \/ Render(t) \/ Mount(t) \/ Leave(t) \/ ReceiveNews(t) \/ Reload(t) \/ ReadOrder(t)
         \/ \E v \in answers[t] : Apply(t, v)
  PROVE  TypeOK'
  <1>0. /\ DbTypes /\ RoomTypes /\ InboxTypes /\ HandlerTypes /\ ReplyTypes /\ WireTypes
        /\ BindTypes /\ PageTypes /\ BoundTypes
    BY TypesByPart
  <1>00. Version \in 1..MaxVersion /\ Version \in 0..MaxVersion /\ MaxVersion \in Nat /\ MaxVisits \in Nat
    BY RoomNumbers DEF LastVersion
  <1>1. CASE Render(t)
    <2>1. visits[t] + 1 \in 0..MaxVisits BY <1>0, <1>00, <1>1 DEF PageTypes, Render
    <2>2. PageTypes' BY <1>0, <1>00, <1>1, <2>1 DEF PageTypes, Render
    <2>3. UNCHANGED <<dbVars, pending, serverVars, wireVars, bindVars, drops, faults>> BY <1>1 DEF Render
    <2> QED BY <2>2, <2>3, TypesKept DEF serverVars, wireVars
  <1>2. CASE Mount(t)
    <2>1. /\ page' = [page EXCEPT ![t] = "open"] /\ online' = [online EXCEPT ![t] = connected[t]]
          /\ FollowRoom(t, seesRealStatus(t, card[t]))
          /\ UNCHANGED <<dbVars, pending, room, handlers, abandoned, wireVars, visits, card, missed,
                         burst, asked, answers, newest, owed, drops, faults>>
      BY <1>2 DEF Mount
    <2>2. BindTypes' /\ InboxTypes' BY <1>0, <2>1, Following
    <2>3. connected[t] \in BOOLEAN BY <1>0 DEF WireTypes
    <2>4. PageTypes' BY <1>0, <2>1, <2>3 DEF PageTypes
    <2> QED BY <2>1, <2>2, <2>4, TypesKept DEF wireVars
  <1>3. ASSUME close(t), UNCHANGED <<dbVars, pending, room, handlers, abandoned, wireVars, drops, faults>>
        PROVE  TypeOK'
    <2>1. PageTypes' /\ BindTypes' /\ InboxTypes' BY <1>0, <1>3, Closing, Following
    <2> QED BY <1>3, <2>1, TypesKept DEF wireVars
  <1>4. CASE ReceiveNews(t)
    <2>1. /\ news' = [news EXCEPT ![t] = {}] /\ burst' = [burst EXCEPT ![t] = burst[t] \/ page[t] = "open"]
          /\ UNCHANGED <<dbVars, pending, serverVars, connected, replies, bindVars, page, visits, card,
                         missed, asked, answers, newest, owed, online, drops, faults>>
      BY <1>4 DEF ReceiveNews
    <2>2. WireTypes' BY <1>0, <2>1 DEF WireTypes
    <2>3. (burst[t] \/ page[t] = "open") \in BOOLEAN BY <1>0 DEF PageTypes
    <2>4. PageTypes' BY <1>0, <2>1, <2>3 DEF PageTypes
    <2> QED BY <2>1, <2>2, <2>4, TypesKept DEF serverVars
  <1>5. CASE Reload(t)
    <2>1. /\ burst' = [burst EXCEPT ![t] = FALSE] /\ asked' = [asked EXCEPT ![t] = asked[t] + 1]
          /\ UNCHANGED <<dbVars, pending, serverVars, wireVars, bindVars, page, visits, card, missed,
                         answers, newest, owed, online, drops, faults>>
      BY <1>5 DEF Reload
    <2>2. asked[t] + 1 \in Nat BY <1>0 DEF PageTypes
    <2>3. PageTypes' BY <1>0, <2>1, <2>2 DEF PageTypes
    <2> QED BY <2>1, <2>3, TypesKept DEF serverVars, wireVars
  <1>6. CASE ReadOrder(t)
    <2>1. /\ asked[t] > 0 /\ asked' = [asked EXCEPT ![t] = asked[t] - 1]
          /\ answers' = [answers EXCEPT ![t] = answers[t] \union {Version}]
          /\ UNCHANGED <<dbVars, pending, serverVars, wireVars, bindVars, page, visits, card, missed,
                         burst, newest, owed, online, drops, faults>>
      BY <1>6 DEF ReadOrder
    <2>2. asked[t] - 1 \in Nat BY <1>0, <2>1 DEF PageTypes
    <2>3. answers[t] \union {Version} \in SUBSET (1..MaxVersion) BY <1>0, <1>00 DEF PageTypes
    <2>4. PageTypes' BY <1>0, <2>1, <2>2, <2>3 DEF PageTypes
    <2> QED BY <2>1, <2>4, TypesKept DEF serverVars, wireVars
  <1>7. ASSUME NEW v \in answers[t], Apply(t, v) PROVE TypeOK'
    <2>1. CASE close(t) BY <1>3, <1>7, <2>1 DEF Apply
    <2>2. CASE ~close(t)
      <3>1. /\ card' = [card EXCEPT ![t] = v] /\ newest' = [newest EXCEPT ![t] = larger(newest[t], v)]
            /\ answers' = [answers EXCEPT ![t] = answers[t] \ {v}]
            /\ FollowRoom(t, seesRealStatus(t, v))
            /\ UNCHANGED <<page, visits, missed, burst, asked, owed, online>>
            /\ UNCHANGED <<dbVars, pending, room, handlers, abandoned, wireVars, drops, faults>>
        BY <1>7, <2>2 DEF Apply
      <3>2. BindTypes' /\ InboxTypes' BY <1>0, <3>1, Following
      <3>3. v \in 0..MaxVersion /\ larger(newest[t], v) \in 0..MaxVersion
        BY <1>0, <1>00 DEF PageTypes, larger
      <3>4. PageTypes' BY <1>0, <3>1, <3>3 DEF PageTypes
      <3> QED BY <3>1, <3>2, <3>4, TypesKept DEF wireVars
    <2> QED BY <2>1, <2>2
  <1>8. CASE Leave(t) BY <1>3, <1>8 DEF Leave
  <1> QED BY <1>1, <1>2, <1>4, <1>5, <1>6, <1>7, <1>8

LEMMA TypesNext == TypeOK /\ LastVersion /\ [Next]_vars => TypeOK' /\ LastVersion'
  <1> SUFFICES ASSUME TypeOK, LastVersion, [Next]_vars PROVE TypeOK' /\ LastVersion'
    OBVIOUS
  <1>1. CASE Commits
    BY <1>1, TypesKept DEF Commits, serverVars, wireVars
  <1>2. ASSUME UNCHANGED dbVars PROVE LastVersion' BY <1>2 DEF LastVersion, Version, dbVars
  <1>3. CASE Dispatch BY <1>2, <1>3, DispatchTypes DEF Dispatch
  <1>4. ASSUME NEW t \in Tabs,
               \/ ReceiveSubscribe(t) \/ ReceiveUnsubscribe(t)
               \/ \E i \in DOMAIN handlers[t] :
                    CheckBefore(t, i) \/ Join(t, i) \/ CheckAfter(t, i) \/ LeaveAfterCheck(t, i)
        PROVE  TypeOK' /\ LastVersion'
    <2>1. UNCHANGED dbVars
      BY <1>4 DEF ReceiveSubscribe, ReceiveUnsubscribe, CheckBefore, Join, CheckAfter, LeaveAfterCheck
    <2> QED BY <1>2, <1>4, <2>1, GatewayTypes
  <1>5. ASSUME NEW t \in Tabs,
               \/ ReceiveReply(t) \/ (\E b \in timer[t] : RetryJoin(t, b))
               \/ Connect(t) \/ Disconnect(t)
        PROVE  TypeOK' /\ LastVersion'
    <2>1. UNCHANGED dbVars BY <1>5 DEF ReceiveReply, RetryJoin, Connect, Disconnect
    <2> QED BY <1>2, <1>5, <2>1, TabTypes
  <1>6. ASSUME NEW t \in Tabs,
               \/ Render(t) \/ Mount(t) \/ Leave(t) \/ ReceiveNews(t) \/ Reload(t) \/ ReadOrder(t)
               \/ \E v \in answers[t] : Apply(t, v)
        PROVE  TypeOK' /\ LastVersion'
    <2>1. UNCHANGED dbVars BY <1>6 DEF Render, Mount, Leave, ReceiveNews, Reload, ReadOrder, Apply
    <2> QED BY <1>2, <1>6, <2>1, PageActionTypes
  <1>7. CASE UNCHANGED vars
    BY <1>2, <1>7, TypesKept DEF vars, serverVars, wireVars
  <1> QED BY <1>1, <1>3, <1>4, <1>5, <1>6, <1>7, CommitSteps DEF Next


-----------------------------------------------------------------------------
(* Who is out, and what a step leaves of a tab *)

\* What a step that changes the database, or does not, makes of its users.
Ages ==
  /\ \A u : isOut(u) => isOut(u)'
  /\ \A u : hasHadPlace(u) => hasHadPlace(u)'

LEMMA CommitsAge ==
  ASSUME TypeOK, LastVersion, Commits
  PROVE  Ages
  <1>1. /\ stage # "gone" /\ Version \in Nat /\ Version' = Version + 1
        /\ \A v \in 1..Version : v \in 1..Version' /\ views'[v] = views[v]
    BY DEF Commits, LastVersion
  <1>2. ASSUME NEW u, isOut(u) PROVE isOut(u)'
    <2>1. PICK v \in 1..Version, w \in 1..Version : v < w /\ u \in views[v].active \ views[w].active
      BY <1>1, <1>2 DEF isOut, hasLostPlace
    <2>2. v \in 1..Version' /\ w \in 1..Version' /\ u \in views'[v].active \ views'[w].active
      BY <1>1, <2>1
    <2> QED BY <2>1, <2>2 DEF isOut, hasLostPlace
  <1>3. ASSUME NEW u, hasHadPlace(u) PROVE hasHadPlace(u)'
    <2>1. CASE u = Client BY <2>1 DEF hasHadPlace
    <2>2. CASE u # Client
      <3>1. PICK v \in 1..Version : u \in views[v].active BY <1>3, <2>2 DEF hasHadPlace
      <3>2. v \in 1..Version' /\ u \in views'[v].active BY <1>1, <3>1
      <3> QED BY <3>2 DEF hasHadPlace
    <2> QED BY <2>1, <2>2
  <1> QED BY <1>2, <1>3 DEF Ages

LEMMA NobodyAges ==
  ASSUME UNCHANGED dbVars
  PROVE  /\ \A u : isOut(u)' <=> isOut(u)
         /\ \A u : hasHadPlace(u)' <=> hasHadPlace(u)
         /\ \A u : isOrderParticipant(u)' <=> isOrderParticipant(u)
         /\ Version' = Version /\ views' = views /\ stage' = stage /\ Ages
  BY DEF Ages, isOut, hasLostPlace, hasHadPlace, isOrderParticipant, Version, dbVars

\* Who has had a place and has not lost it takes part.
LEMMA StaysTakesPart ==
  ASSUME LastVersion, NEW u, hasHadPlace(u), ~isOut(u)
  PROVE  isOrderParticipant(u)
  <1>1. stage # "gone" /\ Version \in Nat /\ Version \in 1..Version /\ views[Version].active = active
    BY DEF LastVersion, isOut
  <1>2. CASE u = Client BY <1>1, <1>2 DEF isOrderParticipant
  <1>3. CASE u # Client
    <2>1. PICK v \in 1..Version : u \in views[v].active BY <1>3 DEF hasHadPlace
    <2>2. v = Version \/ u \in views[Version].active BY <1>1, <2>1 DEF isOut, hasLostPlace
    <2> QED BY <1>1, <2>1, <2>2 DEF isOrderParticipant
  <1> QED BY <1>2, <1>3

LEMMA RealStatusHasHadPlace ==
  ASSUME NEW t, NEW v \in 1..Version, seesRealStatus(t, v)
  PROVE  hasHadPlace(Owner[t])
  BY DEF seesRealStatus, hasHadPlace

\* A step that leaves a tab's messages, answers, handlers and binding alone.
SameTab(t) ==
  /\ SameBinding(t) /\ handlers'[t] = handlers[t] /\ replies'[t] = replies[t]
  /\ connected'[t] = connected[t]

LEMMA SameTabSays ==
  ASSUME NEW t, SameTab(t)
  PROVE  /\ \A b, p : handles(t, b, p)' <=> handles(t, b, p)
         /\ \A b, a : answered(t, b, a)' <=> answered(t, b, a)
         /\ \A b : awaits(t, b)' <=> awaits(t, b)
         /\ toLeave(t)' <=> toLeave(t)
         /\ \A b : inOrder(t, b)' <=> inOrder(t, b)
         /\ \A b : inProgress(t, b)' <=> inProgress(t, b)
  BY DEF SameTab, SameBinding, handles, answered, awaits, toLeave, inOrder, inProgress, subscribe,
     unsubscribe

\* Such a tab may still be put out of the room, when its user is out.
LEMMA TabKept ==
  ASSUME NEW t \in Tabs, TabInv(t), SameTab(t), Ages,
         t \in room' => t \in room, t \in room => t \in room' \/ isOut(Owner[t])'
  PROVE  TabInv(t)'
  <1>1. (isOut(Owner[t]) => isOut(Owner[t])') /\ (hasHadPlace(Owner[t]) => hasHadPlace(Owner[t])')
    BY DEF Ages
  <1>2. /\ bound'[t] = bound[t] /\ binds'[t] = binds[t] /\ attempt'[t] = attempt[t]
        /\ timer'[t] = timer[t] /\ connected'[t] = connected[t]
    BY DEF SameTab, SameBinding
  <1>3. OnlyConnected(t)' BY <1>2, SameTabSays DEF TabInv, OnlyConnected
  <1>4. BindingsFollow(t)' BY <1>1, <1>2, SameTabSays DEF TabInv, BindingsFollow
  <1>5. LeaversAreOut(t)' BY <1>1, SameTabSays DEF TabInv, LeaversAreOut
  <1>6. ASSUME NEW b \in Binding, bound'[t] = b PROVE BindingHolds(t, b)'
    <2>1. BindingHolds(t, b) BY <1>2, <1>6 DEF TabInv
    <2>2. LeavingComesFirst(t, b)' BY <2>1, SameTabSays DEF BindingHolds, LeavingComesFirst
    <2>3. staysIn(t)' => staysIn(t) BY <1>1, <1>2 DEF staysIn
    <2>4. AdmittedIsIn(t, b)' BY <2>1, <2>3, SameTabSays DEF BindingHolds, AdmittedIsIn, staysIn
    <2>5. BoundIsIn(t, b)' BY <1>2, <2>1, <2>3, SameTabSays DEF BindingHolds, BoundIsIn, staysIn
    <2> QED BY <2>2, <2>4, <2>5 DEF BindingHolds
  <1> QED BY <1>3, <1>4, <1>5, <1>6 DEF TabInv


\* A step of one tab that leaves the database alone.
LEMMA OneTab ==
  ASSUME TabsInv, NEW t \in Tabs, UNCHANGED dbVars, TabInv(t)',
         \A u \in Tabs \ {t} : SameTab(u) /\ (u \in room' <=> u \in room)
  PROVE  TabsInv'
  <1>1. Ages BY NobodyAges
  <1>2. ASSUME NEW u \in Tabs \ {t} PROVE TabInv(u)' BY <1>1, <1>2, TabKept DEF TabsInv
  <1> QED BY <1>2 DEF TabsInv

-----------------------------------------------------------------------------
(* Tabs: the gateway *)

LEMMA SubscribeTab ==
  ASSUME TypeOK, TabsInv, NEW t \in Tabs, ReceiveSubscribe(t)
  PROVE  TabsInv'
  <1> DEFINE m == Head(inbox[t])
  <1>0. /\ InboxTypes /\ HandlerTypes /\ ReplyTypes BY TypesByPart
  <1>1. /\ connected[t] /\ inbox[t] # <<>> /\ m.kind = "subscribe"
        /\ inbox' = [inbox EXCEPT ![t] = Tail(@)]
        /\ \/ /\ handlers' = [handlers EXCEPT ![t] = Append(@, [binding |-> m.binding, phase |-> "asking"])]
              /\ UNCHANGED replies
           \/ reply(t, m.binding, "retry") /\ UNCHANGED handlers
        /\ UNCHANGED <<dbVars, room, connected, bindVars>>
    BY DEF ReceiveSubscribe
  <1>2. m \in Message BY <1>0, <1>1, MessageRead
  <1>3. PICK b \in Binding : b = m.binding /\ m = subscribe(b) BY <1>1, <1>2, MessageIs
  <1>4. /\ \A u \in Tabs \ {t} : inbox'[u] = inbox[u]
        /\ \A c : awaits(t, c)' => awaits(t, c)
        /\ \A c : awaits(t, c) => awaits(t, c)' \/ subscribe(b) = subscribe(c)
        /\ toLeave(t)' => toLeave(t)
        /\ awaits(t, b)
        /\ \A c : inOrder(t, c) => inOrder(t, c)'
        /\ inOrder(t, b) => ~toLeave(t)
    BY <1>0, <1>1, <1>3, MessageRead
  <1>5. \A c : awaits(t, c) => awaits(t, c)' \/ c = b BY <1>4, Messages
  <1>6. /\ \A u \in Tabs \ {t} : handlers'[u] = handlers[u] /\ replies'[u] = replies[u]
        /\ \A c, p : handles(t, c, p)' => handles(t, c, p) \/ (c = b /\ p = "asking")
        /\ \A c, p : handles(t, c, p) => handles(t, c, p)'
        /\ \A c, x : answered(t, c, x)' => answered(t, c, x) \/ (c = b /\ x = "retry")
        /\ \A c, x : answered(t, c, x) => answered(t, c, x)'
        /\ handles(t, b, "asking")' \/ answered(t, b, "retry")'
    <2>1. CASE /\ handlers' = [handlers EXCEPT ![t] = Append(@, [binding |-> b, phase |-> "asking"])]
               /\ UNCHANGED replies
      BY <1>0, <2>1, HandlerBegins DEF answered
    <2>2. CASE reply(t, b, "retry") /\ UNCHANGED handlers
      BY <1>0, <2>2, AnswerSent DEF handles, Answers
    <2> QED BY <1>1, <1>3, <2>1, <2>2
  <1> HIDE DEF m
  <1>7. /\ \A u : SameBinding(u) <=> inbox'[u] = inbox[u]
        /\ bound' = bound /\ binds' = binds /\ attempt' = attempt /\ timer' = timer
        /\ connected' = connected /\ room' = room
    BY <1>1 DEF bindVars, SameBinding
  <1>8. /\ isOut(Owner[t])' <=> isOut(Owner[t])
        /\ hasHadPlace(Owner[t])' <=> hasHadPlace(Owner[t])
    BY <1>1, NobodyAges
  <1>9. TabInv(t) BY DEF TabsInv
  <1>10. OnlyConnected(t)' BY <1>1, <1>7 DEF OnlyConnected
  <1>11. ASSUME NEW c \in Binding, inProgress(t, c)' PROVE inProgress(t, c) \/ c = b
    BY <1>6, <1>7, <1>11 DEF inProgress
  <1>12. BindingsFollow(t)' BY <1>4, <1>7, <1>8, <1>9, <1>11 DEF TabInv, BindingsFollow
  <1>13. LeaversAreOut(t)' BY <1>6, <1>8, <1>9 DEF TabInv, LeaversAreOut
  <1>14. ASSUME NEW c \in Binding, bound'[t] = c PROVE BindingHolds(t, c)'
    <2>1. BindingHolds(t, c) BY <1>7, <1>9, <1>14 DEF TabInv
    <2>2. LeavingComesFirst(t, c)'
      <3>1. SUFFICES ASSUME toLeave(t)' PROVE awaits(t, c)' /\ inOrder(t, c)' /\ ~inProgress(t, c)'
        BY DEF LeavingComesFirst
      <3>2. awaits(t, c) /\ inOrder(t, c) /\ ~inProgress(t, c) /\ toLeave(t)
        BY <1>4, <2>1, <3>1 DEF BindingHolds, LeavingComesFirst
      <3>3. c # b BY <1>4, <3>2
      <3> QED BY <1>4, <1>5, <1>11, <3>2, <3>3
    <2>3. AdmittedIsIn(t, c)' BY <1>6, <1>7, <1>8, <2>1 DEF BindingHolds, AdmittedIsIn, staysIn
    <2>4. BoundIsIn(t, c)' BY <1>5, <1>6, <1>7, <1>8, <2>1 DEF BindingHolds, BoundIsIn, staysIn
    <2> QED BY <2>2, <2>3, <2>4 DEF BindingHolds
  <1>15. TabInv(t)' BY <1>10, <1>12, <1>13, <1>14 DEF TabInv
  <1>16. \A u \in Tabs \ {t} : SameTab(u) /\ (u \in room' <=> u \in room)
    BY <1>4, <1>6, <1>7 DEF SameTab
  <1> QED BY <1>1, <1>15, <1>16, OneTab

LEMMA UnsubscribeTab ==
  ASSUME TypeOK, TabsInv, NEW t \in Tabs, ReceiveUnsubscribe(t)
  PROVE  TabsInv'
  <1> DEFINE m == Head(inbox[t])
  <1>0. InboxTypes BY TypesByPart
  <1>1. /\ connected[t] /\ inbox[t] # <<>> /\ m.kind = "unsubscribe"
        /\ inbox' = [inbox EXCEPT ![t] = Tail(@)]
        /\ room' = room \ {t} \/ room' = room
        /\ UNCHANGED <<dbVars, handlers, wireVars, bindVars>>
    BY DEF ReceiveUnsubscribe, leaveRoom
  <1>2. m = unsubscribe BY <1>0, <1>1, MessageRead, MessageIs
  <1>3. /\ \A u \in Tabs \ {t} : inbox'[u] = inbox[u]
        /\ \A c : awaits(t, c)' => awaits(t, c)
        /\ \A c : awaits(t, c) => awaits(t, c)'
        /\ toLeave(t) /\ \A c : inOrder(t, c) => inOrder(t, c)'
    BY <1>0, <1>1, <1>2, MessageRead, Messages
  <1> HIDE DEF m
  <1>4. /\ \A u : SameBinding(u) <=> inbox'[u] = inbox[u]
        /\ bound' = bound /\ binds' = binds /\ attempt' = attempt /\ timer' = timer
        /\ connected' = connected /\ replies' = replies /\ handlers' = handlers
    BY <1>1 DEF bindVars, wireVars, SameBinding
  <1>5. /\ \A c, p : handles(t, c, p)' <=> handles(t, c, p)
        /\ \A c, x : answered(t, c, x)' <=> answered(t, c, x)
        /\ \A c : inProgress(t, c)' <=> inProgress(t, c)
    BY <1>4 DEF handles, answered, inProgress
  <1>6. /\ isOut(Owner[t])' <=> isOut(Owner[t])
        /\ hasHadPlace(Owner[t])' <=> hasHadPlace(Owner[t])
    BY <1>1, NobodyAges
  <1>7. TabInv(t) BY DEF TabsInv
  <1>8. OnlyConnected(t)' BY <1>1, <1>4 DEF OnlyConnected
  <1>9. BindingsFollow(t)' BY <1>3, <1>4, <1>5, <1>6, <1>7 DEF TabInv, BindingsFollow
  <1>10. LeaversAreOut(t)' BY <1>5, <1>6, <1>7 DEF TabInv, LeaversAreOut
  <1>11. ASSUME NEW c \in Binding, bound'[t] = c PROVE BindingHolds(t, c)'
    <2>1. BindingHolds(t, c) BY <1>4, <1>7, <1>11 DEF TabInv
    <2>2. awaits(t, c) /\ inOrder(t, c) /\ ~inProgress(t, c)
      BY <1>3, <2>1 DEF BindingHolds, LeavingComesFirst
    <2>3. awaits(t, c)' /\ inOrder(t, c)' /\ ~inProgress(t, c)' BY <1>3, <1>5, <2>2
    <2>4. ~handles(t, c, "joined")' /\ ~answered(t, c, "ok")'
      BY <1>5, <2>2 DEF inProgress, Phases, Answers
    <2> QED BY <2>3, <2>4 DEF BindingHolds, LeavingComesFirst, AdmittedIsIn, BoundIsIn
  <1>12. TabInv(t)' BY <1>8, <1>9, <1>10, <1>11 DEF TabInv
  <1>13. \A u \in Tabs \ {t} : SameTab(u) /\ (u \in room' <=> u \in room)
    BY <1>1, <1>3, <1>4 DEF SameTab
  <1> QED BY <1>1, <1>12, <1>13, OneTab


\* A handler is at work: its socket is connected, and its user has had a place.
LEMMA Handled ==
  ASSUME TypeOK, LastVersion, TabsInv, NEW t \in Tabs, NEW i \in DOMAIN handlers[t]
  PROVE  /\ connected[t] /\ handlers[t][i].binding \in Binding /\ handlers[t][i].phase \in Phases
         /\ isOrderParticipant(Owner[t]) \/ isOut(Owner[t])
         /\ handlers[t][i].phase = "leaving" => isOut(Owner[t])
  <1>1. HandlerTypes /\ BindTypes BY TypesByPart
  <1>2. handlers[t] \in Seq(Handler) BY <1>1 DEF HandlerTypes
  <1>3. handlers[t][i] \in Handler BY <1>2, LenProperties, ElementOfSeq
  <1>4. PICK b \in Binding, p \in Phases : b = handlers[t][i].binding /\ p = handlers[t][i].phase
    BY <1>3 DEF Handler
  <1>5. handles(t, b, p) BY <1>4 DEF handles
  <1>6. TabInv(t) BY DEF TabsInv
  <1>7. connected[t] BY <1>5, <1>6 DEF TabInv, OnlyConnected, Answers
  <1>8. b <= binds[t] BY <1>5, <1>6 DEF TabInv, BindingsFollow, inProgress
  <1>9. binds[t] > 0 BY <1>1, <1>8, RoomNumbers DEF BindTypes, Binding
  <1>10. hasHadPlace(Owner[t]) BY <1>6, <1>9 DEF TabInv, BindingsFollow
  <1>11. isOrderParticipant(Owner[t]) \/ isOut(Owner[t]) BY <1>10, StaysTakesPart
  <1>12. p = "leaving" => isOut(Owner[t]) BY <1>5, <1>6 DEF TabInv, LeaversAreOut
  <1> QED BY <1>4, <1>7, <1>11, <1>12

\* A handler goes on to another phase: only of whom is out does it become "leaving", and
\* who is let in joins the room.
LEMMA PhaseStep ==
  ASSUME TypeOK, LastVersion, TabsInv, NEW t \in Tabs, NEW i \in DOMAIN handlers[t],
         NEW p \in Phases, nextPhase(t, i, p), p # "asking",
         UNCHANGED <<dbVars, inbox, connected, bindVars>>,
         \A u \in Tabs \ {t} : u \in room' <=> u \in room,
         t \in room => t \in room',
         p = "leaving" => isOut(Owner[t]),
         p = "joined" => t \in room',
         handlers[t][i].phase = "asking" => p = "admitted",
         handlers[t][i].phase = "admitted" => t \in room'
  PROVE  TabsInv'
  <1>0. HandlerTypes BY TypesByPart
  <1>1. PICK b \in Binding, q \in Phases : b = handlers[t][i].binding /\ q = handlers[t][i].phase
    BY Handled
  <1>2. connected[t] BY Handled
  <1>3. /\ \A u \in Tabs \ {t} : handlers'[u] = handlers[u]
        /\ handles(t, b, q) /\ handles(t, b, p)'
        /\ \A c, x : handles(t, c, x)' => handles(t, c, x) \/ (c = b /\ x = p)
        /\ \A c, x : handles(t, c, x) => handles(t, c, x)' \/ (c = b /\ x = q)
    BY <1>0, <1>1, HandlerMoves
  <1>4. /\ bound' = bound /\ binds' = binds /\ attempt' = attempt /\ timer' = timer
        /\ connected' = connected /\ replies' = replies /\ inbox' = inbox
        /\ \A u : SameBinding(u)
    BY DEF bindVars, SameBinding, nextPhase
  <1>5. /\ \A c : awaits(t, c)' <=> awaits(t, c)
        /\ toLeave(t)' <=> toLeave(t)
        /\ \A c : inOrder(t, c)' <=> inOrder(t, c)
        /\ \A c, x : answered(t, c, x)' <=> answered(t, c, x)
    BY <1>4 DEF awaits, toLeave, inOrder, answered, subscribe, unsubscribe
  <1>6. ASSUME NEW c \in Binding, inProgress(t, c)' PROVE inProgress(t, c)
    BY <1>3, <1>4, <1>5, <1>6 DEF inProgress
  <1>7. /\ isOut(Owner[t])' <=> isOut(Owner[t])
        /\ hasHadPlace(Owner[t])' <=> hasHadPlace(Owner[t])
    BY NobodyAges
  <1>8. TabInv(t) BY DEF TabsInv
  <1>9. OnlyConnected(t)' BY <1>2, <1>4 DEF OnlyConnected
  <1>10. BindingsFollow(t)' BY <1>4, <1>5, <1>6, <1>7, <1>8 DEF TabInv, BindingsFollow
  <1>11. LeaversAreOut(t)' BY <1>3, <1>7, <1>8 DEF TabInv, LeaversAreOut
  <1>12. ASSUME NEW c \in Binding, bound'[t] = c PROVE BindingHolds(t, c)'
    <2>1. BindingHolds(t, c) BY <1>4, <1>8, <1>12 DEF TabInv
    <2>2. LeavingComesFirst(t, c)' BY <1>5, <1>6, <2>1 DEF BindingHolds, LeavingComesFirst
    <2>3. AdmittedIsIn(t, c)'
      BY <1>3, <1>4, <1>5, <1>7, <2>1 DEF BindingHolds, AdmittedIsIn, staysIn
    <2>4. BoundIsIn(t, c)'
      BY <1>1, <1>3, <1>4, <1>5, <1>7, <2>1 DEF BindingHolds, BoundIsIn, staysIn
    <2> QED BY <2>2, <2>3, <2>4 DEF BindingHolds
  <1>13. TabInv(t)' BY <1>9, <1>10, <1>11, <1>12 DEF TabInv
  <1>14. \A u \in Tabs \ {t} : SameTab(u) /\ (u \in room' <=> u \in room)
    BY <1>3, <1>4 DEF SameTab
  <1> QED BY <1>13, <1>14, OneTab

\* A handler answers: "ok" after the second check only, and before it "retry" unless its
\* user is out.
LEMMA EndStep ==
  ASSUME TypeOK, LastVersion, TabsInv, NEW t \in Tabs, NEW i \in DOMAIN handlers[t],
         NEW a \in Answers, finish(t, i, a),
         UNCHANGED <<dbVars, inbox, connected, bindVars>>,
         \A u \in Tabs \ {t} : u \in room' <=> u \in room,
         t \in room => t \in room' \/ isOut(Owner[t]),
         a = "ok" => handlers[t][i].phase = "joined",
         handlers[t][i].phase \in {"asking", "admitted"} => a = "retry" \/ isOut(Owner[t])
  PROVE  TabsInv'
  <1>0. HandlerTypes /\ ReplyTypes BY TypesByPart
  <1>1. PICK b \in Binding, q \in Phases : b = handlers[t][i].binding /\ q = handlers[t][i].phase
    BY Handled
  <1>2. connected[t] BY Handled
  <1>3. /\ \A u \in Tabs \ {t} : handlers'[u] = handlers[u]
        /\ handles(t, b, q)
        /\ \A c, x : handles(t, c, x)' => handles(t, c, x)
        /\ \A c, x : handles(t, c, x) => handles(t, c, x)' \/ (c = b /\ x = q)
    BY <1>0, <1>1, HandlerEnds DEF finish
  <1>4. /\ bound' = bound /\ binds' = binds /\ attempt' = attempt /\ timer' = timer
        /\ connected' = connected /\ inbox' = inbox
        /\ \A u : SameBinding(u)
    BY DEF bindVars, SameBinding
  <1>5. /\ \A c : awaits(t, c)' <=> awaits(t, c)
        /\ toLeave(t)' <=> toLeave(t)
        /\ \A c : inOrder(t, c)' <=> inOrder(t, c)
    BY <1>4 DEF awaits, toLeave, inOrder, subscribe, unsubscribe
  <1>51. /\ \A u \in Tabs \ {t} : replies'[u] = replies[u]
         /\ \A c, x : answered(t, c, x)' <=> answered(t, c, x) \/ (c = b /\ x = a)
    BY <1>0, <1>1, AnswerSent DEF finish
  <1>6. ASSUME NEW c \in Binding, inProgress(t, c)' PROVE inProgress(t, c)
    BY <1>3, <1>4, <1>51, <1>6 DEF inProgress
  <1>7. /\ isOut(Owner[t])' <=> isOut(Owner[t])
        /\ hasHadPlace(Owner[t])' <=> hasHadPlace(Owner[t])
    BY NobodyAges
  <1>8. TabInv(t) BY DEF TabsInv
  <1>9. OnlyConnected(t)' BY <1>2, <1>4 DEF OnlyConnected
  <1>10. BindingsFollow(t)' BY <1>4, <1>5, <1>6, <1>7, <1>8 DEF TabInv, BindingsFollow
  <1>11. LeaversAreOut(t)' BY <1>3, <1>7, <1>8 DEF TabInv, LeaversAreOut
  <1>12. ASSUME NEW c \in Binding, bound'[t] = c PROVE BindingHolds(t, c)'
    <2>1. BindingHolds(t, c) BY <1>4, <1>8, <1>12 DEF TabInv
    <2>2. LeavingComesFirst(t, c)' BY <1>5, <1>6, <2>1 DEF BindingHolds, LeavingComesFirst
    <2>3. AdmittedIsIn(t, c)'
      BY <1>1, <1>3, <1>4, <1>51, <1>7, <2>1 DEF BindingHolds, AdmittedIsIn, staysIn
    <2>4. BoundIsIn(t, c)'
      BY <1>1, <1>3, <1>4, <1>5, <1>51, <1>7, <2>1 DEF BindingHolds, BoundIsIn, staysIn
    <2> QED BY <2>2, <2>3, <2>4 DEF BindingHolds
  <1>13. TabInv(t)' BY <1>9, <1>10, <1>11, <1>12 DEF TabInv
  <1>14. \A u \in Tabs \ {t} : SameTab(u) /\ (u \in room' <=> u \in room)
    BY <1>3, <1>4, <1>51 DEF SameTab
  <1> QED BY <1>13, <1>14, OneTab

LEMMA HandlerTab ==
  ASSUME TypeOK, LastVersion, TabsInv, NEW t \in Tabs, NEW i \in DOMAIN handlers[t],
         CheckBefore(t, i) \/ Join(t, i) \/ CheckAfter(t, i) \/ LeaveAfterCheck(t, i)
  PROVE  TabsInv'
  <1>0. /\ {"retry", "ok", "forbidden"} \subseteq Answers
        /\ {"admitted", "joined", "leaving"} \subseteq Phases
    BY DEF Answers, Phases
  <1>1. isOrderParticipant(Owner[t]) \/ isOut(Owner[t]) BY Handled
  <1>2. CASE CheckBefore(t, i)
    <2>1. /\ handlers[t][i].phase = "asking"
          /\ \/ nextPhase(t, i, "admitted")
             \/ finish(t, i, "forbidden") /\ ~isOrderParticipant(Owner[t])
             \/ finish(t, i, "retry")
          /\ UNCHANGED <<dbVars, inbox, connected, bindVars>> /\ room' = room
      BY <1>2 DEF CheckBefore
    <2> QED BY <1>0, <1>1, <2>1, PhaseStep, EndStep
  <1>3. CASE Join(t, i)
    <2>1. /\ handlers[t][i].phase = "admitted" /\ nextPhase(t, i, "joined")
          /\ UNCHANGED <<dbVars, inbox, connected, bindVars>> /\ room' = room \union {t}
      BY <1>3 DEF Join
    <2> QED BY <1>0, <2>1, PhaseStep
  <1>4. CASE CheckAfter(t, i)
    <2>1. /\ handlers[t][i].phase = "joined"
          /\ \/ nextPhase(t, i, "leaving") /\ ~isOrderParticipant(Owner[t])
             \/ finish(t, i, "ok") \/ finish(t, i, "retry")
          /\ UNCHANGED <<dbVars, inbox, connected, bindVars>> /\ room' = room
      BY <1>4 DEF CheckAfter
    <2> QED BY <1>0, <1>1, <2>1, PhaseStep, EndStep
  <1>5. CASE LeaveAfterCheck(t, i)
    <2>1. /\ handlers[t][i].phase = "leaving" /\ finish(t, i, "forbidden")
          /\ UNCHANGED <<dbVars, inbox, connected, bindVars>> /\ room' = room \ {t}
      BY <1>5 DEF LeaveAfterCheck, leaveRoom
    <2>2. isOut(Owner[t]) BY <2>1, Handled
    <2> QED BY <1>0, <2>1, <2>2, EndStep
  <1> QED BY <1>2, <1>3, <1>4, <1>5


-----------------------------------------------------------------------------
(* Tabs: the page's binding and its connection *)

LEMMA ReplyTab ==
  ASSUME TypeOK, TabsInv, NEW t \in Tabs, ReceiveReply(t)
  PROVE  TabsInv'
  <1> DEFINE r == Head(replies[t])
  <1>0. ReplyTypes /\ BindTypes BY TypesByPart
  <1>1. /\ connected[t] /\ replies[t] # <<>> /\ replies' = [replies EXCEPT ![t] = Tail(@)]
        /\ \/ r.answer = "ok" /\ attempt' = [attempt EXCEPT ![t][r.binding] = 0] /\ UNCHANGED timer
           \/ /\ r.answer = "retry"
              /\ attempt' = [attempt EXCEPT ![t][r.binding] = attempt[t][r.binding] + 1]
              /\ timer' = [timer EXCEPT ![t] = timer[t] \union {r.binding}]
           \/ /\ r.answer = "forbidden" \/ (r.answer = "retry" /\ attempt[t][r.binding] >= Retries)
              /\ UNCHANGED <<attempt, timer>>
        /\ UNCHANGED <<dbVars, room, inbox, handlers, connected, bound, binds>>
    BY DEF ReceiveReply, serverVars
  <1>2. r.binding \in Binding /\ r.answer \in Answers BY <1>0, <1>1, AnswerRead
  <1>3. PICK b \in Binding, a \in Answers : b = r.binding /\ a = r.answer BY <1>2
  <1>4. /\ \A u \in Tabs \ {t} : replies'[u] = replies[u]
        /\ answered(t, b, a)
        /\ \A c, x : answered(t, c, x)' => answered(t, c, x)
        /\ \A c, x : answered(t, c, x) => answered(t, c, x)' \/ (c = b /\ x = a)
    BY <1>0, <1>1, <1>3, AnswerRead
  <1> HIDE DEF r
  <1>5. /\ \A u \in Tabs \ {t} : attempt'[u] = attempt[u] /\ timer'[u] = timer[u]
        /\ \A c \in Binding \ {b} : attempt'[t][c] = attempt[t][c]
        /\ timer'[t] \subseteq timer[t] \union {b} /\ timer[t] \subseteq timer'[t]
        /\ a = "retry" => b \in timer'[t] \/ (attempt'[t] = attempt[t] /\ attempt[t][b] >= Retries)
        /\ a = "forbidden" => attempt'[t] = attempt[t]
    <2>1. attempt \in [Tabs -> [Binding -> 0..Retries]] /\ timer \in [Tabs -> SUBSET Binding]
      BY <1>0 DEF BindTypes
    <2> QED BY <1>1, <1>3, <2>1
  <1>6. a = "retry" => b \in timer'[t] \/ attempt'[t][b] = Retries
    <2>1. attempt[t][b] \in 0..Retries /\ Retries \in Nat BY <1>0, RoomNumbers DEF BindTypes
    <2> QED BY <1>5, <2>1
  <1>7. /\ bound' = bound /\ binds' = binds /\ connected' = connected /\ inbox' = inbox
        /\ handlers' = handlers /\ room' = room
    BY <1>1
  <1>8. /\ \A c : awaits(t, c)' <=> awaits(t, c)
        /\ toLeave(t)' <=> toLeave(t)
        /\ \A c : inOrder(t, c)' <=> inOrder(t, c)
        /\ \A c, x : handles(t, c, x)' <=> handles(t, c, x)
    BY <1>7 DEF awaits, toLeave, inOrder, handles, subscribe, unsubscribe
  <1>9. ASSUME NEW c \in Binding, inProgress(t, c)' PROVE inProgress(t, c)
    BY <1>4, <1>5, <1>8, <1>9 DEF inProgress
  <1>10. /\ isOut(Owner[t])' <=> isOut(Owner[t])
         /\ hasHadPlace(Owner[t])' <=> hasHadPlace(Owner[t])
    BY <1>1, NobodyAges
  <1>11. TabInv(t) BY DEF TabsInv
  <1>12. OnlyConnected(t)' BY <1>1, <1>7 DEF OnlyConnected
  <1>13. BindingsFollow(t)' BY <1>7, <1>8, <1>9, <1>10, <1>11 DEF TabInv, BindingsFollow
  <1>14. LeaversAreOut(t)' BY <1>8, <1>10, <1>11 DEF TabInv, LeaversAreOut
  <1>15. ASSUME NEW c \in Binding, bound'[t] = c PROVE BindingHolds(t, c)'
    <2>1. BindingHolds(t, c) BY <1>7, <1>11, <1>15 DEF TabInv
    <2>2. LeavingComesFirst(t, c)' BY <1>8, <1>9, <2>1 DEF BindingHolds, LeavingComesFirst
    <2>3. staysIn(t)' <=> staysIn(t) BY <1>7, <1>10 DEF staysIn
    <2>4. AdmittedIsIn(t, c)' BY <1>4, <1>7, <1>8, <2>1, <2>3 DEF BindingHolds, AdmittedIsIn
    <2>5. BoundIsIn(t, c)'
      <3>1. CASE c # b
        <4>1. attempt'[t][c] = attempt[t][c] /\ (c \in timer[t] => c \in timer'[t]) BY <1>5, <3>1
        <4>2. answered(t, c, "retry") => answered(t, c, "retry")' BY <1>4, <3>1
        <4> QED BY <1>7, <1>8, <2>1, <2>3, <4>1, <4>2 DEF BindingHolds, BoundIsIn
      <3>2. CASE c = b /\ a = "ok"
        BY <1>4, <1>7, <2>1, <2>3, <3>2 DEF BindingHolds, AdmittedIsIn, BoundIsIn
      <3>3. CASE c = b /\ a = "retry" BY <1>6, <3>3 DEF BoundIsIn
      <3>4. CASE c = b /\ a = "forbidden"
        <4>1. attempt'[t][c] = attempt[t][c] /\ (c \in timer[t] => c \in timer'[t]) BY <1>5, <3>4
        <4>2. answered(t, c, "retry") => answered(t, c, "retry")' BY <1>4, <3>4
        <4> QED BY <1>7, <1>8, <2>1, <2>3, <4>1, <4>2 DEF BindingHolds, BoundIsIn
      <3> QED BY <3>1, <3>2, <3>3, <3>4 DEF Answers
    <2> QED BY <2>2, <2>4, <2>5 DEF BindingHolds
  <1>16. TabInv(t)' BY <1>12, <1>13, <1>14, <1>15 DEF TabInv
  <1>17. \A u \in Tabs \ {t} : SameTab(u) /\ (u \in room' <=> u \in room)
    BY <1>4, <1>5, <1>7 DEF SameTab, SameBinding
  <1> QED BY <1>1, <1>16, <1>17, OneTab

LEMMA RetryTab ==
  ASSUME TypeOK, TabsInv, NEW t \in Tabs, NEW b \in timer[t], RetryJoin(t, b)
  PROVE  TabsInv'
  <1>0. InboxTypes /\ BindTypes BY TypesByPart
  <1>1. /\ timer' = [timer EXCEPT ![t] = timer[t] \ {b}] /\ send(t, subscribe(b))
        /\ UNCHANGED <<dbVars, room, handlers, wireVars, bound, binds, attempt>>
    BY DEF RetryJoin
  <1>2. b \in Binding BY <1>0 DEF BindTypes
  <1>3. /\ \A u \in Tabs \ {t} : inbox'[u] = inbox[u]
        /\ \A c : awaits(t, c)' <=> awaits(t, c) \/ subscribe(b) = subscribe(c)
        /\ toLeave(t)' <=> toLeave(t)
        /\ \A c : inOrder(t, c) => inOrder(t, c)'
    <2>1. subscribe(b) \in Message /\ subscribe(b) # unsubscribe BY <1>2, Messages
    <2> QED BY <1>0, <1>1, <2>1, MessageSent
  <1>4. \A c : awaits(t, c)' <=> awaits(t, c) \/ c = b BY <1>3, Messages
  <1>5. timer'[t] = timer[t] \ {b} /\ \A u \in Tabs \ {t} : timer'[u] = timer[u]
    BY <1>0, <1>1 DEF BindTypes
  <1>6. /\ bound' = bound /\ binds' = binds /\ connected' = connected /\ attempt' = attempt
        /\ handlers' = handlers /\ replies' = replies /\ room' = room
    BY <1>1 DEF wireVars
  <1>7. /\ \A c, x : handles(t, c, x)' <=> handles(t, c, x)
        /\ \A c, x : answered(t, c, x)' <=> answered(t, c, x)
    BY <1>6 DEF handles, answered
  <1>8. ASSUME NEW c \in Binding, inProgress(t, c)' PROVE inProgress(t, c)
    BY <1>5, <1>7, <1>8 DEF inProgress
  <1>9. /\ isOut(Owner[t])' <=> isOut(Owner[t])
        /\ hasHadPlace(Owner[t])' <=> hasHadPlace(Owner[t])
    BY <1>1, NobodyAges
  <1>10. TabInv(t) /\ inProgress(t, b) BY DEF TabsInv, inProgress
  <1>11. OnlyConnected(t)' BY <1>3, <1>6, <1>7, <1>10 DEF TabInv, OnlyConnected
  <1>12. BindingsFollow(t)' BY <1>2, <1>4, <1>6, <1>8, <1>9, <1>10 DEF TabInv, BindingsFollow
  <1>13. LeaversAreOut(t)' BY <1>7, <1>9, <1>10 DEF TabInv, LeaversAreOut
  <1>14. ASSUME NEW c \in Binding, bound'[t] = c PROVE BindingHolds(t, c)'
    <2>1. BindingHolds(t, c) BY <1>6, <1>10, <1>14 DEF TabInv
    <2>2. LeavingComesFirst(t, c)'
      BY <1>3, <1>4, <1>8, <1>10, <2>1 DEF BindingHolds, LeavingComesFirst
    <2>3. AdmittedIsIn(t, c)' BY <1>6, <1>7, <1>9, <2>1 DEF BindingHolds, AdmittedIsIn, staysIn
    <2>4. c \in timer[t] => c \in timer'[t] \/ awaits(t, c)' BY <1>4, <1>5
    <2>5. BoundIsIn(t, c)' BY <1>4, <1>6, <1>7, <1>9, <2>1, <2>4 DEF BindingHolds, BoundIsIn, staysIn
    <2> QED BY <2>2, <2>3, <2>5 DEF BindingHolds
  <1>15. TabInv(t)' BY <1>11, <1>12, <1>13, <1>14 DEF TabInv
  <1>16. \A u \in Tabs \ {t} : SameTab(u) /\ (u \in room' <=> u \in room)
    BY <1>3, <1>5, <1>6 DEF SameTab, SameBinding
  <1> QED BY <1>1, <1>15, <1>16, OneTab

LEMMA ConnectTab ==
  ASSUME TypeOK, TabsInv, NEW t \in Tabs, Connect(t)
  PROVE  TabsInv'
  <1>0. InboxTypes /\ BindTypes /\ WireTypes BY TypesByPart
  <1>1. /\ ~connected[t] /\ connected' = [connected EXCEPT ![t] = TRUE] /\ Rejoin(t)
        /\ UNCHANGED <<dbVars, room, handlers, replies, bound, binds>>
    BY DEF Connect
  <1>2. connected'[t] /\ \A u \in Tabs \ {t} : connected'[u] = connected[u]
    BY <1>0, <1>1 DEF WireTypes
  <1>3. TabInv(t) /\ ~toLeave(t) BY <1>1 DEF TabsInv, TabInv, OnlyConnected
  <1>4. /\ \A c, x : handles(t, c, x)' <=> handles(t, c, x)
        /\ \A c, x : answered(t, c, x)' <=> answered(t, c, x)
    BY <1>1 DEF handles, answered
  <1>5. /\ isOut(Owner[t])' <=> isOut(Owner[t])
        /\ hasHadPlace(Owner[t])' <=> hasHadPlace(Owner[t])
    BY <1>1, NobodyAges
  <1>6. OnlyConnected(t)' BY <1>2 DEF OnlyConnected
  <1>7. LeaversAreOut(t)' BY <1>3, <1>4, <1>5 DEF TabInv, LeaversAreOut
  <1>8. CASE bound[t] = 0
    <2>1. UNCHANGED <<inbox, attempt, timer>> BY <1>1, <1>8 DEF Rejoin
    <2>2. \A c : awaits(t, c)' <=> awaits(t, c) BY <2>1 DEF awaits, subscribe
    <2>3. \A c : inProgress(t, c)' <=> inProgress(t, c) BY <1>4, <2>1 DEF inProgress
    <2>4. BindingsFollow(t)' BY <1>1, <1>3, <1>5, <2>2, <2>3 DEF TabInv, BindingsFollow
    <2>5. \A c \in Binding : bound'[t] # c BY <1>1, <1>8, RoomNumbers DEF Binding
    <2>6. TabInv(t)' BY <1>6, <1>7, <2>4, <2>5 DEF TabInv
    <2>7. \A u \in Tabs \ {t} : SameTab(u) /\ (u \in room' <=> u \in room)
      BY <1>1, <1>2, <2>1 DEF SameTab, SameBinding
    <2> QED BY <1>1, <2>6, <2>7, OneTab
  <1>9. CASE bound[t] # 0
    <2>1. PICK b \in Binding : b = bound[t] BY <1>0, <1>9, RoomNumbers DEF BindTypes, Binding
    <2>2. /\ send(t, subscribe(b)) /\ attempt' = [attempt EXCEPT ![t][b] = 0]
          /\ timer' = [timer EXCEPT ![t] = timer[t] \ {b}]
      BY <1>1, <1>9, <2>1 DEF Rejoin
    <2>3. /\ \A u \in Tabs \ {t} : inbox'[u] = inbox[u]
          /\ \A c : awaits(t, c)' <=> awaits(t, c) \/ subscribe(b) = subscribe(c)
          /\ ~toLeave(t)'
      <3>1. subscribe(b) \in Message /\ subscribe(b) # unsubscribe BY Messages
      <3> QED BY <1>0, <1>3, <2>2, <3>1, MessageSent
    <2>4. \A c : awaits(t, c)' <=> awaits(t, c) \/ c = b BY <2>3, Messages
    <2>5. /\ timer'[t] = timer[t] \ {b}
          /\ \A u \in Tabs \ {t} : timer'[u] = timer[u] /\ attempt'[u] = attempt[u]
      BY <1>0, <2>2 DEF BindTypes
    <2>6. ASSUME NEW c \in Binding, inProgress(t, c)' PROVE inProgress(t, c)
      BY <1>4, <2>5, <2>6 DEF inProgress
    <2>7. BindingsFollow(t)' BY <1>1, <1>3, <1>5, <2>1, <2>4, <2>6 DEF TabInv, BindingsFollow
    <2>8. ASSUME NEW c \in Binding, bound'[t] = c PROVE BindingHolds(t, c)'
      <3>1. c = b BY <1>1, <2>1, <2>8
      <3>2. LeavingComesFirst(t, c)' /\ BoundIsIn(t, c)'
        BY <2>3, <2>4, <3>1 DEF LeavingComesFirst, BoundIsIn
      <3>3. ~handles(t, c, "joined")' /\ ~answered(t, c, "ok")'
        BY <1>1, <1>3, <1>4 DEF TabInv, OnlyConnected, Phases, Answers
      <3>4. AdmittedIsIn(t, c)' BY <3>3 DEF AdmittedIsIn
      <3> QED BY <3>2, <3>4 DEF BindingHolds
    <2>9. TabInv(t)' BY <1>6, <1>7, <2>7, <2>8 DEF TabInv
    <2>10. \A u \in Tabs \ {t} : SameTab(u) /\ (u \in room' <=> u \in room)
      BY <1>1, <1>2, <2>3, <2>5 DEF SameTab, SameBinding
    <2> QED BY <1>1, <2>9, <2>10, OneTab
  <1> QED BY <1>8, <1>9

LEMMA DisconnectTab ==
  ASSUME TypeOK, TabsInv, NEW t \in Tabs, Disconnect(t)
  PROVE  TabsInv'
  <1>0. /\ InboxTypes /\ HandlerTypes /\ ReplyTypes /\ WireTypes BY TypesByPart
  <1>1. /\ connected' = [connected EXCEPT ![t] = FALSE]
        /\ room' = room \ {t}
        /\ inbox' = [inbox EXCEPT ![t] = <<>>] /\ handlers' = [handlers EXCEPT ![t] = <<>>]
        /\ replies' = [replies EXCEPT ![t] = <<>>]
        /\ UNCHANGED <<dbVars, bindVars>>
    BY DEF Disconnect, leaveRoom
  <1>2. /\ ~connected'[t] /\ inbox'[t] = <<>> /\ handlers'[t] = <<>> /\ replies'[t] = <<>>
        /\ \A u \in Tabs \ {t} : /\ connected'[u] = connected[u] /\ inbox'[u] = inbox[u]
                                 /\ handlers'[u] = handlers[u] /\ replies'[u] = replies[u]
    BY <1>0, <1>1 DEF InboxTypes, HandlerTypes, ReplyTypes, WireTypes
  <1>3. bound' = bound /\ binds' = binds /\ attempt' = attempt /\ timer' = timer
    BY <1>1 DEF bindVars
  <1>4. DOMAIN <<>> = {} OBVIOUS
  <1>5. /\ \A c, x : ~handles(t, c, x)'
        /\ \A c, x : ~answered(t, c, x)'
        /\ \A c : ~awaits(t, c)'
        /\ ~toLeave(t)'
    BY <1>2, <1>4 DEF handles, answered, awaits, toLeave, subscribe, unsubscribe
  <1>6. /\ isOut(Owner[t])' <=> isOut(Owner[t])
        /\ hasHadPlace(Owner[t])' <=> hasHadPlace(Owner[t])
    BY <1>1, NobodyAges
  <1>7. TabInv(t) BY DEF TabsInv
  <1>8. OnlyConnected(t)' BY <1>1, <1>5 DEF OnlyConnected
  <1>9. BindingsFollow(t)' BY <1>3, <1>5, <1>6, <1>7 DEF TabInv, BindingsFollow, inProgress
  <1>10. LeaversAreOut(t)' BY <1>5 DEF LeaversAreOut
  <1>11. ASSUME NEW c \in Binding PROVE BindingHolds(t, c)'
    BY <1>2, <1>5 DEF BindingHolds, LeavingComesFirst, AdmittedIsIn, BoundIsIn, staysIn
  <1>12. TabInv(t)' BY <1>8, <1>9, <1>10, <1>11 DEF TabInv
  <1>13. \A u \in Tabs \ {t} : SameTab(u) /\ (u \in room' <=> u \in room)
    BY <1>1, <1>2, <1>3 DEF SameTab, SameBinding
  <1> QED BY <1>1, <1>12, <1>13, OneTab


LEMMA FollowTab ==
  ASSUME TypeOK, TabsInv, NEW t \in Tabs, NEW enabled, FollowRoom(t, enabled),
         enabled => hasHadPlace(Owner[t]),
         UNCHANGED <<dbVars, room, handlers, connected, replies>>
  PROVE  TabsInv'
  <1>0. InboxTypes /\ BindTypes BY TypesByPart
  <1>1. /\ \A u \in Tabs \ {t} : SameBinding(u)
        /\ SameBinding(t) \/ (enabled /\ Binds(t)) \/ Unbinds(t)
    BY <1>0, Following
  <1>2. /\ \A u \in Tabs \ {t} : SameTab(u) /\ (u \in room' <=> u \in room)
        /\ SameBinding(t) => SameTab(t)
    BY <1>1 DEF SameTab
  <1>3. TabInv(t) BY DEF TabsInv
  <1>4. /\ connected' = connected /\ room' = room
        /\ \A c, x : handles(t, c, x)' <=> handles(t, c, x)
        /\ \A c, x : answered(t, c, x)' <=> answered(t, c, x)
    BY DEF handles, answered
  <1>5. /\ isOut(Owner[t])' <=> isOut(Owner[t])
        /\ hasHadPlace(Owner[t])' <=> hasHadPlace(Owner[t])
    BY NobodyAges
  <1>6. LeaversAreOut(t)' BY <1>3, <1>4, <1>5 DEF TabInv, LeaversAreOut
  <1>7. CASE SameBinding(t)
    <2>1. TabInv(t)' BY <1>2, <1>3, <1>4, <1>7, NobodyAges, TabKept
    <2> QED BY <1>2, <2>1, OneTab
  <1>8. CASE enabled /\ Binds(t)
    <2>1. /\ bound'[t] = binds[t] + 1 /\ binds'[t] = binds[t] + 1 /\ bound'[t] \in Binding
          /\ attempt'[t] = attempt[t] /\ timer'[t] = timer[t]
          /\ IF connected[t] THEN send(t, subscribe(binds[t] + 1)) ELSE inbox' = inbox
      BY <1>8 DEF Binds
    <2>2. PICK b \in Binding : b = bound'[t] /\ b = binds[t] + 1 BY <2>1
    <2>3. binds[t] \in Nat BY <1>0 DEF BindTypes
    <2>4. \A c \in Binding : inProgress(t, c) \/ awaits(t, c) => c <= binds[t]
      BY <1>3 DEF TabInv, BindingsFollow
    <2>5. ~inProgress(t, b) /\ ~awaits(t, b) BY <2>2, <2>3, <2>4
    <2>6. /\ \A c : awaits(t, c)' => awaits(t, c) \/ c = b
          /\ toLeave(t)' <=> toLeave(t)
          /\ inOrder(t, b)' /\ (connected[t] => awaits(t, b)')
      <3>1. CASE connected[t]
        <4>1. send(t, subscribe(b)) BY <2>1, <2>2, <3>1
        <4>2. subscribe(b) \in Message /\ subscribe(b) # unsubscribe BY Messages
        <4>3. /\ \A c : awaits(t, c)' <=> awaits(t, c) \/ subscribe(b) = subscribe(c)
              /\ toLeave(t)' <=> toLeave(t)
              /\ inOrder(t, b)'
          BY <1>0, <2>5, <4>1, <4>2, MessageSent
        <4> QED BY <4>3, Messages
      <3>2. CASE ~connected[t]
        <4>1. inbox' = inbox BY <2>1, <3>2
        <4>2. /\ \A c : awaits(t, c)' <=> awaits(t, c)
              /\ toLeave(t)' <=> toLeave(t)
              /\ inOrder(t, b)' <=> inOrder(t, b)
          BY <4>1 DEF awaits, toLeave, inOrder, subscribe, unsubscribe
        <4>3. inOrder(t, b) BY <2>5 DEF inOrder, awaits
        <4> QED BY <3>2, <4>2, <4>3
      <3> QED BY <3>1, <3>2
    <2>7. \A c : inProgress(t, c)' <=> inProgress(t, c) BY <1>4, <2>1 DEF inProgress
    <2>8. OnlyConnected(t)' BY <1>3, <1>4, <2>6 DEF TabInv, OnlyConnected
    <2>9. BindingsFollow(t)'
      <3>1. \A c \in Binding : inProgress(t, c)' \/ awaits(t, c)' => c <= binds'[t]
        BY <2>1, <2>2, <2>3, <2>4, <2>6, <2>7 DEF Binding
      <3>2. bound'[t] <= binds'[t] BY <2>1, <2>3
      <3> QED BY <1>5, <1>8, <3>1, <3>2 DEF BindingsFollow
    <2>10. ASSUME NEW c \in Binding, bound'[t] = c PROVE BindingHolds(t, c)'
      <3>1. c = b BY <2>2, <2>10
      <3>2. toLeave(t) => connected[t] BY <1>3 DEF TabInv, OnlyConnected
      <3>3. LeavingComesFirst(t, c)' BY <2>5, <2>6, <2>7, <3>1, <3>2 DEF LeavingComesFirst
      <3>4. ~handles(t, c, "joined")' /\ ~answered(t, c, "ok")'
        BY <1>4, <2>5, <3>1 DEF inProgress, Phases, Answers
      <3>5. AdmittedIsIn(t, c)' BY <3>4 DEF AdmittedIsIn
      <3>6. BoundIsIn(t, c)' BY <1>4, <2>6, <3>1 DEF BoundIsIn, staysIn
      <3> QED BY <3>3, <3>5, <3>6 DEF BindingHolds
    <2>11. TabInv(t)' BY <1>6, <2>8, <2>9, <2>10 DEF TabInv
    <2> QED BY <1>2, <2>11, OneTab
  <1>9. CASE Unbinds(t)
    <2>1. /\ bound'[t] = 0 /\ binds'[t] = binds[t] /\ timer'[t] \subseteq timer[t]
          /\ IF connected[t] THEN send(t, unsubscribe) ELSE inbox' = inbox
      BY <1>9 DEF Unbinds
    <2>2. /\ \A c : awaits(t, c)' <=> awaits(t, c)
          /\ ~connected[t] => (toLeave(t)' <=> toLeave(t))
      <3>1. CASE connected[t]
        BY <1>0, <2>1, <3>1, Messages, MessageSent
      <3>2. CASE ~connected[t]
        BY <2>1, <3>2 DEF awaits, toLeave, subscribe, unsubscribe
      <3> QED BY <3>1, <3>2
    <2>3. ASSUME NEW c \in Binding, inProgress(t, c)' PROVE inProgress(t, c)
      BY <1>4, <2>1, <2>3 DEF inProgress
    <2>4. OnlyConnected(t)' BY <1>3, <1>4, <2>2 DEF TabInv, OnlyConnected
    <2>5. binds[t] \in Nat BY <1>0 DEF BindTypes
    <2>6. BindingsFollow(t)' BY <1>3, <1>5, <2>1, <2>2, <2>3, <2>5 DEF TabInv, BindingsFollow
    <2>7. \A c \in Binding : bound'[t] # c BY <2>1, RoomNumbers DEF Binding
    <2>8. TabInv(t)' BY <1>6, <2>4, <2>6, <2>7 DEF TabInv
    <2> QED BY <1>2, <2>8, OneTab
  <1> QED BY <1>1, <1>7, <1>8, <1>9

LEMMA PageTab ==
  ASSUME TypeOK, LastVersion, PagesFollow, TabsInv, NEW t \in Tabs,
         \/ Render(t) \/ Mount(t) \/ Leave(t) \/ ReceiveNews(t) \/ Reload(t) \/ ReadOrder(t)
         \/ \E v \in answers[t] : Apply(t, v)
  PROVE  TabsInv'
  <1>1. ASSUME UNCHANGED <<dbVars, serverVars, connected, replies, bindVars>> PROVE TabsInv'
    <2>1. \A u \in Tabs : SameTab(u) /\ (u \in room' <=> u \in room)
      BY <1>1 DEF serverVars, bindVars, SameTab, SameBinding
    <2>2. TabInv(t)' BY <1>1, <2>1, NobodyAges, TabKept DEF TabsInv
    <2> QED BY <1>1, <2>1, <2>2, OneTab
  <1>2. CASE Render(t) \/ ReceiveNews(t) \/ Reload(t) \/ ReadOrder(t)
    BY <1>1, <1>2 DEF Render, ReceiveNews, Reload, ReadOrder, wireVars
  <1>3. CASE Mount(t)
    <2>1. /\ page[t] = "loading" /\ FollowRoom(t, seesRealStatus(t, card[t]))
          /\ UNCHANGED <<dbVars, room, handlers, connected, replies>>
      BY <1>3 DEF Mount, wireVars
    <2>2. card[t] \in 1..Version BY <2>1 DEF PagesFollow, PageFollows
    <2> QED BY <2>1, <2>2, FollowTab, RealStatusHasHadPlace
  <1>4. CASE close(t) /\ UNCHANGED <<dbVars, room, handlers, wireVars>>
    BY <1>4, FollowTab DEF close, wireVars
  <1>5. CASE Leave(t) BY <1>4, <1>5 DEF Leave
  <1>6. ASSUME NEW v \in answers[t], Apply(t, v) PROVE TabsInv'
    <2>1. v \in 1..Version BY DEF PagesFollow, PageFollows
    <2>2. UNCHANGED <<dbVars, room, handlers, connected, replies>> BY <1>6 DEF Apply, wireVars
    <2>3. CASE close(t) BY <1>4, <1>6, <2>3 DEF Apply
    <2>4. CASE FollowRoom(t, seesRealStatus(t, v)) BY <2>1, <2>2, <2>4, FollowTab, RealStatusHasHadPlace
    <2> QED BY <1>6, <2>3, <2>4 DEF Apply
  <1> QED BY <1>2, <1>3, <1>5, <1>6

LEMMA DispatchTabs ==
  ASSUME TypeOK, TabsInv, EvictedAreOut, Dispatch
  PROVE  TabsInv'
  <1>1. /\ pending # <<>> /\ room' = room \ tabsOf(Head(pending).evict)
        /\ UNCHANGED <<dbVars, inbox, handlers, connected, replies, bindVars>>
    BY DEF Dispatch, leaveRoom
  <1>2. 1 \in DOMAIN pending /\ Head(pending) = pending[1]
    <2>1. pending \in Seq(Broadcast) BY TypesByPart DEF DbTypes
    <2> QED BY <1>1, <2>1, Shortened
  <1>3. ASSUME NEW t \in Tabs PROVE TabInv(t)'
    <2>1. SameTab(t) BY <1>1 DEF bindVars, SameTab, SameBinding
    <2>2. t \in room => t \in room' \/ isOut(Owner[t])
      BY <1>1, <1>2 DEF EvictedAreOut, tabsOf
    <2> QED BY <1>1, <2>1, <2>2, NobodyAges, TabKept DEF TabsInv
  <1> QED BY <1>3 DEF TabsInv

LEMMA CommitTabs ==
  ASSUME TypeOK, LastVersion, TabsInv, Commits
  PROVE  TabsInv'
  <1>1. ASSUME NEW t \in Tabs PROVE SameTab(t) /\ (t \in room' <=> t \in room)
    BY DEF Commits, serverVars, wireVars, bindVars, SameTab, SameBinding
  <1> QED BY <1>1, CommitsAge, TabKept DEF TabsInv


-----------------------------------------------------------------------------
(* Strangers in the room *)

\* A step that leaves the database and the broadcasts alone: whom it leaves in the room was
\* there and keeps the reason for it, or has one.
LEMMA StrangersStay ==
  ASSUME TypeOK, StrangersAreOnTheirWayOut, UNCHANGED <<dbVars, pending>>,
         \A t \in room' :
           \/ isOrderParticipant(Owner[t]) \/ t \in abandoned'
           \/ \E c : handles(t, c, "joined")' \/ handles(t, c, "leaving")'
           \/ /\ t \in room /\ (t \in abandoned => t \in abandoned')
              /\ \A c : handles(t, c, "joined") => handles(t, c, "joined")'
              /\ \A c : handles(t, c, "leaving") => handles(t, c, "leaving")'
  PROVE  StrangersAreOnTheirWayOut'
  <1>1. ASSUME NEW t PROVE /\ handling(t, {"joined", "leaving"}) =>
                                \E c : handles(t, c, "joined") \/ handles(t, c, "leaving")
                           /\ (\E c : handles(t, c, "joined")' \/ handles(t, c, "leaving")') =>
                                handling(t, {"joined", "leaving"})'
    BY DEF handling, handles
  <1>2. ASSUME NEW t \in room'
        PROVE  \/ isOrderParticipant(Owner[t])'
               \/ \E i \in DOMAIN pending' : Owner[t] \in pending'[i].evict
               \/ handling(t, {"joined", "leaving"})'
               \/ t \in abandoned'
               \/ views'[Version'].silent
    <2>1. /\ isOrderParticipant(Owner[t])' <=> isOrderParticipant(Owner[t])
          /\ Version' = Version /\ views' = views /\ pending' = pending
      BY NobodyAges
    <2>2. CASE \/ isOrderParticipant(Owner[t]) \/ t \in abandoned'
               \/ \E c : handles(t, c, "joined")' \/ handles(t, c, "leaving")'
      BY <1>1, <2>1, <2>2
    <2>3. CASE /\ t \in room /\ (t \in abandoned => t \in abandoned')
               /\ \A c : handles(t, c, "joined") => handles(t, c, "joined")'
               /\ \A c : handles(t, c, "leaving") => handles(t, c, "leaving")'
      <3>1. \/ isOrderParticipant(Owner[t])
            \/ \E i \in DOMAIN pending : Owner[t] \in pending[i].evict
            \/ handling(t, {"joined", "leaving"})
            \/ t \in abandoned
            \/ views[Version].silent
        BY <2>3 DEF StrangersAreOnTheirWayOut
      <3> QED BY <1>1, <2>1, <2>3, <3>1
    <2> QED BY <1>2, <2>2, <2>3
  <1> QED BY <1>2 DEF StrangersAreOnTheirWayOut

LEMMA CommitStrangers ==
  ASSUME TypeOK, LastVersion, StrangersAreOnTheirWayOut, Commits
  PROVE  StrangersAreOnTheirWayOut'
  <1>1. /\ stage # "gone" /\ room' = room /\ abandoned' = abandoned /\ handlers' = handlers
        /\ LastVersion'
    BY DEF Commits, serverVars
  <1>2. CASE views'[Version'].silent BY <1>2 DEF StrangersAreOnTheirWayOut
  <1>3. ASSUME NEW b, pending' = Append(pending, b), Tells(b) PROVE StrangersAreOnTheirWayOut'
    <2>1. /\ DOMAIN pending = 1..Len(pending) /\ DOMAIN pending' = 1..(Len(pending) + 1)
          /\ Len(pending) \in Nat
          /\ \A i \in DOMAIN pending : i \in DOMAIN pending' /\ pending'[i] = pending[i]
          /\ pending'[Len(pending) + 1] = b
      <3>1. pending \in Seq(Broadcast) /\ b \in Broadcast BY <1>3, TypesByPart DEF DbTypes, Tells
      <3> QED BY <1>3, <3>1, Appended
    <2>2. Len(pending) + 1 \in DOMAIN pending' BY <2>1
    <2>3. ASSUME NEW t \in room
          PROVE  \/ isOrderParticipant(Owner[t])'
                 \/ \E i \in DOMAIN pending' : Owner[t] \in pending'[i].evict
                 \/ handling(t, {"joined", "leaving"})'
                 \/ t \in abandoned'
      <3>0. t \in Tabs /\ Owner[t] \in Users
        <4>1. t \in Tabs BY TypesByPart DEF RoomTypes
        <4> QED BY <4>1, RoomNumbers
      <3>1. \/ isOrderParticipant(Owner[t])
            \/ \E i \in DOMAIN pending : Owner[t] \in pending[i].evict
            \/ handling(t, {"joined", "leaving"})
            \/ t \in abandoned
            \/ views[Version].silent
        BY DEF StrangersAreOnTheirWayOut
      <3>2. CASE isOrderParticipant(Owner[t])
        <4>1. isOrderParticipant(Owner[t])' \/ Owner[t] \in b.evict BY <1>3, <3>0, <3>2 DEF Tells
        <4> QED BY <2>1, <2>2, <4>1
      <3>3. CASE \E i \in DOMAIN pending : Owner[t] \in pending[i].evict BY <2>1, <3>3
      <3>4. CASE handling(t, {"joined", "leaving"}) BY <1>1, <3>4 DEF handling
      <3>5. CASE t \in abandoned BY <1>1, <3>5
      <3>6. ~views[Version].silent BY <1>1 DEF LastVersion
      <3> QED BY <3>1, <3>2, <3>3, <3>4, <3>5, <3>6
    <2> QED BY <1>1, <2>3 DEF StrangersAreOnTheirWayOut
  <1> QED BY <1>2, <1>3 DEF Commits

LEMMA DispatchStrangers ==
  ASSUME TypeOK, StrangersAreOnTheirWayOut, Dispatch
  PROVE  StrangersAreOnTheirWayOut'
  <1>1. /\ pending # <<>> /\ pending' = Tail(pending)
        /\ room' = room \ tabsOf(Head(pending).evict)
        /\ abandoned' = abandoned \ tabsOf(Head(pending).evict)
        /\ UNCHANGED <<dbVars, handlers>>
    BY DEF Dispatch, leaveRoom
  <1>2. /\ Head(pending) = pending[1]
        /\ \A i \in DOMAIN pending : i # 1 => i - 1 \in DOMAIN pending' /\ pending'[i - 1] = pending[i]
    <2>1. pending \in Seq(Broadcast) BY TypesByPart DEF DbTypes
    <2> QED BY <1>1, <2>1, Shortened
  <1>3. ASSUME NEW t \in room'
        PROVE  \/ isOrderParticipant(Owner[t])'
               \/ \E i \in DOMAIN pending' : Owner[t] \in pending'[i].evict
               \/ handling(t, {"joined", "leaving"})'
               \/ t \in abandoned'
               \/ views'[Version'].silent
    <2>0. t \in room /\ t \in Tabs /\ t \notin tabsOf(pending[1].evict)
      BY <1>1, <1>2, TypesByPart DEF RoomTypes
    <2>1. \/ isOrderParticipant(Owner[t])
          \/ \E i \in DOMAIN pending : Owner[t] \in pending[i].evict
          \/ handling(t, {"joined", "leaving"})
          \/ t \in abandoned
          \/ views[Version].silent
      BY <2>0 DEF StrangersAreOnTheirWayOut
    <2>2. /\ isOrderParticipant(Owner[t])' <=> isOrderParticipant(Owner[t])
          /\ Version' = Version /\ views' = views
      BY <1>1, NobodyAges
    <2>3. ASSUME NEW i \in DOMAIN pending, Owner[t] \in pending[i].evict
          PROVE  \E j \in DOMAIN pending' : Owner[t] \in pending'[j].evict
      <3>1. i # 1 BY <2>0, <2>3 DEF tabsOf
      <3> QED BY <1>2, <2>3, <3>1
    <2>4. handling(t, {"joined", "leaving"}) => handling(t, {"joined", "leaving"})'
      BY <1>1 DEF handling
    <2>5. t \in abandoned => t \in abandoned' BY <1>1, <1>2, <2>0
    <2> QED BY <2>1, <2>2, <2>3, <2>4, <2>5
  <1> QED BY <1>3 DEF StrangersAreOnTheirWayOut

LEMMA GatewayStrangers ==
  ASSUME TypeOK, StrangersAreOnTheirWayOut, NEW t \in Tabs,
         \/ ReceiveSubscribe(t) \/ ReceiveUnsubscribe(t)
         \/ \E i \in DOMAIN handlers[t] :
              CheckBefore(t, i) \/ Join(t, i) \/ CheckAfter(t, i) \/ LeaveAfterCheck(t, i)
  PROVE  StrangersAreOnTheirWayOut'
  <1>0. /\ RoomTypes /\ InboxTypes /\ HandlerTypes /\ ReplyTypes BY TypesByPart
  <1>00. {"admitted", "joined", "leaving"} \subseteq Phases BY DEF Phases
  <1>01. ASSUME NEW u, handlers'[u] = handlers[u]
         PROVE  \A c, p : handles(u, c, p)' <=> handles(u, c, p)
    BY <1>01 DEF handles
  <1>1. CASE ReceiveSubscribe(t)
    <2>1. /\ UNCHANGED <<dbVars, pending>> /\ room' = room /\ abandoned' = abandoned
          /\ inbox[t] # <<>> /\ Head(inbox[t]).kind = "subscribe"
          /\ \/ handlers' = [handlers EXCEPT
                  ![t] = Append(@, [binding |-> Head(inbox[t]).binding, phase |-> "asking"])]
             \/ handlers' = handlers
      BY <1>1 DEF ReceiveSubscribe
    <2>2. Head(inbox[t]).binding \in Binding
      <3>1. inbox[t] \in Seq(Message) BY <1>0 DEF InboxTypes
      <3>2. Head(inbox[t]) \in Message BY <2>1, <3>1, Shortened, ElementOfSeq, LenProperties
      <3> QED BY <2>1, <3>2, MessageIs
    <2>3. \A u \in Tabs : \A c, p : handles(u, c, p) => handles(u, c, p)'
      <3>1. CASE handlers' = handlers BY <1>01, <3>1
      <3>2. CASE handlers' # handlers
        <4>1. /\ \A u \in Tabs \ {t} : handlers'[u] = handlers[u]
              /\ \A c, p : handles(t, c, p) => handles(t, c, p)'
          BY <1>0, <2>1, <2>2, <3>2, HandlerBegins
        <4> QED BY <1>01, <4>1
      <3> QED BY <3>1, <3>2
    <2>4. room \subseteq Tabs BY <1>0 DEF RoomTypes
    <2> QED BY <2>1, <2>3, <2>4, StrangersStay
  <1>2. CASE ReceiveUnsubscribe(t)
    <2>1. /\ UNCHANGED <<dbVars, pending, handlers>>
          /\ \/ room' = room /\ abandoned' = abandoned
             \/ room' = room \ {t} /\ abandoned' = abandoned \ {t}
      BY <1>2 DEF ReceiveUnsubscribe, leaveRoom
    <2> QED BY <1>01, <2>1, StrangersStay
  <1>3. ASSUME NEW i \in DOMAIN handlers[t],
               CheckBefore(t, i) \/ Join(t, i) \/ CheckAfter(t, i) \/ LeaveAfterCheck(t, i)
        PROVE  StrangersAreOnTheirWayOut'
    <2>0. /\ UNCHANGED <<dbVars, pending>>
          /\ (\E p \in Phases : nextPhase(t, i, p)) \/ (\E a : finish(t, i, a))
      BY <1>00, <1>3 DEF CheckBefore, Join, CheckAfter, LeaveAfterCheck
    <2>1. PICK b \in Binding, q \in Phases : b = handlers[t][i].binding /\ q = handlers[t][i].phase
      <3>1. handlers[t] \in Seq(Handler) BY <1>0 DEF HandlerTypes
      <3>2. handlers[t][i] \in Handler BY <3>1, LenProperties, ElementOfSeq
      <3> QED BY <3>2 DEF Handler
    <2>2. /\ \A u \in Tabs \ {t} : handlers'[u] = handlers[u]
          /\ \A c, x : handles(t, c, x) => handles(t, c, x)' \/ (c = b /\ x = q)
      BY <1>0, <2>0, <2>1, HandlerMoves, HandlerEnds DEF finish
    <2>3. \A p \in Phases : nextPhase(t, i, p) => handles(t, b, p)'
      BY <1>0, <2>1, HandlerMoves
    <2>4. \A u \in Tabs \ {t} : \A c, p : handles(u, c, p) => handles(u, c, p)' BY <1>01, <2>2
    <2>5. \A u \in room : u \in Tabs BY <1>0 DEF RoomTypes
    <2>6. CASE CheckBefore(t, i)
      <3>1. q = "asking" /\ room' = room /\ abandoned' = abandoned BY <1>3, <2>1, <2>6 DEF CheckBefore
      <3>2. \A c : handles(t, c, "joined") => handles(t, c, "joined")' BY <2>2, <3>1
      <3>3. \A c : handles(t, c, "leaving") => handles(t, c, "leaving")' BY <2>2, <3>1
      <3> QED BY <2>0, <2>4, <2>5, <3>1, <3>2, <3>3, StrangersStay
    <2>7. CASE Join(t, i)
      <3>1. nextPhase(t, i, "joined") /\ room' = room \union {t} /\ abandoned' = abandoned
        BY <2>7 DEF Join
      <3>2. handles(t, b, "joined")' BY <1>00, <2>3, <3>1
      <3> QED BY <2>0, <2>4, <2>5, <3>1, <3>2, StrangersStay
    <2>8. CASE CheckAfter(t, i)
      <3>1. /\ room' = room
            /\ \/ /\ isOrderParticipant(Owner[t]) \/ nextPhase(t, i, "leaving")
                  /\ abandoned' = abandoned \ {t}
               \/ abandoned' = abandoned \union ({t} \intersect room)
        BY <2>8 DEF CheckAfter
      <3>2. isOrderParticipant(Owner[t]) \/ handles(t, b, "leaving")' \/ t \notin room' \/ t \in abandoned'
        BY <1>00, <2>3, <3>1
      <3>3. \A u \in room' \ {t} : u \in Tabs \ {t} /\ u \in room /\ (u \in abandoned => u \in abandoned')
        BY <2>5, <3>1
      <3> QED BY <2>0, <2>4, <3>2, <3>3, StrangersStay
    <2>9. CASE LeaveAfterCheck(t, i)
      <3>1. room' = room \ {t} /\ abandoned' = abandoned \ {t} BY <2>9 DEF LeaveAfterCheck, leaveRoom
      <3> QED BY <2>0, <2>4, <2>5, <3>1, StrangersStay
    <2> QED BY <1>3, <2>6, <2>7, <2>8, <2>9
  <1> QED BY <1>1, <1>2, <1>3

LEMMA DisconnectStrangers ==
  ASSUME TypeOK, StrangersAreOnTheirWayOut, NEW t \in Tabs, Disconnect(t)
  PROVE  StrangersAreOnTheirWayOut'
  <1>0. DbTypes /\ HandlerTypes /\ RoomTypes BY TypesByPart
  <1>1. /\ room' = room \ {t} /\ abandoned' = abandoned \ {t}
        /\ handlers' = [handlers EXCEPT ![t] = <<>>]
        /\ pending' = [i \in DOMAIN pending |->
             IF pending[i].except = t THEN [pending[i] EXCEPT !.except = Nobody] ELSE pending[i]]
        /\ UNCHANGED dbVars
    BY DEF Disconnect, leaveRoom
  <1>2. DOMAIN pending' = DOMAIN pending /\ \A i \in DOMAIN pending : pending'[i].evict = pending[i].evict
    BY <1>0, <1>1, UnsparedTypes
  <1>3. ASSUME NEW u \in room'
        PROVE  \/ isOrderParticipant(Owner[u])'
               \/ \E i \in DOMAIN pending' : Owner[u] \in pending'[i].evict
               \/ handling(u, {"joined", "leaving"})'
               \/ u \in abandoned'
               \/ views'[Version'].silent
    <2>1. u \in room /\ u # t /\ u \in Tabs BY <1>0, <1>1 DEF RoomTypes
    <2>2. \/ isOrderParticipant(Owner[u])
          \/ \E i \in DOMAIN pending : Owner[u] \in pending[i].evict
          \/ handling(u, {"joined", "leaving"})
          \/ u \in abandoned
          \/ views[Version].silent
      BY <2>1 DEF StrangersAreOnTheirWayOut
    <2>3. handlers'[u] = handlers[u] BY <1>0, <1>1, <2>1 DEF HandlerTypes
    <2>4. handling(u, {"joined", "leaving"}) => handling(u, {"joined", "leaving"})'
      BY <2>3 DEF handling
    <2>5. /\ isOrderParticipant(Owner[u])' <=> isOrderParticipant(Owner[u])
          /\ Version' = Version /\ views' = views
      BY <1>1, NobodyAges
    <2> QED BY <1>1, <1>2, <2>1, <2>2, <2>4, <2>5
  <1> QED BY <1>3 DEF StrangersAreOnTheirWayOut


-----------------------------------------------------------------------------
(* Broadcasts and pages *)

\* The part of the invariant that speaks of broadcasts and pages, tab by tab.
Spares(b) == b.except # Nobody => b.except = b.actor /\ connected[b.except]
AnswerReaches(t, b) ==
  b.actor = t /\ page[t] # "away" /\ visits[t] # b.visit => newest[t] >= b.version
NewsReach(t) == page[t] = "open" /\ online[t] /\ owed[t] > newest[t] => tellsSoon(t)

LEMMA PagesByTab ==
  /\ BroadcastsFollow <=>
       \A i \in DOMAIN pending : /\ pending[i].version <= Version /\ Spares(pending[i])
                                 /\ \A t \in Tabs : AnswerReaches(t, pending[i])
  /\ NewsReachOpenPages <=> \A t \in Tabs : NewsReach(t)
  BY DEF BroadcastsFollow, Spares, AnswerReaches, NewsReachOpenPages, NewsReach

\* All that is said of the page of a tab and of what it is told.
PagesInv == BroadcastsFollow /\ PagesFollow /\ EvictedAreOut /\ NewsReachOpenPages

SamePage(t) ==
  /\ page'[t] = page[t] /\ visits'[t] = visits[t] /\ card'[t] = card[t] /\ missed'[t] = missed[t]
  /\ burst'[t] = burst[t] /\ asked'[t] = asked[t] /\ answers'[t] = answers[t]
  /\ newest'[t] = newest[t] /\ owed'[t] = owed[t] /\ online'[t] = online[t] /\ news'[t] = news[t]

LEMMA PageStays ==
  ASSUME NEW t, SamePage(t)
  PROVE  /\ NewsReach(t) => NewsReach(t)'
         /\ \A b : AnswerReaches(t, b) => AnswerReaches(t, b)'
         /\ PageFollows(t) /\ connected'[t] = connected[t] /\ Version' = Version => PageFollows(t)'
  <1>1. NewsReach(t) => NewsReach(t)' BY DEF SamePage, NewsReach, tellsSoon
  <1>2. \A b : AnswerReaches(t, b) => AnswerReaches(t, b)' BY DEF SamePage, AnswerReaches
  <1>3. PageFollows(t) /\ connected'[t] = connected[t] /\ Version' = Version => PageFollows(t)'
    BY DEF SamePage, PageFollows
  <1> QED BY <1>1, <1>2, <1>3

\* A step of one page: the database, the broadcasts and the connections stay.
LEMMA OnePage ==
  ASSUME TypeOK, PagesInv, NEW t \in Tabs, UNCHANGED <<dbVars, pending, connected>>,
         \A u \in Tabs \ {t} : SamePage(u),
         PageFollows(t)', NewsReach(t)',
         \A b \in Broadcast : b.version <= Version /\ AnswerReaches(t, b) => AnswerReaches(t, b)'
  PROVE  PagesInv'
  <1>1. Version' = Version /\ pending' = pending /\ connected' = connected BY NobodyAges
  <1>2. PagesFollow' BY <1>1, PageStays DEF PagesInv, PagesFollow
  <1>3. NewsReachOpenPages'
    <2>1. \A u \in Tabs : NewsReach(u)' BY PageStays, PagesByTab DEF PagesInv
    <2> QED BY <2>1 DEF NewsReachOpenPages, NewsReach
  <1>4. BroadcastsFollow'
    <2>1. ASSUME NEW i \in DOMAIN pending
          PROVE  /\ pending[i].version <= Version /\ Spares(pending[i])
                 /\ \A u \in Tabs : AnswerReaches(u, pending[i])
      BY PagesByTab DEF PagesInv
    <2>2. ASSUME NEW i \in DOMAIN pending', NEW b, b = pending'[i]
          PROVE  /\ b.version <= Version' /\ Spares(b)' /\ \A u \in Tabs : AnswerReaches(u, b)'
      <3>0. DbTypes BY TypesByPart
      <3>1. i \in DOMAIN pending /\ b = pending[i] /\ b \in Broadcast BY <1>1, <2>2, <3>0, PendingTypes
      <3>2. b.version <= Version /\ Spares(b) /\ \A u \in Tabs : AnswerReaches(u, b) BY <2>1, <3>1
      <3>3. Spares(b)' BY <1>1, <3>2 DEF Spares
      <3> QED BY <1>1, <3>1, <3>2, <3>3, PageStays
    <2> QED BY <2>2 DEF BroadcastsFollow, Spares, AnswerReaches
  <1>5. EvictedAreOut' BY <1>1, NobodyAges DEF PagesInv, EvictedAreOut
  <1> QED BY <1>2, <1>3, <1>4, <1>5 DEF PagesInv

\* A step that concerns no page.
LEMMA NoPage ==
  ASSUME TypeOK, PagesInv, UNCHANGED <<dbVars, pending, connected, news, pageVars>>
  PROVE  PagesInv'
  <1>1. \A u \in Tabs : SamePage(u) BY DEF SamePage, pageVars
  <1>2. Version' = Version /\ pending' = pending /\ connected' = connected BY NobodyAges
  <1>3. CASE Tabs = {}
    <2>1. PagesFollow' /\ NewsReachOpenPages' BY <1>3 DEF PagesFollow, NewsReachOpenPages
    <2>2. EvictedAreOut' BY <1>2, NobodyAges DEF PagesInv, EvictedAreOut
    <2>3. BroadcastsFollow' BY <1>2, <1>3 DEF PagesInv, BroadcastsFollow
    <2> QED BY <2>1, <2>2, <2>3 DEF PagesInv
  <1>4. CASE Tabs # {}
    <2>1. PICK t \in Tabs : TRUE BY <1>4
    <2>2. PageFollows(t) /\ NewsReach(t) BY PagesByTab DEF PagesInv, PagesFollow
    <2>3. PageFollows(t)' /\ NewsReach(t)' /\ \A b : AnswerReaches(t, b) => AnswerReaches(t, b)'
      BY <1>1, <1>2, <2>2, PageStays
    <2> QED BY <1>1, <2>3, OnePage
  <1> QED BY <1>3, <1>4

LEMMA CommitPages ==
  ASSUME TypeOK, LastVersion, PagesInv, Commits
  PROVE  PagesInv'
  <1>1. /\ Version \in Nat /\ Version' = Version + 1 /\ Ages
        /\ pageVars' = pageVars /\ news' = news /\ connected' = connected
    BY CommitsAge DEF Commits, LastVersion, wireVars
  <1>2. \A u \in Tabs : SamePage(u) BY <1>1 DEF SamePage, pageVars
  <1>3. NewsReachOpenPages'
    <2>1. \A u \in Tabs : NewsReach(u)' BY <1>2, PageStays, PagesByTab DEF PagesInv
    <2> QED BY <2>1 DEF NewsReachOpenPages, NewsReach
  <1>4. PagesFollow'
    <2>1. ASSUME NEW t \in Tabs PROVE PageFollows(t)'
      <3>1. PageFollows(t) BY DEF PagesInv, PagesFollow
      <3>2. owed[t] \in Nat BY TypesByPart DEF PageTypes
      <3>3. 1..Version \subseteq 1..Version' /\ (owed[t] <= Version => owed[t] <= Version')
        BY <1>1, <3>2
      <3> QED BY <1>1, <1>2, <3>1, <3>3 DEF PageFollows, SamePage
    <2> QED BY <2>1 DEF PagesFollow
  <1>5. ASSUME NEW i \in DOMAIN pending, NEW b, b = pending[i]
        PROVE  /\ b.version <= Version' /\ Spares(b)' /\ \A u \in Tabs : AnswerReaches(u, b)'
               /\ \A u \in b.evict : isOut(u)'
    <2>1. /\ b.version <= Version /\ Spares(b) /\ \A u \in Tabs : AnswerReaches(u, b)
          /\ \A u \in b.evict : isOut(u)
      BY <1>5, PagesByTab DEF PagesInv, EvictedAreOut
    <2>2. b \in Broadcast
      <3>1. DbTypes BY TypesByPart
      <3> QED BY <1>5, <3>1, PendingTypes
    <2>3. b.version \in Nat BY <2>2, RoomNumbers DEF Broadcast
    <2>4. Spares(b)' BY <1>1, <2>1 DEF Spares
    <2> QED BY <1>1, <1>2, <2>1, <2>3, <2>4, PageStays DEF Ages
  <1>6. CASE pending' = pending
    <2>1. BroadcastsFollow' BY <1>5, <1>6 DEF BroadcastsFollow, Spares, AnswerReaches
    <2>2. EvictedAreOut' BY <1>5, <1>6 DEF EvictedAreOut
    <2> QED BY <1>3, <1>4, <2>1, <2>2 DEF PagesInv
  <1>7. ASSUME NEW e, pending' = Append(pending, e), Tells(e) PROVE PagesInv'
    <2>1. /\ DOMAIN pending = 1..Len(pending) /\ DOMAIN pending' = 1..(Len(pending) + 1)
          /\ Len(pending) \in Nat
          /\ \A i \in DOMAIN pending : pending'[i] = pending[i]
          /\ pending'[Len(pending) + 1] = e
      <3>1. pending \in Seq(Broadcast) /\ e \in Broadcast BY <1>7, TypesByPart DEF DbTypes, Tells
      <3> QED BY <1>7, <3>1, Appended
    <2>2. /\ e.version <= Version' /\ Spares(e)' /\ \A u \in Tabs : AnswerReaches(u, e)'
          /\ \A u \in e.evict : isOut(u)'
      <3>1. Spares(e)' BY <1>1, <1>7 DEF Tells, Spares
      <3>2. ASSUME NEW u \in Tabs PROVE AnswerReaches(u, e)'
        BY <1>2, <1>7 DEF Tells, AnswerReaches, SamePage
      <3>3. e.version <= Version' BY <1>1, <1>7 DEF Tells
      <3> QED BY <1>7, <3>1, <3>2, <3>3 DEF Tells
    <2>3. ASSUME NEW i \in DOMAIN pending', NEW b, b = pending'[i]
          PROVE  /\ b.version <= Version' /\ Spares(b)' /\ \A u \in Tabs : AnswerReaches(u, b)'
                 /\ \A u \in b.evict : isOut(u)'
      <3>1. CASE i \in DOMAIN pending BY <1>5, <2>1, <2>3, <3>1
      <3>2. CASE i \notin DOMAIN pending
        <4>1. i = Len(pending) + 1 BY <2>1, <3>2
        <4> QED BY <2>1, <2>2, <2>3, <4>1
      <3> QED BY <3>1, <3>2
    <2>4. BroadcastsFollow' BY <2>3 DEF BroadcastsFollow, Spares, AnswerReaches
    <2>5. EvictedAreOut' BY <2>3 DEF EvictedAreOut
    <2> QED BY <1>3, <1>4, <2>4, <2>5 DEF PagesInv
  <1> QED BY <1>6, <1>7 DEF Commits


LEMMA DispatchPages ==
  ASSUME TypeOK, PagesInv, Dispatch
  PROVE  PagesInv'
  <1> DEFINE b == Head(pending)
             acted == IF b.actor # Nobody /\ page[b.actor] = "open" /\ visits[b.actor] = b.visit
                      THEN {b.actor} ELSE {}
  <1>0. PageTypes /\ WireTypes /\ DbTypes BY TypesByPart
  <1>1. /\ pending # <<>> /\ pending' = Tail(pending)
        /\ news' = [t \in Tabs |-> news[t] \union (IF t \in hearsOwn(b) THEN {"own"} ELSE {})
                                           \union (IF t \in hearsInRoom(b) THEN {"order"} ELSE {})]
        /\ asked' = [t \in Tabs |-> asked[t] + IF t \in acted THEN 1 ELSE 0]
        /\ owed' = [t \in Tabs |-> IF t \in addressed(b) THEN b.version ELSE owed[t]]
        /\ UNCHANGED <<dbVars, connected, page, visits, card, missed, burst, answers, newest, online>>
    BY DEF Dispatch
  <1>2. /\ b = pending[1] /\ 1 \in DOMAIN pending
        /\ \A i \in DOMAIN pending' : i + 1 \in DOMAIN pending /\ pending'[i] = pending[i + 1]
    <2>1. pending \in Seq(Broadcast) BY <1>0 DEF DbTypes
    <2> QED BY <1>1, <2>1, Shortened
  <1>3. b \in Broadcast BY <1>0, <1>1, PendingTypes
  <1>4. /\ b.version <= Version /\ Spares(b) /\ \A t \in Tabs : AnswerReaches(t, b)
    BY <1>2, PagesByTab DEF PagesInv
  <1>5. b.version \in Nat /\ b.actor \in Tabs \union {Nobody} BY <1>3, RoomNumbers DEF Broadcast
  <1>6. Version' = Version /\ views' = views BY <1>1, NobodyAges
  <1> HIDE DEF b
  <1>7. PagesFollow'
    <2>1. ASSUME NEW t \in Tabs PROVE PageFollows(t)'
      <3>1. PageFollows(t) BY DEF PagesInv, PagesFollow
      <3>2. owed'[t] <= Version /\ (page[t] # "open" => owed'[t] = 0)
        BY <1>1, <1>4, <3>1 DEF PageFollows, addressed
      <3> QED BY <1>1, <1>6, <3>1, <3>2 DEF PageFollows
    <2> QED BY <2>1 DEF PagesFollow
  <1>8. ASSUME NEW t \in Tabs PROVE NewsReach(t)'
    <2>1. SUFFICES ASSUME page[t] = "open", online[t], owed'[t] > newest[t]
                   PROVE  \/ news'[t] # {} \/ burst[t] \/ asked'[t] > 0 \/ missed[t]
                          \/ \E v \in answers[t] : v >= owed'[t]
      BY <1>1 DEF NewsReach, tellsSoon
    <2>2. /\ NewsReach(t) /\ PageFollows(t) BY PagesByTab DEF PagesInv, PagesFollow
    <2>3. /\ asked[t] \in Nat /\ asked'[t] \in Nat /\ asked'[t] >= asked[t]
          /\ t \in acted => asked'[t] > 0
          /\ news[t] # {} => news'[t] # {}
      BY <1>0, <1>1 DEF PageTypes
    <2>4. CASE t \notin addressed(b)
      <3>1. owed'[t] = owed[t] BY <1>1, <2>4
      <3>2. tellsSoon(t) BY <2>1, <2>2, <3>1 DEF NewsReach
      <3> QED BY <2>3, <3>1, <3>2 DEF tellsSoon
    <2>5. CASE t \in addressed(b)
      <3>1. owed'[t] = b.version BY <1>1, <2>5
      <3>2. CASE ~connected[t] BY <2>1, <2>2, <3>2 DEF PageFollows
      <3>3. CASE connected[t] /\ t \in hearsInRoom(b) BY <1>1, <3>3
      <3>4. CASE connected[t] /\ Owner[t] \in b.own
        <4>1. CASE t # b.except
          <5>1. t \in hearsOwn(b) BY <3>4, <4>1 DEF hearsOwn, tabsOf
          <5> QED BY <1>1, <5>1
        <4>2. CASE t = b.except
          <5>1. t = b.actor /\ t # Nobody BY <1>4, <4>2, RoomNumbers DEF Spares
          <5>2. CASE visits[t] = b.visit
            <6>1. t \in acted BY <2>1, <5>1, <5>2
            <6> QED BY <2>3, <6>1
          <5>3. CASE visits[t] # b.visit
            <6>1. newest[t] >= b.version BY <1>4, <2>1, <5>1, <5>3 DEF AnswerReaches
            <6>2. newest[t] \in Nat BY <1>0, RoomNumbers DEF PageTypes
            <6> QED BY <1>5, <2>1, <3>1, <6>1, <6>2
          <5> QED BY <5>2, <5>3
        <4> QED BY <4>1, <4>2
      <3> QED BY <2>5, <3>2, <3>3, <3>4 DEF addressed
    <2> QED BY <2>4, <2>5
  <1>9. NewsReachOpenPages' BY <1>8 DEF NewsReachOpenPages, NewsReach
  <1>10. ASSUME NEW i \in DOMAIN pending', NEW c, c = pending'[i]
         PROVE  /\ c.version <= Version' /\ Spares(c)' /\ \A t \in Tabs : AnswerReaches(t, c)'
                /\ \A u \in c.evict : isOut(u)'
    <2>1. i + 1 \in DOMAIN pending /\ c = pending[i + 1] BY <1>2, <1>10
    <2>2. /\ c.version <= Version /\ Spares(c) /\ \A t \in Tabs : AnswerReaches(t, c)
          /\ \A u \in c.evict : isOut(u)
      BY <2>1, PagesByTab DEF PagesInv, EvictedAreOut
    <2>3. Spares(c)' BY <1>1, <2>2 DEF Spares
    <2>4. \A t \in Tabs : AnswerReaches(t, c)' BY <1>1, <2>2 DEF AnswerReaches
    <2>5. \A u \in c.evict : isOut(u)' BY <1>1, <2>2, NobodyAges
    <2> QED BY <1>6, <2>2, <2>3, <2>4, <2>5
  <1>11. BroadcastsFollow' BY <1>10 DEF BroadcastsFollow, Spares, AnswerReaches
  <1>12. EvictedAreOut' BY <1>10 DEF EvictedAreOut
  <1> QED BY <1>7, <1>9, <1>11, <1>12 DEF PagesInv

LEMMA ConnectPages ==
  ASSUME TypeOK, PagesInv, NEW t \in Tabs, Connect(t)
  PROVE  PagesInv'
  <1>0. PageTypes /\ WireTypes BY TypesByPart
  <1>1. /\ connected' = [connected EXCEPT ![t] = TRUE]
        /\ burst' = [burst EXCEPT ![t] = burst[t] \/ missed[t]]
        /\ missed' = [missed EXCEPT ![t] = FALSE]
        /\ UNCHANGED <<dbVars, pending, news, page, visits, card, asked, answers, newest, owed, online>>
    BY DEF Connect, RefreshMissed
  <1>2. /\ connected'[t] /\ \A u \in Tabs \ {t} : connected'[u] = connected[u]
        /\ \A u \in Tabs \ {t} : SamePage(u)
        /\ missed[t] => burst'[t]
        /\ burst[t] => burst'[t]
    BY <1>0, <1>1 DEF PageTypes, WireTypes, SamePage
  <1>3. Version' = Version /\ pending' = pending BY <1>1, NobodyAges
  <1>4. PagesFollow'
    <2>1. PageFollows(t)'
      <3>1. PageFollows(t) BY DEF PagesInv, PagesFollow
      <3> QED BY <1>1, <1>2, <1>3, <3>1 DEF PageFollows
    <2> QED BY <1>2, <1>3, <2>1, PageStays DEF PagesInv, PagesFollow
  <1>5. NewsReachOpenPages'
    <2>1. NewsReach(t)'
      <3>1. NewsReach(t) BY PagesByTab DEF PagesInv
      <3> QED BY <1>1, <1>2, <3>1 DEF NewsReach, tellsSoon
    <2>2. \A u \in Tabs : NewsReach(u)' BY <1>2, <2>1, PageStays, PagesByTab DEF PagesInv
    <2> QED BY <2>2 DEF NewsReachOpenPages, NewsReach
  <1>6. ASSUME NEW i \in DOMAIN pending', NEW b, b = pending'[i]
        PROVE  b.version <= Version' /\ Spares(b)' /\ \A u \in Tabs : AnswerReaches(u, b)'
    <2>1. /\ b.version <= Version /\ Spares(b) /\ \A u \in Tabs : AnswerReaches(u, b)
      BY <1>3, <1>6, PagesByTab DEF PagesInv
    <2>2. b \in Broadcast
      <3>1. DbTypes BY TypesByPart
      <3> QED BY <1>3, <1>6, <3>1, PendingTypes
    <2>3. Spares(b)' BY <1>2, <2>1, <2>2 DEF Spares, Broadcast
    <2>4. \A u \in Tabs : AnswerReaches(u, b)' BY <1>1, <2>1 DEF AnswerReaches
    <2> QED BY <1>3, <2>1, <2>3, <2>4
  <1>7. BroadcastsFollow' BY <1>6 DEF BroadcastsFollow, Spares, AnswerReaches
  <1>8. EvictedAreOut' BY <1>1, <1>3, NobodyAges DEF PagesInv, EvictedAreOut
  <1> QED BY <1>4, <1>5, <1>7, <1>8 DEF PagesInv

LEMMA DisconnectPages ==
  ASSUME TypeOK, PagesInv, NEW t \in Tabs, Disconnect(t)
  PROVE  PagesInv'
  <1>0. PageTypes /\ WireTypes /\ DbTypes BY TypesByPart
  <1>1. /\ connected' = [connected EXCEPT ![t] = FALSE]
        /\ news' = [news EXCEPT ![t] = {}]
        /\ pending' = [i \in DOMAIN pending |->
             IF pending[i].except = t THEN [pending[i] EXCEPT !.except = Nobody] ELSE pending[i]]
        /\ missed' = [missed EXCEPT ![t] = page[t] = "open"]
        /\ UNCHANGED <<dbVars, page, visits, card, burst, asked, answers, newest, owed, online>>
    BY DEF Disconnect
  <1>2. /\ \A u \in Tabs \ {t} : connected'[u] = connected[u] /\ SamePage(u)
        /\ page[t] = "open" => missed'[t]
    BY <1>0, <1>1 DEF PageTypes, WireTypes, SamePage
  <1>3. Version' = Version BY <1>1, NobodyAges
  <1>4. PagesFollow'
    <2>1. PageFollows(t)'
      <3>1. PageFollows(t) BY DEF PagesInv, PagesFollow
      <3> QED BY <1>1, <1>2, <1>3, <3>1 DEF PageFollows
    <2> QED BY <1>2, <1>3, <2>1, PageStays DEF PagesInv, PagesFollow
  <1>5. NewsReachOpenPages'
    <2>1. NewsReach(t)' BY <1>1, <1>2 DEF NewsReach, tellsSoon
    <2>2. \A u \in Tabs : NewsReach(u)' BY <1>2, <2>1, PageStays, PagesByTab DEF PagesInv
    <2> QED BY <2>2 DEF NewsReachOpenPages, NewsReach
  <1>6. /\ DOMAIN pending' = DOMAIN pending
        /\ \A i \in DOMAIN pending :
             /\ pending'[i].version = pending[i].version /\ pending'[i].evict = pending[i].evict
             /\ pending'[i].actor = pending[i].actor /\ pending'[i].visit = pending[i].visit
             /\ pending'[i].except = IF pending[i].except = t THEN Nobody ELSE pending[i].except
    BY <1>0, <1>1, UnsparedTypes
  <1>7. ASSUME NEW i \in DOMAIN pending', NEW b, b = pending'[i]
        PROVE  /\ b.version <= Version' /\ Spares(b)' /\ \A u \in Tabs : AnswerReaches(u, b)'
               /\ \A u \in b.evict : isOut(u)'
    <2>1. PICK c : c = pending[i] OBVIOUS
    <2>2. /\ i \in DOMAIN pending /\ b.version = c.version /\ b.evict = c.evict
          /\ b.actor = c.actor /\ b.visit = c.visit
          /\ b.except = IF c.except = t THEN Nobody ELSE c.except
      BY <1>6, <1>7, <2>1
    <2>3. /\ c.version <= Version /\ Spares(c) /\ \A u \in Tabs : AnswerReaches(u, c)
          /\ \A u \in c.evict : isOut(u)
      BY <2>1, <2>2, PagesByTab DEF PagesInv, EvictedAreOut
    <2>4. c \in Broadcast BY <1>0, <2>1, <2>2, PendingTypes
    <2>5. Spares(b)' BY <1>2, <2>2, <2>3, <2>4 DEF Spares, Broadcast
    <2>6. \A u \in Tabs : AnswerReaches(u, b)' BY <1>1, <2>2, <2>3 DEF AnswerReaches
    <2>7. \A u \in b.evict : isOut(u)' BY <1>1, <2>2, <2>3, NobodyAges
    <2> QED BY <1>3, <2>2, <2>3, <2>5, <2>6, <2>7
  <1>8. BroadcastsFollow' BY <1>7 DEF BroadcastsFollow, Spares, AnswerReaches
  <1>9. EvictedAreOut' BY <1>7 DEF EvictedAreOut
  <1> QED BY <1>4, <1>5, <1>8, <1>9 DEF PagesInv


LEMMA PageActionPages ==
  ASSUME TypeOK, LastVersion, PagesInv, NEW t \in Tabs,
         \/ Render(t) \/ Mount(t) \/ Leave(t) \/ ReceiveNews(t) \/ Reload(t) \/ ReadOrder(t)
         \/ \E v \in answers[t] : Apply(t, v)
  PROVE  PagesInv'
  <1>0. PageTypes /\ BindTypes /\ InboxTypes /\ WireTypes BY TypesByPart
  <1>00. Version \in Nat /\ Version \in 1..Version BY DEF LastVersion
  <1>01. PageFollows(t) /\ NewsReach(t) BY PagesByTab DEF PagesInv, PagesFollow
  <1>02. newest[t] \in Nat /\ owed[t] \in Nat /\ asked[t] \in Nat BY <1>0 DEF PageTypes
  <1>1. CASE Render(t)
    <2>1. /\ page[t] = "away" /\ page'[t] = "loading" /\ card'[t] = Version /\ newest'[t] = Version
          /\ answers'[t] = answers[t] /\ owed'[t] = owed[t]
          /\ \A u \in Tabs \ {t} : SamePage(u)
          /\ UNCHANGED <<dbVars, pending, connected>> /\ Version' = Version
      BY <1>0, <1>1, NobodyAges DEF Render, PageTypes, SamePage, wireVars
    <2>2. PageFollows(t)' BY <1>00, <1>01, <2>1 DEF PageFollows
    <2>3. NewsReach(t)' BY <2>1 DEF NewsReach
    <2>4. \A b \in Broadcast : b.version <= Version => AnswerReaches(t, b)'
      BY <2>1 DEF AnswerReaches
    <2> QED BY <2>1, <2>2, <2>3, <2>4, OnePage
  <1>2. CASE Mount(t)
    <2>1. /\ page[t] = "loading" /\ page'[t] = "open" /\ online'[t] = connected[t]
          /\ visits' = visits /\ card' = card /\ missed' = missed /\ burst' = burst /\ asked' = asked
          /\ answers' = answers /\ newest' = newest /\ owed' = owed
          /\ \A u \in Tabs \ {t} : SamePage(u)
          /\ UNCHANGED <<dbVars, pending, connected>> /\ Version' = Version
      BY <1>0, <1>2, NobodyAges DEF Mount, PageTypes, SamePage, wireVars
    <2>2. PageFollows(t)' BY <1>01, <2>1 DEF PageFollows
    <2>3. NewsReach(t)' BY <1>01, <1>02, <2>1 DEF PageFollows, NewsReach
    <2>4. \A b : AnswerReaches(t, b) => AnswerReaches(t, b)' BY <2>1 DEF AnswerReaches
    <2> QED BY <2>1, <2>2, <2>3, <2>4, OnePage
  <1>3. ASSUME close(t), UNCHANGED <<dbVars, pending, wireVars>> PROVE PagesInv'
    <2>1. /\ page'[t] = "away" /\ owed'[t] = 0 /\ answers'[t] = {}
          /\ \A u \in Tabs \ {t} : SamePage(u)
          /\ UNCHANGED <<dbVars, pending, connected>> /\ Version' = Version
      BY <1>0, <1>3, Closing, NobodyAges DEF SamePage, wireVars
    <2>2. PageFollows(t)' BY <1>00, <2>1 DEF PageFollows
    <2>3. NewsReach(t)' BY <2>1 DEF NewsReach
    <2>4. \A b : AnswerReaches(t, b)' BY <2>1 DEF AnswerReaches
    <2> QED BY <2>1, <2>2, <2>3, <2>4, OnePage
  <1>4. CASE Leave(t) BY <1>3, <1>4 DEF Leave
  <1>5. CASE ReceiveNews(t)
    <2>1. /\ page[t] = "open" => burst'[t]
          /\ page' = page /\ visits' = visits /\ card' = card /\ missed' = missed
          /\ answers' = answers /\ newest' = newest /\ owed' = owed /\ online' = online
          /\ \A u \in Tabs \ {t} : SamePage(u)
          /\ UNCHANGED <<dbVars, pending, connected>> /\ Version' = Version
      BY <1>0, <1>5, NobodyAges DEF ReceiveNews, PageTypes, WireTypes, SamePage
    <2>2. PageFollows(t)' BY <1>01, <2>1 DEF PageFollows
    <2>3. NewsReach(t)' BY <2>1 DEF NewsReach, tellsSoon
    <2>4. \A b : AnswerReaches(t, b) => AnswerReaches(t, b)' BY <2>1 DEF AnswerReaches
    <2> QED BY <2>1, <2>2, <2>3, <2>4, OnePage
  <1>6. CASE Reload(t)
    <2>1. /\ asked'[t] = asked[t] + 1
          /\ page' = page /\ visits' = visits /\ card' = card /\ missed' = missed
          /\ answers' = answers /\ newest' = newest /\ owed' = owed /\ online' = online
          /\ \A u \in Tabs \ {t} : SamePage(u)
          /\ UNCHANGED <<dbVars, pending, connected>> /\ Version' = Version
      BY <1>0, <1>6, NobodyAges DEF Reload, PageTypes, SamePage, wireVars
    <2>2. PageFollows(t)' BY <1>01, <2>1 DEF PageFollows
    <2>3. NewsReach(t)' BY <1>02, <2>1 DEF NewsReach, tellsSoon
    <2>4. \A b : AnswerReaches(t, b) => AnswerReaches(t, b)' BY <2>1 DEF AnswerReaches
    <2> QED BY <2>1, <2>2, <2>3, <2>4, OnePage
  <1>7. CASE ReadOrder(t)
    <2>1. /\ answers'[t] = answers[t] \union {Version}
          /\ page' = page /\ visits' = visits /\ card' = card /\ missed' = missed
          /\ newest' = newest /\ owed' = owed /\ online' = online
          /\ \A u \in Tabs \ {t} : SamePage(u)
          /\ UNCHANGED <<dbVars, pending, connected>> /\ Version' = Version
      BY <1>0, <1>7, NobodyAges DEF ReadOrder, PageTypes, SamePage, wireVars
    <2>2. PageFollows(t)' BY <1>00, <1>01, <2>1 DEF PageFollows
    <2>3. owed[t] <= Version BY <1>01 DEF PageFollows
    <2>4. NewsReach(t)' BY <1>00, <1>02, <2>1, <2>3 DEF NewsReach, tellsSoon
    <2>5. \A b : AnswerReaches(t, b) => AnswerReaches(t, b)' BY <2>1 DEF AnswerReaches
    <2> QED BY <2>1, <2>2, <2>4, <2>5, OnePage
  <1>8. ASSUME NEW v \in answers[t], Apply(t, v) PROVE PagesInv'
    <2>1. CASE close(t) BY <1>3, <1>8, <2>1 DEF Apply
    <2>2. CASE ~close(t)
      <3>1. /\ card'[t] = v /\ newest'[t] = larger(newest[t], v) /\ answers'[t] = answers[t] \ {v}
            /\ page' = page /\ visits' = visits /\ missed' = missed /\ burst' = burst
            /\ asked' = asked /\ owed' = owed /\ online' = online /\ news' = news
            /\ \A u \in Tabs \ {t} : SamePage(u)
            /\ UNCHANGED <<dbVars, pending, connected>> /\ Version' = Version
        BY <1>0, <1>8, <2>2, NobodyAges DEF Apply, PageTypes, SamePage, wireVars
      <3>2. v \in 1..Version BY <1>01 DEF PageFollows
      <3>3. v \in Nat /\ newest'[t] >= v /\ newest'[t] >= newest[t] /\ newest'[t] \in Nat
        BY <1>00, <1>02, <3>1, <3>2 DEF larger
      <3>4. PageFollows(t)' BY <1>01, <3>1, <3>2 DEF PageFollows
      <3>5. NewsReach(t)'
        <4>1. SUFFICES ASSUME page[t] = "open", online[t], owed[t] > newest'[t] PROVE tellsSoon(t)'
          BY <3>1 DEF NewsReach
        <4>2. owed[t] > newest[t] /\ ~(v >= owed[t]) BY <1>02, <3>3, <4>1
        <4>3. tellsSoon(t) BY <1>01, <4>1, <4>2 DEF NewsReach
        <4> QED BY <3>1, <4>2, <4>3 DEF tellsSoon
      <3>6. ASSUME NEW b \in Broadcast, AnswerReaches(t, b) PROVE AnswerReaches(t, b)'
        <4>1. b.version \in Nat BY RoomNumbers DEF Broadcast
        <4> QED BY <1>02, <3>1, <3>3, <3>6, <4>1 DEF AnswerReaches
      <3> QED BY <3>1, <3>4, <3>5, <3>6, OnePage
    <2> QED BY <2>1, <2>2
  <1> QED BY <1>1, <1>2, <1>4, <1>5, <1>6, <1>7, <1>8


-----------------------------------------------------------------------------
(* The theorems *)

LEMMA InvInit == Init => IInv
  <1> SUFFICES ASSUME Init PROVE IInv
    OBVIOUS
  <1>1. TypeOK BY TypesInit
  <1>2. /\ views = <<[stage |-> "open", active |-> {}, silent |-> FALSE]>>
        /\ stage = "open" /\ active = {} /\ pending = <<>> /\ room = {}
        /\ \A t \in Tabs : /\ inbox[t] = <<>> /\ handlers[t] = <<>> /\ replies[t] = <<>>
                           /\ timer[t] = {} /\ bound[t] = 0 /\ binds[t] = 0
                           /\ page[t] = "away" /\ owed[t] = 0 /\ answers[t] = {}
    BY DEF Init, ParticipantsInit
  <1>3. LastVersion
    <2>1. Version = 1 BY <1>2 DEF Version
    <2>2. MaxVersion \in Nat \ {0} BY RoomAssumption
    <2> QED BY <1>2, <2>1, <2>2 DEF LastVersion
  <1>4. BroadcastsFollow /\ EvictedAreOut BY <1>2 DEF BroadcastsFollow, EvictedAreOut
  <1>5. PagesFollow BY <1>2, <1>3 DEF PagesFollow, PageFollows, LastVersion
  <1>6. StrangersAreOnTheirWayOut /\ NewsReachOpenPages
    BY <1>2 DEF StrangersAreOnTheirWayOut, NewsReachOpenPages
  <1>7. ASSUME NEW t \in Tabs PROVE TabInv(t)
    <2>1. /\ \A b, p : ~handles(t, b, p)
          /\ \A b, a : ~answered(t, b, a)
          /\ \A b : ~awaits(t, b)
          /\ ~toLeave(t)
      BY <1>2 DEF handles, answered, awaits, toLeave
    <2>2. OnlyConnected(t) /\ BindingsFollow(t) /\ LeaversAreOut(t)
      BY <1>2, <2>1 DEF OnlyConnected, BindingsFollow, LeaversAreOut, inProgress
    <2>3. \A b \in Binding : bound[t] # b BY <1>2, RoomNumbers DEF Binding
    <2> QED BY <2>2, <2>3 DEF TabInv
  <1> QED BY <1>1, <1>3, <1>4, <1>5, <1>6, <1>7 DEF IInv, TabsInv

LEMMA InvNext == IInv /\ [Next]_vars => IInv'
  <1> SUFFICES ASSUME IInv, [Next]_vars PROVE IInv'
    OBVIOUS
  <1>0. /\ TypeOK /\ LastVersion /\ TabsInv /\ PagesFollow /\ EvictedAreOut /\ PagesInv
        /\ StrangersAreOnTheirWayOut
    BY DEF IInv, PagesInv
  <1>1. TypeOK' /\ LastVersion' BY <1>0, TypesNext
  <1>2. SUFFICES TabsInv' /\ PagesInv' /\ StrangersAreOnTheirWayOut'
    BY <1>1 DEF IInv, PagesInv
  \* What a step that leaves the room and its handlers alone does to strangers: nothing.
  <1>3. ASSUME UNCHANGED <<dbVars, pending, room, handlers, abandoned>>
        PROVE  StrangersAreOnTheirWayOut'
    BY <1>0, <1>3, StrangersStay DEF handles
  <1>4. CASE Commits BY <1>0, <1>4, CommitTabs, CommitPages, CommitStrangers
  <1>5. CASE Dispatch BY <1>0, <1>5, DispatchTabs, DispatchPages, DispatchStrangers
  <1>6. ASSUME NEW t \in Tabs, ReceiveSubscribe(t) \/ ReceiveUnsubscribe(t)
        PROVE  TabsInv' /\ PagesInv' /\ StrangersAreOnTheirWayOut'
    <2>1. UNCHANGED <<dbVars, pending, connected, news, pageVars>>
      BY <1>6 DEF ReceiveSubscribe, ReceiveUnsubscribe, wireVars
    <2> QED BY <1>0, <1>6, <2>1, SubscribeTab, UnsubscribeTab, NoPage, GatewayStrangers
  <1>7. ASSUME NEW t \in Tabs, NEW i \in DOMAIN handlers[t],
               CheckBefore(t, i) \/ Join(t, i) \/ CheckAfter(t, i) \/ LeaveAfterCheck(t, i)
        PROVE  TabsInv' /\ PagesInv' /\ StrangersAreOnTheirWayOut'
    <2>1. UNCHANGED <<dbVars, pending, connected, news, pageVars>>
      BY <1>7 DEF CheckBefore, Join, CheckAfter, LeaveAfterCheck
    <2>2. TabsInv' BY <1>0, <1>7, HandlerTab
    <2>3. PagesInv' BY <1>0, <2>1, NoPage
    <2>4. StrangersAreOnTheirWayOut' BY <1>0, <1>7, GatewayStrangers
    <2> QED BY <2>2, <2>3, <2>4
  <1>8. ASSUME NEW t \in Tabs, ReceiveReply(t)
        PROVE  TabsInv' /\ PagesInv' /\ StrangersAreOnTheirWayOut'
    <2>1. UNCHANGED <<dbVars, pending, connected, news, pageVars, room, handlers, abandoned>>
      BY <1>8 DEF ReceiveReply, serverVars
    <2> QED BY <1>0, <1>3, <1>8, <2>1, ReplyTab, NoPage
  <1>9. ASSUME NEW t \in Tabs, NEW b \in timer[t], RetryJoin(t, b)
        PROVE  TabsInv' /\ PagesInv' /\ StrangersAreOnTheirWayOut'
    <2>1. UNCHANGED <<dbVars, pending, connected, news, pageVars, room, handlers, abandoned>>
      BY <1>9 DEF RetryJoin, wireVars
    <2> QED BY <1>0, <1>3, <1>9, <2>1, RetryTab, NoPage
  <1>10. ASSUME NEW t \in Tabs, Connect(t)
         PROVE  TabsInv' /\ PagesInv' /\ StrangersAreOnTheirWayOut'
    <2>1. UNCHANGED <<dbVars, pending, room, handlers, abandoned>> BY <1>10 DEF Connect
    <2> QED BY <1>0, <1>3, <1>10, <2>1, ConnectTab, ConnectPages
  <1>11. ASSUME NEW t \in Tabs, Disconnect(t)
         PROVE  TabsInv' /\ PagesInv' /\ StrangersAreOnTheirWayOut'
    BY <1>0, <1>11, DisconnectTab, DisconnectPages, DisconnectStrangers
  <1>12. ASSUME NEW t \in Tabs,
                \/ Render(t) \/ Mount(t) \/ Leave(t) \/ ReceiveNews(t) \/ Reload(t) \/ ReadOrder(t)
                \/ \E v \in answers[t] : Apply(t, v)
         PROVE  TabsInv' /\ PagesInv' /\ StrangersAreOnTheirWayOut'
    <2>1. UNCHANGED <<dbVars, pending, room, handlers, abandoned>>
      BY <1>12 DEF Render, Mount, Leave, ReceiveNews, Reload, ReadOrder, Apply, serverVars
    <2> QED BY <1>0, <1>3, <1>12, <2>1, PageTab, PageActionPages
  <1>13. CASE UNCHANGED vars
    <2>1. /\ UNCHANGED <<dbVars, pending, room, handlers, abandoned>>
          /\ UNCHANGED <<dbVars, pending, connected, news, pageVars>>
          /\ \A t : SameTab(t) /\ (t \in room' <=> t \in room)
      BY <1>13 DEF vars, serverVars, wireVars, bindVars, SameTab, SameBinding
    <2>2. TabsInv' BY <1>0, <2>1, NobodyAges, TabKept DEF TabsInv
    <2> QED BY <1>0, <1>3, <2>1, <2>2, NoPage
  <1>14. CASE Next
    BY <1>0, <1>4, <1>5, <1>6, <1>7, <1>8, <1>9, <1>10, <1>11, <1>12, <1>14, CommitSteps DEF Next
  <1> QED BY <1>13, <1>14

LEMMA Invariant == Spec => []IInv
  BY InvInit, InvNext, PTL DEF Spec

\* The gateway, the sockets and the pages keep to their types: no step leads to a state
\* that the code has no name for.
THEOREM RoomTypesHold == Spec => []TypeOK
  <1>1. IInv => TypeOK BY DEF IInv
  <1> QED BY <1>1, Invariant, PTL

\* Whoever takes part and has not lost a place before is in the room, on its way in, or has
\* used up the retries; nobody else is in the room but those who are about to be put out,
\* or whom a failed check left there: subscribeOrder and bindRoom together.
THEOREM RoomAlwaysHoldsParticipants == Spec => []RoomHoldsParticipants
  <1>1. IInv => StrangersAreOnTheirWayOut BY DEF IInv
  <1>2. ASSUME IInv PROVE BoundPageIsInRoom
    <2>1. ASSUME NEW t \in Tabs, bound[t] # 0, connected[t], isOrderParticipant(Owner[t]),
                 ~hasLostPlace(Owner[t])
          PROVE  t \in room \/ joinsSoon(t) \/ attempt[t][bound[t]] = Retries
      <3>1. BindTypes BY <1>2, TypesByPart DEF IInv
      <3>2. PICK b \in Binding : b = bound[t] BY <2>1, <3>1, RoomNumbers DEF BindTypes, Binding
      <3>3. staysIn(t) BY <2>1 DEF staysIn, isOut, isOrderParticipant
      <3>4. BoundIsIn(t, b) BY <1>2, <3>2 DEF IInv, TabsInv, TabInv, BindingHolds
      <3>5. \/ t \in room
            \/ awaits(t, b) \/ handles(t, b, "asking") \/ handles(t, b, "admitted")
            \/ answered(t, b, "retry") \/ b \in timer[t]
            \/ attempt[t][b] = Retries
        BY <3>3, <3>4 DEF BoundIsIn
      <3>6. answered(t, b, "retry") => joinsSoon(t)
        <4>1. ASSUME NEW i \in DOMAIN replies[t], replies[t][i].binding = b,
                     replies[t][i].answer = "retry"
              PROVE  replies[t][i] = [binding |-> b, answer |-> "retry"]
          <5>1. replies[t] \in Seq(Reply) BY <1>2, TypesByPart DEF IInv, ReplyTypes
          <5>2. replies[t][i] \in Reply BY <5>1, LenProperties, ElementOfSeq
          <5> QED BY <4>1, <5>2 DEF Reply
        <4> QED BY <3>2, <4>1 DEF answered, joinsSoon
      <3>7. awaits(t, b) => joinsSoon(t) BY <3>2 DEF awaits, joinsSoon
      <3>8. handles(t, b, "asking") \/ handles(t, b, "admitted") => joinsSoon(t)
        BY <3>2 DEF handles, joinsSoon
      <3>9. b \in timer[t] => joinsSoon(t) BY <3>2 DEF joinsSoon
      <3> QED BY <3>2, <3>5, <3>6, <3>7, <3>8, <3>9
    <2> QED BY <2>1 DEF BoundPageIsInRoom
  <1>3. IInv => RoomHoldsParticipants BY <1>1, <1>2 DEF RoomHoldsParticipants
  <1> QED BY <1>3, Invariant, PTL

\* An open page shows what it was told of, or a reading is under way that will: neither a
\* burst that collapses events, nor a broken connection, nor an answer that overtakes
\* another keeps a change from it (dispatch, bindRefresh and apply together).
THEOREM NewsAlwaysReach == Spec => []NewsReachOpenPages
  <1>1. IInv => NewsReachOpenPages BY DEF IInv
  <1> QED BY <1>1, Invariant, PTL


=============================================================================
