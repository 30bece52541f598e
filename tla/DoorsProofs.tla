------------------------------ MODULE DoorsProofs ------------------------------
(***************************************************************************)
(* Proofs about the doors of the application, for any accounts with any    *)
(* roles and however much happens outside of the tab: whom the proxy lets  *)
(* in the guards serve, and the menu and a sign-in lead where they should. *)
(* Both rest on one fact about five tables: the pages that the proxy opens *)
(* to a role are those whose every request the routes serve to it.         *)
(***************************************************************************)
EXTENDS Doors, TLAPS

-----------------------------------------------------------------------------
(* The tables agree *)

clientRoutes ==
  {"POST /orders/:id/accept-offer", "POST /orders/:id/confirm", "POST /orders/:id/dispute",
   "POST /orders", "GET /orders", "DELETE /orders/:id", "POST /offers/:id/reject",
   "GET /contractors", "GET /contractors/:id"}
companyRoutesAll ==
  {"POST /orders/:id/submit", "POST /orders/:id/files", "PATCH /orders/:id/verified-area",
   "GET /company/orders/available", "GET /company/offers", "POST /offers",
   "POST /offers/:id/withdraw"}

LEMMA RoutesOfRoles ==
  ASSUME NEW r
  PROVE  /\ "CLIENT" \in requiredRoles(r) <=> r \in clientRoutes
         /\ "COMPANY" \in requiredRoles(r) <=> r \in companyRoutesAll
         /\ requiredRoles(r) \subseteq {"CLIENT", "COMPANY"}
<1>1. requiredRoles(r) = {role \in Roles :
         \/ r \in workflowRoutes[role] \/ r \in ordersRoutes[role] \/ r \in companyRoutes[role]
         \/ r \in offersRoutes[role] \/ r \in contractorsRoutes[role] \/ r \in documentsRoutes[role]
         \/ r \in notificationsRoutes[role] \/ r \in profileRoutes[role]}
  BY DEF requiredRoles, Controllers
<1>2. /\ workflowRoutes["CLIENT"] \union ordersRoutes["CLIENT"] \union companyRoutes["CLIENT"]
           \union offersRoutes["CLIENT"] \union contractorsRoutes["CLIENT"]
           \union documentsRoutes["CLIENT"] \union notificationsRoutes["CLIENT"]
           \union profileRoutes["CLIENT"] = clientRoutes
  BY DEF workflowRoutes, ordersRoutes, companyRoutes, offersRoutes, contractorsRoutes,
         documentsRoutes, notificationsRoutes, profileRoutes, clientRoutes
<1>3. /\ workflowRoutes["COMPANY"] \union ordersRoutes["COMPANY"] \union companyRoutes["COMPANY"]
           \union offersRoutes["COMPANY"] \union contractorsRoutes["COMPANY"]
           \union documentsRoutes["COMPANY"] \union notificationsRoutes["COMPANY"]
           \union profileRoutes["COMPANY"] = companyRoutesAll
  BY DEF workflowRoutes, ordersRoutes, companyRoutes, offersRoutes, contractorsRoutes,
         documentsRoutes, notificationsRoutes, profileRoutes, companyRoutesAll
<1>4. "CLIENT" \in requiredRoles(r) <=> r \in clientRoutes
  BY <1>1, <1>2 DEF Roles
<1>5. "COMPANY" \in requiredRoles(r) <=> r \in companyRoutesAll
  BY <1>1, <1>3 DEF Roles
<1> QED BY <1>1, <1>4, <1>5 DEF Roles

\* A page is usable to a role, by its requests, when none of them is kept for the other.
LEMMA UsableByRoutes ==
  ASSUME NEW page \in Sections
  PROVE  /\ usable(page, "CLIENT") <=>
              (pageRequests(page, "CLIENT") \union pageCalls(page, "CLIENT")) \cap companyRoutesAll = {}
         /\ usable(page, "COMPANY") <=>
              (pageRequests(page, "COMPANY") \union pageCalls(page, "COMPANY")) \cap clientRoutes = {}
<1>1. clientRoutes \cap companyRoutesAll = {}
  BY DEF clientRoutes, companyRoutesAll
<1>2. \A r : /\ (requiredRoles(r) = {} \/ "CLIENT" \in requiredRoles(r)) <=> r \notin companyRoutesAll
             /\ (requiredRoles(r) = {} \/ "COMPANY" \in requiredRoles(r)) <=> r \notin clientRoutes
  BY <1>1, RoutesOfRoles
<1> QED BY <1>2 DEF usable

\* The pages that the proxy opens to a role are the usable ones.
LEMMA TablesAgree ==
  ASSUME NEW page \in Sections, NEW role \in Roles
  PROVE  usable(page, role) <=> isAllowedForRole(page, role)
<1>1. CASE role = "CLIENT"
  <2>1. (pageRequests(page, "CLIENT") \union pageCalls(page, "CLIENT")) \cap companyRoutesAll = {}
          <=> page \notin {"/available", "/offers"}
    BY DEF Sections, OrderPages, ContractorPages, pageRequests, pageCalls, layoutRequests,
           documentRequests, orderCalls, workflowRoutes, companyRoutesAll
  <2> QED BY <1>1, <2>1, UsableByRoutes DEF isAllowedForRole
<1>2. CASE role = "COMPANY"
  <2>1. (pageRequests(page, "COMPANY") \union pageCalls(page, "COMPANY")) \cap clientRoutes = {}
          <=> page \notin {"/orders", "/orders/new"} \union ContractorPages
    BY DEF Sections, OrderPages, ContractorPages, pageRequests, pageCalls, layoutRequests,
           documentRequests, orderCalls, workflowRoutes, clientRoutes
  <2> QED BY <1>2, <2>1, UsableByRoutes DEF isAllowedForRole
<1> QED BY <1>1, <1>2 DEF Roles

-----------------------------------------------------------------------------
(* Tokens and what the doors make of them *)

\* A token says the role of its user, or none.
honest(t) == t = NoToken \/ t.role \in {NoRole, RoleOf[t.user]}

HonestTokens == honest(cookie) /\ honest(door) /\ honest(socket)

LEMMA IssuedTokens ==
  ASSUME NEW u \in Users
  PROVE  issue(u) \in Token /\ issue(u).fresh /\ issue(u).user = u /\ honest(issue(u))
<1>1. RoleOf[u] \in Roles
  BY DoorsAssumption
<1>2. /\ custom_access_token_hook(u).verified \in {"yes", "no", "unsaid"}
      /\ custom_access_token_hook(u).role \in {NoRole, RoleOf[u]}
      /\ custom_access_token_hook(u).role \in Roles \union {NoRole}
  BY <1>1 DEF custom_access_token_hook
<1> QED BY <1>2 DEF issue, Token, honest

LEMMA RenewedTokens ==
  ASSUME NEW t \in Token \union {NoToken}, honest(t), alive \subseteq Users
  PROVE  /\ renewed(t) \in Token \union {NoToken} /\ honest(renewed(t))
         /\ renewed(t) # NoToken => renewed(t).fresh
<1>1. CASE t = NoToken \/ t.fresh
  <2>1. renewed(t) = t
    BY <1>1 DEF renewed
  <2> QED BY <1>1, <2>1
<1>2. CASE ~(t = NoToken \/ t.fresh) /\ t.user \in alive
  BY <1>2, IssuedTokens DEF renewed
<1>3. CASE ~(t = NoToken \/ t.fresh) /\ t.user \notin alive
  BY <1>3 DEF renewed, honest
<1> QED BY <1>1, <1>2, <1>3

\* With a token that the proxy lets onto a page of the cabinet, every request of
\* the page is answered.
LEMMA LetInIsServed ==
  ASSUME NEW t \in Token, honest(t), t.fresh, NEW page \in Sections,
         proxyTarget(page, t) = stay,
         NEW r \in pageRequests(page, RoleOf[t.user]) \union pageCalls(page, RoleOf[t.user])
  PROVE  answerTo(r, t) = "passed"
<1>1. t # NoToken
  BY DoorsValues
<1>2. page \notin AUTH_FLOW_PAGES \union SESSION_ISSUE_PAGES \union GUEST_ONLY_PAGES
  BY DEF Sections, OrderPages, ContractorPages, AUTH_FLOW_PAGES, SESSION_ISSUE_PAGES,
         GUEST_ONLY_PAGES
<1>3. page # "/verify-email" /\ page # "/no-role"
  BY <1>2 DEF SESSION_ISSUE_PAGES
<1>4. /\ readEmailVerifiedClaim(t) /\ readRoleClaim(t) # NoRole
      /\ isAllowedForRole(page, readRoleClaim(t))
  BY <1>1, <1>2, <1>3 DEF proxyTarget, userTarget, stayOrGo, stay
<1>5. readRoleClaim(t) = RoleOf[t.user] /\ readRoleClaim(t) \in Roles
  BY <1>1, <1>4 DEF readRoleClaim, honest
<1>6. usable(page, readRoleClaim(t))
  BY <1>4, <1>5, TablesAgree
<1>7. RolesGuard(r, t) = "passed"
  BY <1>5, <1>6 DEF usable, RolesGuard
<1> QED BY <1>1, <1>4, <1>7 DEF answerTo, SupabaseAuthGuard, authenticates

\* The handshake of the socket goes by the same rule as the guard.
LEMMA LetInConnects ==
  ASSUME NEW t \in Token, t.fresh, NEW page \in Sections, proxyTarget(page, t) = stay
  PROVE  authenticate(t) = "passed"
<1>1. t # NoToken
  BY DoorsValues
<1>2. page \notin AUTH_FLOW_PAGES /\ page # "/verify-email"
  BY DEF Sections, OrderPages, ContractorPages, AUTH_FLOW_PAGES
<1>3. readEmailVerifiedClaim(t)
  BY <1>1, <1>2 DEF proxyTarget, userTarget, stayOrGo, stay, readEmailVerifiedClaim
<1> QED BY <1>1, <1>3 DEF authenticate, authenticates, readEmailVerifiedClaim

LEMMA LetInHearsFeed ==
  ASSUME NEW t \in Token, honest(t), t.fresh, proxyTarget("/available", t) = stay
  PROVE  subscribeFeed(t) = "passed"
<1>1. t # NoToken
  BY DoorsValues
<1>2. "/available" \notin AUTH_FLOW_PAGES
  BY DEF AUTH_FLOW_PAGES
<1>3. readRoleClaim(t) # NoRole /\ isAllowedForRole("/available", readRoleClaim(t))
  BY <1>1, <1>2 DEF proxyTarget, userTarget, stayOrGo, stay
<1> QED BY <1>1, <1>3 DEF isAllowedForRole, subscribeFeed, activeUser

-----------------------------------------------------------------------------
(* Types *)

Addresses == [path : Pages, next : Sections \union {NoNext, Foreign, "/login"}]

LEMMA SomePages ==
  /\ Sections \subseteq Pages /\ "/" \in Pages /\ "/login" \in Pages
  /\ "/verify-email" \in Pages /\ "/no-role" \in Pages /\ "/callback/complete" \in Pages
  /\ \A role : getHomeHref(role) \in Pages
  /\ \A role : getNavigation(role) \subseteq Sections
<1>1. \A role : getHomeHref(role) \in {"/available", "/orders", "/no-role"}
  BY DEF getHomeHref
<1>2. {"/available", "/orders"} \subseteq Sections
  BY DEF Sections, OrderPages, ContractorPages
<1>3. \A role : getNavigation(role) \subseteq Sections
  BY DEF getNavigation, Sections, OrderPages, ContractorPages
<1> QED BY <1>1, <1>2, <1>3
      DEF Pages, GUEST_ONLY_PAGES, SESSION_ISSUE_PAGES, AUTH_FLOW_PAGES

LEMMA Targets ==
  ASSUME NEW page \in Pages, NEW t
  PROVE  proxyTarget(page, t) \subseteq Addresses
<1>1. guestTarget(page) \subseteq Addresses
  BY SomePages DEF guestTarget, at, stay, Addresses
<1>2. userTarget(page, t) \subseteq Addresses
  BY SomePages DEF userTarget, stayOrGo, at, stay, Addresses
<1> QED BY <1>1, <1>2 DEF proxyTarget

LEMMA InitTypes == Init => TypeOK /\ HonestTokens
<1> SUFFICES ASSUME Init PROVE TypeOK /\ HonestTokens
  OBVIOUS
<1>1. place \in Addresses /\ promise \in Promise
  BY SomePages DEF Init, at, Addresses, Promise
<1>2. HonestTokens
  BY DEF Init, HonestTokens, honest
<1>3. events \in 0..MaxEvents
  BY DoorsAssumption DEF Init
<1>4. /\ hookOn \in BOOLEAN /\ confirmed \subseteq Users /\ alive \subseteq Users
      /\ cookie = NoToken /\ door = NoToken /\ socket = NoToken
      /\ phase = "asking" /\ renews = FALSE
  BY DEF Init
<1> QED BY <1>1, <1>2, <1>3, <1>4 DEF TypeOK, Addresses

LEMMA NextTypes == TypeOK /\ HonestTokens /\ [Next]_vars => TypeOK' /\ HonestTokens'
<1> SUFFICES ASSUME TypeOK, HonestTokens, [Next]_vars PROVE TypeOK' /\ HonestTokens'
  OBVIOUS
<1>t. /\ renewed(cookie) \in Token \union {NoToken} /\ honest(renewed(cookie))
      /\ place.path \in Pages /\ place.next \in Sections \union {NoNext, Foreign, "/login"}
  BY RenewedTokens DEF TypeOK, HonestTokens
<1>1. CASE Proxy
  <2>1. place' \in Addresses
    BY <1>1, <1>t, Targets DEF Proxy, go, TypeOK, Addresses
  <2> QED BY <1>1, <1>t, <2>1
        DEF Proxy, go, outside, TypeOK, HonestTokens, Addresses
<1>2. CASE Render
  <2>1. redirected \in {at(getHomeHref(readRoleClaim(door))), at("/login"),
                         at("/callback/complete"), place}
    BY DEF redirected
  <2>2. /\ at(getHomeHref(readRoleClaim(door))) \in Addresses /\ at("/login") \in Addresses
        /\ at("/callback/complete") \in Addresses /\ place \in Addresses
    BY SomePages DEF at, Addresses, TypeOK
  <2>3. redirected \in Addresses
    BY <2>1, <2>2
  <2>4. place' \in Addresses /\ phase' \in {"asking", "shown"}
    BY <1>2, <2>2, <2>3 DEF Render, go
  <2>5. cookie' \in {cookie, door} /\ socket' \in {socket, NoToken} /\ renews' = FALSE
    BY <1>2 DEF Render, go
  <2>6. UNCHANGED <<hookOn, confirmed, alive, door, promise, events>>
    BY <1>2 DEF Render, outside
  <2> QED BY <2>4, <2>5, <2>6 DEF TypeOK, HonestTokens, honest, Addresses
<1>3. ASSUME NEW page \in Pages, NEW next \in Sections \union {NoNext, Foreign, "/login"},
             Visit(page, next)
      PROVE  TypeOK' /\ HonestTokens'
  BY <1>3, SomePages DEF Visit, go, outside, TypeOK, HonestTokens, honest, Promise
<1>4. ASSUME NEW page \in Sections, FollowMenu(page)
      PROVE  TypeOK' /\ HonestTokens'
  BY <1>4, SomePages DEF FollowMenu, go, at, outside, TypeOK, HonestTokens, Promise
<1>5. ASSUME NEW u \in Users, SignIn(u)
      PROVE  TypeOK' /\ HonestTokens'
  <2>1. safeNextPath(place.next) \in Pages
    BY <1>t, SomePages DEF safeNextPath
  <2>2. resolveAfterAuthHref(safeNextPath(place.next), issue(u)) \in Pages
    BY <2>1, SomePages DEF resolveAfterAuthHref
  <2>3. promise' \in Promise \union {NoPromise}
    BY <1>5 DEF SignIn, TypeOK, Promise
  <2> QED BY <1>5, <2>2, <2>3, IssuedTokens DEF SignIn, go, at, TypeOK, HonestTokens
<1>6. CASE SignOut
  BY <1>6, SomePages DEF SignOut, go, at, TypeOK, HonestTokens, honest, Promise
<1>7. CASE Call
  BY <1>7, <1>t DEF Call, outside, TypeOK, HonestTokens
<1>8. CASE Connect
  BY <1>8, <1>t DEF Connect, createAppSocket, handleConnection, outside, TypeOK, HonestTokens,
     honest
<1>9. CASE AskFeed
  BY <1>9 DEF AskFeed, outside, TypeOK, HonestTokens
<1>10. CASE SocketCloses
  BY <1>10 DEF SocketCloses, outside, TypeOK, HonestTokens, honest
<1>11. CASE SwitchHook
  BY <1>11, DoorsAssumption DEF SwitchHook, happens, TypeOK, HonestTokens
<1>12. ASSUME NEW u \in Users, Confirm(u) PROVE TypeOK' /\ HonestTokens'
  BY <1>12, DoorsAssumption DEF Confirm, happens, TypeOK, HonestTokens
<1>13. ASSUME NEW u \in Users, ElsewhereSignIn(u) PROVE TypeOK' /\ HonestTokens'
  BY <1>13, DoorsAssumption, IssuedTokens DEF ElsewhereSignIn, happens, TypeOK, HonestTokens
<1>14. CASE ElsewhereSignOut
  BY <1>14, DoorsAssumption DEF ElsewhereSignOut, happens, TypeOK, HonestTokens, honest
<1>15. CASE TokenAges
  BY <1>15, ZenonT(40) DEF TokenAges, outside, TypeOK, HonestTokens, honest, Token
<1>16. CASE UNCHANGED vars
  BY <1>16 DEF vars, TypeOK, HonestTokens
<1> QED
  BY <1>1, <1>2, <1>3, <1>4, <1>5, <1>6, <1>7, <1>8, <1>9, <1>10, <1>11, <1>12, <1>13, <1>14,
     <1>15, <1>16 DEF Next

\* The tab, its tokens and its promise keep their types, and a token never
\* names a role that is not its user's.
THEOREM DoorsTypes == Spec => [](TypeOK /\ HonestTokens)
<1> QED BY InitTypes, NextTypes, PTL DEF Spec

-----------------------------------------------------------------------------
(* Whom the proxy lets in the guards serve *)

\* A page is rendered, and stays open, with a token that was fresh when the proxy
\* let it through; the API is asked when the page is there.
LetIn ==
  phase # "asking" =>
    proxyTarget(place.path, door) = stay /\ (door # NoToken => door.fresh)

NothingAsked == phase # "shown" => answers = {}

CabinetInv == LetIn /\ NothingAsked /\ CabinetIsServed

LEMMA InitCabinet == Init => CabinetInv
  BY DEF Init, CabinetInv, LetIn, NothingAsked, CabinetIsServed

LEMMA NextCabinet ==
  TypeOK /\ HonestTokens /\ CabinetInv /\ [Next]_vars => CabinetInv'
<1> SUFFICES ASSUME TypeOK, HonestTokens, CabinetInv, [Next]_vars PROVE CabinetInv'
  OBVIOUS
<1>t. /\ door \in Token \union {NoToken} /\ honest(door)
      /\ phase = "shown" => proxyTarget(place.path, door) = stay
      /\ phase = "shown" /\ door # NoToken => door.fresh
  BY DEF TypeOK, HonestTokens, CabinetInv, LetIn
<1>1. CASE Proxy
  <2>1. renewed(cookie) # NoToken => renewed(cookie).fresh
    BY RenewedTokens DEF TypeOK, HonestTokens
  <2>2. answers' = {}
    BY <1>1 DEF Proxy, go, CabinetInv, NothingAsked
  <2>3. LetIn'
    BY <1>1, <2>1 DEF Proxy, go, LetIn
  <2> QED BY <2>2, <2>3 DEF CabinetInv, NothingAsked, CabinetIsServed
<1>2. CASE Render
  <2>1. proxyTarget(place.path, door) = stay /\ (door # NoToken => door.fresh)
    BY <1>2 DEF Render, CabinetInv, LetIn
  <2>2. CASE redirected # place
    BY <1>2, <2>2 DEF Render, go, CabinetInv, LetIn, NothingAsked, CabinetIsServed
  <2>3. CASE redirected = place
    <3>1. phase' = "shown" /\ place' = place /\ door' = door
      BY <1>2, <2>3 DEF Render
    <3>2. ASSUME NEW a \in answers' PROVE a.answer = "passed"
      <4>1. door # NoToken /\ answers' = answersTo(pageRequests(place.path, RoleOf[door.user]), door)
        BY <1>2, <2>3, <3>2 DEF Render
      <4>2. place.path \in Sections
        BY <3>2, <4>1 DEF answersTo, pageRequests, Sections, OrderPages, ContractorPages
      <4>3. PICK r \in pageRequests(place.path, RoleOf[door.user]) : a.answer = answerTo(r, door)
        BY <3>2, <4>1 DEF answersTo
      <4> QED BY <1>t, <2>1, <4>1, <4>2, <4>3, LetInIsServed
    <3> QED BY <2>1, <3>1, <3>2 DEF CabinetInv, LetIn, NothingAsked, CabinetIsServed
  <2> QED BY <2>2, <2>3
<1>3. ASSUME NEW page \in Pages, NEW next \in Sections \union {NoNext, Foreign, "/login"},
             Visit(page, next)
      PROVE  CabinetInv'
  BY <1>3 DEF Visit, go, CabinetInv, LetIn, NothingAsked, CabinetIsServed
<1>4. ASSUME NEW page \in Sections, FollowMenu(page)
      PROVE  CabinetInv'
  BY <1>4 DEF FollowMenu, go, CabinetInv, LetIn, NothingAsked, CabinetIsServed
<1>5. ASSUME NEW u \in Users, SignIn(u)
      PROVE  CabinetInv'
  BY <1>5 DEF SignIn, go, CabinetInv, LetIn, NothingAsked, CabinetIsServed
<1>6. CASE SignOut
  BY <1>6 DEF SignOut, go, CabinetInv, LetIn, NothingAsked, CabinetIsServed
<1>7. CASE Call
  <2>1. /\ phase = "shown" /\ place.path \in Sections /\ door # NoToken
        /\ answers' = answers \union
             answersTo(pageCalls(place.path, RoleOf[door.user]), renewed(cookie))
        /\ UNCHANGED <<phase, place, door>>
    BY <1>7 DEF Call
  <2>2. ASSUME NEW a \in answersTo(pageCalls(place.path, RoleOf[door.user]), renewed(cookie)),
               a.token = door
        PROVE  a.answer = "passed"
    <3>1. PICK r \in pageCalls(place.path, RoleOf[door.user]) :
            a = [route |-> r, token |-> renewed(cookie), answer |-> answerTo(r, renewed(cookie))]
      BY DEF answersTo
    <3>2. a.answer = answerTo(r, door)
      BY <2>2, <3>1
    <3> QED BY <1>t, <2>1, <3>2, LetInIsServed
  <2> QED BY <2>1, <2>2 DEF CabinetInv, LetIn, NothingAsked, CabinetIsServed
<1>8. CASE Connect
  <2>1. /\ phase = "shown" /\ place.path \in Sections /\ door # NoToken
        /\ answers' = answers \union {[route |-> "WS handshake", token |-> renewed(cookie),
                                       answer |-> authenticate(renewed(cookie))]}
        /\ UNCHANGED <<phase, place, door>>
    BY <1>8 DEF Connect, createAppSocket
  <2>2. authenticate(door) = "passed"
    BY <1>t, <2>1, LetInConnects
  <2>3. ASSUME NEW a \in answers', a.token = door PROVE a.answer = "passed"
    <3>1. a \in answers \/ a = [route |-> "WS handshake", token |-> renewed(cookie),
                                answer |-> authenticate(renewed(cookie))]
      BY <2>1, <2>3
    <3>2. CASE a \in answers
      BY <2>3, <3>2 DEF CabinetInv, CabinetIsServed
    <3>3. CASE a = [route |-> "WS handshake", token |-> renewed(cookie),
                    answer |-> authenticate(renewed(cookie))]
      <4>1. a.answer = authenticate(door)
        BY <2>3, <3>3
      <4> QED BY <2>2, <4>1
    <3> QED BY <3>1, <3>2, <3>3
  <2> QED BY <2>1, <2>3 DEF CabinetInv, LetIn, NothingAsked, CabinetIsServed
<1>9. CASE AskFeed
  <2>1. /\ phase = "shown" /\ place.path = "/available" /\ door # NoToken
        /\ answers' = answers \union {[route |-> "WS subscribe:feed", token |-> socket,
                                       answer |-> subscribeFeed(socket)]}
        /\ UNCHANGED <<phase, place, door>>
    BY <1>9 DEF AskFeed
  <2>2. subscribeFeed(door) = "passed"
    BY <1>t, <2>1, LetInHearsFeed
  <2>3. ASSUME NEW a \in answers', a.token = door PROVE a.answer = "passed"
    <3>1. a \in answers \/ a = [route |-> "WS subscribe:feed", token |-> socket,
                                answer |-> subscribeFeed(socket)]
      BY <2>1, <2>3
    <3>2. CASE a \in answers
      BY <2>3, <3>2 DEF CabinetInv, CabinetIsServed
    <3>3. CASE a = [route |-> "WS subscribe:feed", token |-> socket,
                    answer |-> subscribeFeed(socket)]
      <4>1. a.answer = subscribeFeed(door)
        BY <2>3, <3>3
      <4> QED BY <2>2, <4>1
    <3> QED BY <3>1, <3>2, <3>3
  <2> QED BY <2>1, <2>3 DEF CabinetInv, LetIn, NothingAsked, CabinetIsServed
<1>10. CASE UNCHANGED <<phase, place, door, answers>>
  BY <1>10 DEF CabinetInv, LetIn, NothingAsked, CabinetIsServed
<1>11. CASE \/ SocketCloses \/ SwitchHook \/ ElsewhereSignOut \/ TokenAges \/ UNCHANGED vars
            \/ \E u \in Users : Confirm(u) \/ ElsewhereSignIn(u)
  BY <1>10, <1>11 DEF SocketCloses, SwitchHook, ElsewhereSignOut, TokenAges, vars, Confirm,
     ElsewhereSignIn
<1> QED
  BY <1>1, <1>2, <1>3, <1>4, <1>5, <1>6, <1>7, <1>8, <1>9, <1>11 DEF Next

\* Whom the proxy lets onto a page, the guards and the gateway serve: no request
\* of the page, at once or later, is refused to the token it was opened with.
THEOREM CabinetAlwaysServed == Spec => []CabinetIsServed
<1>1. Init => TypeOK /\ HonestTokens /\ CabinetInv
  BY InitTypes, InitCabinet
<1>2. TypeOK /\ HonestTokens /\ CabinetInv /\ [Next]_vars => (TypeOK /\ HonestTokens /\ CabinetInv)'
  BY NextTypes, NextCabinet
<1>3. CabinetInv => CabinetIsServed
  BY DEF CabinetInv
<1> QED BY <1>1, <1>2, <1>3, PTL DEF Spec

-----------------------------------------------------------------------------
(* Whoever follows the menu or signs in comes where that was to lead *)

\* What was asked for is still in the address: a page of the cabinet, or the way
\* back to it.
WayBack ==
  IF place.path \in Sections THEN place.path = promise.path
  ELSE place.next \in Sections \/ promise.path \in Sections => place.next = promise.path

\* Where the redirects from a page end, for who has token t.
ends(page, t) ==
  IF ~readEmailVerifiedClaim(t) THEN "/verify-email"
  ELSE IF readRoleClaim(t) = NoRole THEN "/no-role"
  ELSE IF \/ page \in GUEST_ONLY_PAGES \union SESSION_ISSUE_PAGES \union {"/"}
          \/ ~isAllowedForRole(page, readRoleClaim(t))
       THEN getHomeHref(readRoleClaim(t))
  ELSE page

\* Only the form of a sign-in has a way back.
NextAtLogin == place.path # "/login" => place.next = NoNext

\* While nothing happens outside, the page is rendered with the token that the
\* browser has, renewed if it must be.
SameToken == phase = "rendering" => door = renewed(cookie) /\ (renews <=> door # cookie)

VisitOnItsWay ==
  promise.by = "visit" =>
    /\ phase = "asking" => renewed(cookie) # NoToken \/ WayBack
    /\ phase = "rendering" => door # NoToken \/ WayBack
    /\ phase = "shown" /\ place.path = "/login" => WayBack

LoginOnItsWay ==
  promise.by = "login" =>
    /\ cookie # NoToken
    /\ phase = "shown" => place.path = whereToBe(promise.path, cookie)
    /\ phase # "shown" =>
         /\ cookie.fresh /\ place.path \notin AUTH_FLOW_PAGES
         /\ ends(place.path, cookie) = whereToBe(promise.path, cookie)

MenuOnItsWay ==
  promise.by = "menu" =>
    /\ place.path = promise.path /\ place.path \in Sections
    /\ phase # "shown" => door # NoToken
    /\ phase = "asking" => renewed(cookie) = door /\ proxyTarget(place.path, door) = stay

ArrivalInv ==
  /\ NextAtLogin
  /\ promise # NoPromise => SameToken /\ VisitOnItsWay /\ LoginOnItsWay /\ MenuOnItsWay

LEMMA KindsOfPages ==
  /\ "/login" \notin Sections /\ "/" \notin Sections
  /\ Sections \cap (AUTH_FLOW_PAGES \union SESSION_ISSUE_PAGES \union GUEST_ONLY_PAGES) = {}
  /\ "/login" \in GUEST_ONLY_PAGES
  /\ \A page \in {"/login", "/", "/verify-email", "/no-role"} : page \notin AUTH_FLOW_PAGES
  /\ "/callback" \notin Sections /\ "/callback/complete" \notin Sections
  /\ NoNext \notin Sections /\ Foreign \notin Sections
<1>1. NoNext \notin Sections /\ Foreign \notin Sections
  BY DoorsValues, SomePages
<1> QED BY <1>1 DEF Sections, OrderPages, ContractorPages, AUTH_FLOW_PAGES, SESSION_ISSUE_PAGES,
         GUEST_ONLY_PAGES

\* The home of a role is a page of the cabinet that is open to it.
LEMMA HomeIsOpen ==
  ASSUME NEW role \in Roles
  PROVE  /\ getHomeHref(role) \in Sections /\ getHomeHref(role) # "/"
         /\ isAllowedForRole(getHomeHref(role), role)
  BY DEF Roles, getHomeHref, isAllowedForRole, Sections, OrderPages, ContractorPages

LEMMA ClaimedRole ==
  ASSUME NEW t, readRoleClaim(t) # NoRole
  PROVE  readRoleClaim(t) \in Roles
  BY DEF readRoleClaim

LEMMA HomeEnds ==
  ASSUME NEW t, readEmailVerifiedClaim(t), readRoleClaim(t) # NoRole
  PROVE  ends(getHomeHref(readRoleClaim(t)), t) = getHomeHref(readRoleClaim(t))
  BY ClaimedRole, HomeIsOpen DEF ends

\* Each redirect of the proxy leads nearer to the same end.
LEMMA RedirectsEnd ==
  ASSUME NEW t, t # NoToken, NEW page \in Pages \ AUTH_FLOW_PAGES,
         NEW where \in proxyTarget(page, t)
  PROVE  ends(where.path, t) = ends(page, t) /\ where.path \notin AUTH_FLOW_PAGES
<1>1. CASE ~readEmailVerifiedClaim(t)
  <2>1. where.path = "/verify-email"
    BY <1>1 DEF proxyTarget, userTarget, stayOrGo, stay, at, readEmailVerifiedClaim
  <2> QED BY <1>1, <2>1, KindsOfPages DEF ends
<1>2. CASE readEmailVerifiedClaim(t) /\ readRoleClaim(t) = NoRole
  <2>1. where.path = "/no-role"
    BY <1>2 DEF proxyTarget, userTarget, stayOrGo, stay, at, readEmailVerifiedClaim
  <2> QED BY <1>2, <2>1, KindsOfPages DEF ends
<1>3. CASE readEmailVerifiedClaim(t) /\ readRoleClaim(t) # NoRole
  <2>1. /\ where.path = getHomeHref(readRoleClaim(t))
        /\ \/ page \in GUEST_ONLY_PAGES \union SESSION_ISSUE_PAGES
           \/ ~isAllowedForRole(page, readRoleClaim(t))
    BY <1>3 DEF proxyTarget, userTarget, stay, at, readEmailVerifiedClaim
  <2>2. ends(page, t) = getHomeHref(readRoleClaim(t))
    BY <1>3, <2>1 DEF ends
  <2> QED BY <1>3, <2>1, <2>2, HomeEnds, ClaimedRole, HomeIsOpen, KindsOfPages
<1> QED BY <1>1, <1>2, <1>3

\* A page that the proxy shows, and that does not lead on, is the end.
LEMMA StaysAtEnd ==
  ASSUME NEW t, t # NoToken, NEW page \in Pages \ AUTH_FLOW_PAGES, proxyTarget(page, t) = stay
  PROVE  IF page = "/" THEN ends(page, t) = getHomeHref(readRoleClaim(t))
                            /\ readEmailVerifiedClaim(t) /\ readRoleClaim(t) # NoRole
                       ELSE ends(page, t) = page
<1>1. CASE ~readEmailVerifiedClaim(t)
  <2>1. page = "/verify-email"
    BY <1>1 DEF proxyTarget, userTarget, stayOrGo, stay, readEmailVerifiedClaim
  <2> QED BY <1>1, <2>1 DEF ends
<1>2. CASE readEmailVerifiedClaim(t) /\ readRoleClaim(t) = NoRole
  <2>1. page = "/no-role"
    BY <1>2 DEF proxyTarget, userTarget, stayOrGo, stay, readEmailVerifiedClaim
  <2> QED BY <1>2, <2>1 DEF ends
<1>3. CASE readEmailVerifiedClaim(t) /\ readRoleClaim(t) # NoRole
  <2>1. /\ page \notin GUEST_ONLY_PAGES \union SESSION_ISSUE_PAGES
        /\ isAllowedForRole(page, readRoleClaim(t))
    BY <1>3 DEF proxyTarget, userTarget, stay, readEmailVerifiedClaim
  <2> QED BY <1>3, <2>1 DEF ends
<1> QED BY <1>1, <1>2, <1>3

\* Nobody with a session is shown the form of a sign-in.
LEMMA LoginIsForGuests ==
  ASSUME NEW t, proxyTarget("/login", t) = stay
  PROVE  t = NoToken
<1> SUFFICES ASSUME t # NoToken PROVE FALSE
  OBVIOUS
<1>1. ends("/login", t) = "/login"
  BY StaysAtEnd, KindsOfPages, SomePages
<1>2. readEmailVerifiedClaim(t) /\ readRoleClaim(t) # NoRole
  BY <1>1 DEF ends
<1>3. ends("/login", t) = getHomeHref(readRoleClaim(t))
  BY <1>2, KindsOfPages DEF ends
<1> QED BY <1>1, <1>2, <1>3, ClaimedRole, HomeIsOpen, KindsOfPages

\* With the way back in the address of the form, a sign-in leads where it should.
LEMMA SignInLeads ==
  ASSUME NEW t, place.path = "/login", WayBack,
         place.next \in Sections \union {NoNext, Foreign, "/login"}
  PROVE  LET target == resolveAfterAuthHref(safeNextPath(place.next), t) IN
         /\ ends(target, t) = whereToBe(promise.path, t)
         /\ target \notin AUTH_FLOW_PAGES
<1> DEFINE target == resolveAfterAuthHref(safeNextPath(place.next), t)
<1>1. place.next \in Sections \/ promise.path \in Sections => place.next = promise.path
  BY KindsOfPages DEF WayBack
<1>2. target \in {place.next, getHomeHref(readRoleClaim(t))} /\ target \notin {NoNext, Foreign}
  BY KindsOfPages, DoorsValues, SomePages DEF resolveAfterAuthHref, safeNextPath
<1>3. getHomeHref(readRoleClaim(t)) \notin AUTH_FLOW_PAGES
  BY DEF getHomeHref, AUTH_FLOW_PAGES
<1>4. target \notin AUTH_FLOW_PAGES
  BY <1>2, <1>3, KindsOfPages
<1>5. CASE ~readEmailVerifiedClaim(t) \/ readRoleClaim(t) = NoRole
  BY <1>4, <1>5 DEF ends, whereToBe
<1>6. CASE readEmailVerifiedClaim(t) /\ readRoleClaim(t) # NoRole
  <2> DEFINE role == readRoleClaim(t)
  <2>1. role \in Roles
    BY <1>6, ClaimedRole
  <2>2. CASE place.next \in Sections
    <3>1. target = place.next /\ promise.path = place.next
      BY <1>1, <2>2, KindsOfPages DEF resolveAfterAuthHref, safeNextPath
    <3>2. ends(target, t) = IF isAllowedForRole(place.next, role) THEN place.next
                                                                  ELSE getHomeHref(role)
      BY <1>6, <2>2, <3>1, KindsOfPages DEF ends
    <3> QED BY <1>4, <1>6, <2>1, <2>2, <3>1, <3>2, TablesAgree DEF whereToBe
  <2>3. CASE place.next \notin Sections
    <3>1. whereToBe(promise.path, t) = getHomeHref(role)
      BY <1>1, <1>6, <2>3 DEF whereToBe, usable
    <3>2. CASE target = "/login"
      BY <1>4, <1>6, <3>1, <3>2, KindsOfPages DEF ends
    <3>3. CASE target = getHomeHref(role)
      BY <1>4, <1>6, <3>1, <3>3, HomeEnds
    <3> QED BY <1>2, <2>3, <3>2, <3>3
  <2> QED BY <2>2, <2>3
<1> QED BY <1>5, <1>6

\* What the menu offers is open to the role.
LEMMA MenuIsOpen ==
  ASSUME NEW t \in Token, honest(t), NEW page \in Sections, proxyTarget(page, t) = stay,
         NEW entry \in getNavigation(RoleOf[t.user])
  PROVE  proxyTarget(entry, t) = stay
<1>1. t # NoToken /\ entry \in Sections
  BY DoorsValues, SomePages
<1>2. page \notin AUTH_FLOW_PAGES /\ page # "/verify-email" /\ page # "/no-role"
  BY DEF Sections, OrderPages, ContractorPages, AUTH_FLOW_PAGES
<1>3. readEmailVerifiedClaim(t) /\ readRoleClaim(t) # NoRole
  BY <1>1, <1>2 DEF proxyTarget, userTarget, stayOrGo, stay, readEmailVerifiedClaim
<1>4. readRoleClaim(t) = RoleOf[t.user] /\ readRoleClaim(t) \in Roles
  BY <1>1, <1>3 DEF readRoleClaim, honest
<1>5. isAllowedForRole(entry, readRoleClaim(t))
  BY <1>4 DEF getNavigation, isAllowedForRole, ContractorPages, Roles
<1> QED BY <1>1, <1>3, <1>5, KindsOfPages
        DEF proxyTarget, userTarget, stayOrGo, stay, readEmailVerifiedClaim

LEMMA InitArrival == Init => ArrivalInv
  BY KindsOfPages DEF Init, ArrivalInv, NextAtLogin, SameToken, VisitOnItsWay, LoginOnItsWay,
     MenuOnItsWay, WayBack, at

LEMMA SameRenewal ==
  ASSUME UNCHANGED <<outside, cookie>>
  PROVE  renewed(cookie)' = renewed(cookie)
  BY DEF outside, renewed, issue, custom_access_token_hook

LEMMA ArrivalUnchanged ==
  ASSUME ArrivalInv, UNCHANGED <<outside, cookie, place, phase, door, renews, promise>>
  PROVE  ArrivalInv'
<1>1. renewed(cookie)' = renewed(cookie)
  BY SameRenewal
<1> QED BY <1>1 DEF ArrivalInv, NextAtLogin, SameToken, VisitOnItsWay, LoginOnItsWay,
     MenuOnItsWay, WayBack

LEMMA ProxyArrival ==
  ASSUME TypeOK, HonestTokens, ArrivalInv, Proxy
  PROVE  ArrivalInv'
<1> DEFINE t == renewed(cookie)
<1>1. /\ phase = "asking" /\ UNCHANGED <<outside, cookie, promise>>
      /\ t \in Token \union {NoToken}
      /\ renewed(cookie)' = t /\ place.path \in Pages
  BY SameRenewal, RenewedTokens DEF Proxy, TypeOK, HonestTokens
<1>2. CASE proxyTarget(place.path, t) = stay
  <2>1. phase' = "rendering" /\ door' = t /\ (renews' <=> t # cookie) /\ place' = place
    BY <1>2 DEF Proxy
  <2>2. NextAtLogin' /\ SameToken'
    BY <1>1, <2>1 DEF ArrivalInv, NextAtLogin, SameToken
  <2> SUFFICES ASSUME promise # NoPromise
               PROVE  VisitOnItsWay' /\ LoginOnItsWay' /\ MenuOnItsWay'
    BY <1>1, <2>2 DEF ArrivalInv
  <2>3. VisitOnItsWay'
    BY <1>1, <2>1 DEF ArrivalInv, VisitOnItsWay, WayBack
  <2>4. LoginOnItsWay'
    BY <1>1, <2>1 DEF ArrivalInv, LoginOnItsWay
  <2>5. MenuOnItsWay'
    BY <1>1, <2>1 DEF ArrivalInv, MenuOnItsWay
  <2> QED BY <2>3, <2>4, <2>5
<1>3. CASE proxyTarget(place.path, t) # stay
  <2>1. PICK where \in proxyTarget(place.path, t) : place' = where /\ phase' = "asking"
    BY <1>3 DEF Proxy, go
  <2>2. /\ where.path # "/login" => where.next = NoNext
        /\ t = NoToken => \/ place.path \in Sections /\ where = [path |-> "/login", next |-> place.path]
                          \/ place.path \in SESSION_ISSUE_PAGES /\ where = at("/login")
    BY <2>1 DEF proxyTarget, guestTarget, userTarget, stayOrGo, stay, at
  <2>3. NextAtLogin'
    BY <2>1, <2>2 DEF NextAtLogin
  <2> SUFFICES ASSUME promise # NoPromise
               PROVE  SameToken' /\ VisitOnItsWay' /\ LoginOnItsWay' /\ MenuOnItsWay'
    BY <1>1, <2>3 DEF ArrivalInv
  <2>4. SameToken'
    BY <2>1 DEF SameToken
  <2>5. VisitOnItsWay'
    <3> SUFFICES ASSUME promise.by = "visit", t = NoToken PROVE WayBack'
      BY <1>1, <2>1 DEF VisitOnItsWay
    <3>1. WayBack
      BY <1>1 DEF ArrivalInv, VisitOnItsWay
    <3>2. CASE place.path \in Sections /\ where = [path |-> "/login", next |-> place.path]
      BY <1>1, <2>1, <3>1, <3>2, KindsOfPages DEF WayBack
    <3>3. CASE place.path \in SESSION_ISSUE_PAGES /\ where = at("/login")
      <4>1. place.path \notin Sections /\ place.path # "/login"
        BY <3>3, KindsOfPages DEF SESSION_ISSUE_PAGES
      <4>2. promise.path \notin Sections
        BY <3>1, <4>1, KindsOfPages DEF WayBack, ArrivalInv, NextAtLogin
      <4> QED BY <1>1, <2>1, <3>3, <4>2, KindsOfPages DEF WayBack, at
    <3> QED BY <2>2, <3>2, <3>3
  <2>6. LoginOnItsWay'
    <3> SUFFICES ASSUME promise.by = "login" PROVE LoginOnItsWay'
      BY <1>1 DEF LoginOnItsWay
    <3>1. /\ cookie # NoToken /\ cookie.fresh /\ place.path \notin AUTH_FLOW_PAGES
          /\ ends(place.path, cookie) = whereToBe(promise.path, cookie)
      BY <1>1 DEF ArrivalInv, LoginOnItsWay
    <3>2. t = cookie
      BY <3>1 DEF renewed
    <3>3. ends(where.path, cookie) = ends(place.path, cookie) /\ where.path \notin AUTH_FLOW_PAGES
      BY <1>1, <2>1, <3>1, <3>2, RedirectsEnd
    <3> QED BY <1>1, <2>1, <3>1, <3>3 DEF LoginOnItsWay
  <2>7. MenuOnItsWay'
    BY <1>1, <1>3 DEF ArrivalInv, MenuOnItsWay
  <2> QED BY <2>4, <2>5, <2>6, <2>7
<1> QED BY <1>2, <1>3

LEMMA RenderArrival ==
  ASSUME TypeOK, LetIn, ArrivalInv, Render
  PROVE  ArrivalInv'
<1>1. /\ phase = "rendering" /\ UNCHANGED <<outside, door, promise>> /\ place.path \in Pages
      /\ proxyTarget(place.path, door) = stay /\ (door # NoToken => door.fresh)
  BY DEF Render, LetIn, TypeOK
<1>2. NextAtLogin'
  BY DEF Render, go, redirected, at, ArrivalInv, NextAtLogin
<1> SUFFICES ASSUME promise # NoPromise
             PROVE  SameToken' /\ VisitOnItsWay' /\ LoginOnItsWay' /\ MenuOnItsWay'
  BY <1>1, <1>2 DEF ArrivalInv
<1>3. cookie' = door /\ renewed(cookie)' = door
  <2>1. cookie' = door
    BY <1>1 DEF Render, ArrivalInv, SameToken
  <2> QED BY <1>1, <2>1 DEF renewed
<1>4. SameToken'
  BY DEF Render, go, SameToken
<1>5. promise.by = "login" =>
        /\ door # NoToken /\ cookie = door /\ place.path \notin AUTH_FLOW_PAGES
        /\ ends(place.path, door) = whereToBe(promise.path, door)
  BY <1>1 DEF ArrivalInv, LoginOnItsWay, SameToken, renewed
<1>6. promise.by = "menu" => place.path = promise.path /\ place.path \in Sections /\ door # NoToken
  BY <1>1 DEF ArrivalInv, MenuOnItsWay
<1>7. promise.by = "visit" => door # NoToken \/ WayBack
  BY <1>1 DEF ArrivalInv, VisitOnItsWay
<1>8. CASE redirected = place
  <2>1. phase' = "shown" /\ place' = place
    BY <1>8 DEF Render
  <2>2. VisitOnItsWay'
    <3> SUFFICES ASSUME promise.by = "visit", place.path = "/login" PROVE WayBack'
      BY <1>1, <2>1 DEF VisitOnItsWay
    <3>1. door = NoToken
      BY <1>1, LoginIsForGuests
    <3> QED BY <1>1, <1>7, <2>1, <3>1 DEF WayBack
  <2>3. LoginOnItsWay'
    <3> SUFFICES ASSUME promise.by = "login" PROVE place.path = whereToBe(promise.path, door)
      BY <1>1, <1>3, <1>5, <2>1 DEF LoginOnItsWay
    <3>1. place.path # "/"
      <4> SUFFICES ASSUME place.path = "/" PROVE FALSE
        OBVIOUS
      <4>1. /\ readRoleClaim(door) # NoRole
            /\ redirected = at(getHomeHref(readRoleClaim(door)))
        BY <1>1, <1>5, StaysAtEnd DEF redirected
      <4>2. redirected.path # "/"
        BY <4>1, ClaimedRole, HomeIsOpen DEF at
      <4> QED BY <1>8, <4>2
    <3>2. ends(place.path, door) = place.path
      BY <1>1, <1>5, <3>1, StaysAtEnd
    <3> QED BY <1>5, <3>2
  <2>4. MenuOnItsWay'
    BY <1>1, <1>6, <2>1 DEF MenuOnItsWay
  <2> QED BY <1>4, <2>2, <2>3, <2>4
<1>9. CASE redirected # place
  <2>1. phase' = "asking" /\ place' = redirected
    BY <1>9 DEF Render, go
  <2>2. VisitOnItsWay'
    <3> SUFFICES ASSUME promise.by = "visit", door = NoToken PROVE WayBack'
      BY <1>1, <1>3, <2>1 DEF VisitOnItsWay
    <3>1. place.path \notin Sections \union SESSION_ISSUE_PAGES
      BY <1>1, KindsOfPages DEF proxyTarget, guestTarget, stay
    <3>2. /\ place.path \in {"/callback", "/callback/complete"}
          /\ redirected \in {at("/login"), at("/callback/complete")}
      BY <1>9, <3>1 DEF redirected
    <3>3. promise.path \notin Sections
      BY <1>7, <3>1, <3>2, KindsOfPages DEF WayBack, ArrivalInv, NextAtLogin
    <3> QED BY <1>1, <2>1, <3>2, <3>3, KindsOfPages DEF WayBack, at
  <2>3. LoginOnItsWay'
    <3> SUFFICES ASSUME promise.by = "login"
                 PROVE  /\ door.fresh /\ redirected.path \notin AUTH_FLOW_PAGES
                        /\ ends(redirected.path, door) = whereToBe(promise.path, door)
      BY <1>1, <1>3, <1>5, <2>1 DEF LoginOnItsWay
    <3>1. /\ place.path = "/" /\ redirected = at(getHomeHref(readRoleClaim(door)))
      BY <1>5, <1>9, KindsOfPages DEF redirected, AUTH_FLOW_PAGES
    <3>2. /\ readEmailVerifiedClaim(door) /\ readRoleClaim(door) # NoRole
          /\ ends(place.path, door) = getHomeHref(readRoleClaim(door))
      BY <1>1, <1>5, <3>1, StaysAtEnd
    <3> QED BY <1>1, <1>5, <3>1, <3>2, HomeEnds, ClaimedRole, HomeIsOpen, KindsOfPages DEF at
  <2>4. MenuOnItsWay'
    <3>1. promise.by # "menu"
      BY <1>6, <1>9, KindsOfPages DEF redirected
    <3> QED BY <1>1, <3>1 DEF MenuOnItsWay
  <2> QED BY <1>4, <2>2, <2>3, <2>4
<1> QED BY <1>8, <1>9

LEMMA SignInArrival ==
  ASSUME TypeOK, ArrivalInv, NEW u \in Users, SignIn(u)
  PROVE  ArrivalInv'
<1> DEFINE t == issue(u)
           target == resolveAfterAuthHref(safeNextPath(place.next), t)
<1>1. /\ phase = "shown" /\ place.path = "/login" /\ cookie' = t
      /\ place' = at(target) /\ phase' = "asking"
      /\ promise' = IF promise = NoPromise THEN NoPromise ELSE [promise EXCEPT !.by = "login"]
      /\ place.next \in Sections \union {NoNext, Foreign, "/login"}
  BY DEF SignIn, go, TypeOK
<1>2. NextAtLogin'
  BY <1>1 DEF NextAtLogin, at
<1> SUFFICES ASSUME promise # NoPromise
             PROVE  SameToken' /\ VisitOnItsWay' /\ LoginOnItsWay' /\ MenuOnItsWay'
  BY <1>1, <1>2 DEF ArrivalInv
<1>3. promise \in Promise /\ promise'.by = "login" /\ promise'.path = promise.path
  BY <1>1 DEF TypeOK, Promise
<1>4. promise.by # "menu"
  BY <1>1, KindsOfPages DEF ArrivalInv, MenuOnItsWay
<1>5. promise.by # "login"
  <2> SUFFICES ASSUME promise.by = "login" PROVE FALSE
    OBVIOUS
  <2>1. place.path = whereToBe(promise.path, cookie)
    BY <1>1 DEF ArrivalInv, LoginOnItsWay
  <2>2. whereToBe(promise.path, cookie) \in {"/verify-email", "/no-role"} \union Sections
    BY ClaimedRole, HomeIsOpen DEF whereToBe, usable
  <2> QED BY <1>1, <2>1, <2>2, KindsOfPages
<1>6. WayBack
  BY <1>1, <1>3, <1>4, <1>5 DEF ArrivalInv, VisitOnItsWay, Promise
<1>7. ends(target, t) = whereToBe(promise.path, t) /\ target \notin AUTH_FLOW_PAGES
  BY <1>1, <1>6, SignInLeads
<1>8. t # NoToken /\ t.fresh
  BY IssuedTokens, DoorsValues
<1>9. LoginOnItsWay'
  BY <1>1, <1>3, <1>7, <1>8 DEF LoginOnItsWay, at
<1> QED BY <1>1, <1>3, <1>9 DEF SameToken, VisitOnItsWay, MenuOnItsWay

LEMMA MenuArrival ==
  ASSUME TypeOK, HonestTokens, LetIn, NEW page \in Sections, FollowMenu(page)
  PROVE  ArrivalInv'
<1>1. /\ phase = "shown" /\ place.path \in Sections /\ door # NoToken
      /\ page \in getNavigation(RoleOf[door.user])
      /\ place' = at(page) /\ phase' = "asking" /\ UNCHANGED <<outside, cookie, door>>
      /\ promise' = IF renewed(cookie) = door THEN [by |-> "menu", path |-> page] ELSE NoPromise
  BY DEF FollowMenu, go
<1>2. proxyTarget(page, door) = stay
  BY <1>1, MenuIsOpen DEF LetIn, TypeOK, HonestTokens
<1>3. NextAtLogin' /\ SameToken'
  BY <1>1 DEF NextAtLogin, SameToken, at
<1>4. promise' # NoPromise => MenuOnItsWay' /\ promise'.by = "menu"
  BY <1>1, <1>2, SameRenewal DEF MenuOnItsWay, at
<1> QED BY <1>3, <1>4 DEF ArrivalInv, VisitOnItsWay, LoginOnItsWay

LEMMA AgeArrival ==
  ASSUME TypeOK, ArrivalInv, TokenAges
  PROVE  ArrivalInv'
<1>1. /\ phase = "shown" /\ UNCHANGED <<place, phase, promise>> /\ cookie \in Token
      /\ cookie' = [cookie EXCEPT !.fresh = FALSE]
  BY DEF TokenAges, TypeOK
<1>2. cookie' \in Token /\ cookie'.role = cookie.role /\ cookie'.verified = cookie.verified
  BY <1>1 DEF Token
<1>3. cookie' # NoToken
  BY <1>2, DoorsValues
<1>4. /\ readRoleClaim(cookie') = readRoleClaim(cookie)
      /\ readEmailVerifiedClaim(cookie') = readEmailVerifiedClaim(cookie)
  BY <1>2 DEF readRoleClaim, readEmailVerifiedClaim
<1>5. whereToBe(promise'.path, cookie') = whereToBe(promise.path, cookie)
  BY <1>1, <1>4 DEF whereToBe
<1> QED BY <1>1, <1>3, <1>5
        DEF ArrivalInv, NextAtLogin, SameToken, VisitOnItsWay, LoginOnItsWay, MenuOnItsWay, WayBack

LEMMA NextArrival ==
  TypeOK /\ HonestTokens /\ CabinetInv /\ ArrivalInv /\ [Next]_vars => ArrivalInv'
<1> SUFFICES ASSUME TypeOK, HonestTokens, CabinetInv, ArrivalInv, [Next]_vars PROVE ArrivalInv'
  OBVIOUS
<1>1. CASE Proxy
  BY <1>1, ProxyArrival
<1>2. CASE Render
  BY <1>2, RenderArrival DEF CabinetInv
<1>3. ASSUME NEW page \in Pages, NEW next \in Sections \union {NoNext, Foreign, "/login"},
             Visit(page, next)
      PROVE  ArrivalInv'
  <2>1. /\ place' = [path |-> page, next |-> next] /\ phase' = "asking"
        /\ promise' = [by |-> "visit", path |-> IF page \in Sections THEN page ELSE next]
        /\ next # NoNext => page = "/login"
    BY <1>3 DEF Visit, go
  <2> QED BY <2>1
          DEF ArrivalInv, NextAtLogin, SameToken, VisitOnItsWay, LoginOnItsWay, MenuOnItsWay, WayBack
<1>4. ASSUME NEW page \in Sections, FollowMenu(page) PROVE ArrivalInv'
  BY <1>4, MenuArrival DEF CabinetInv
<1>5. ASSUME NEW u \in Users, SignIn(u) PROVE ArrivalInv'
  BY <1>5, SignInArrival
<1>6. CASE SignOut
  <2>1. /\ place' = [path |-> "/login", next |-> NoNext] /\ phase' = "asking"
        /\ promise' = [by |-> "visit", path |-> NoNext]
    BY <1>6 DEF SignOut, go, at
  <2> QED BY <2>1, KindsOfPages
          DEF ArrivalInv, NextAtLogin, SameToken, VisitOnItsWay, LoginOnItsWay, MenuOnItsWay, WayBack
<1>7. ASSUME promise' = NoPromise, place' = place PROVE ArrivalInv'
  BY <1>7 DEF ArrivalInv, NextAtLogin
<1>8. CASE Call
  <2>1. CASE renewed(cookie) = cookie
    BY <1>8, <2>1, ArrivalUnchanged DEF Call
  <2> QED BY <1>7, <1>8, <2>1 DEF Call
<1>9. CASE Connect
  <2>1. CASE renewed(cookie) = cookie
    BY <1>9, <2>1, ArrivalUnchanged DEF Connect, createAppSocket
  <2> QED BY <1>7, <1>9, <2>1 DEF Connect, createAppSocket
<1>10. CASE AskFeed \/ SocketCloses \/ UNCHANGED vars
  BY <1>10, ArrivalUnchanged DEF AskFeed, SocketCloses, vars, outside
<1>11. CASE \/ SwitchHook \/ ElsewhereSignOut
            \/ \E u \in Users : Confirm(u) \/ ElsewhereSignIn(u)
  BY <1>7, <1>11 DEF SwitchHook, ElsewhereSignOut, Confirm, ElsewhereSignIn, happens
<1>12. CASE TokenAges
  BY <1>12, AgeArrival
<1> QED
  BY <1>1, <1>2, <1>3, <1>4, <1>5, <1>6, <1>8, <1>9, <1>10, <1>11, <1>12 DEF Next

\* Whoever signs in comes to the page that was asked for before, if the routes
\* serve it to the role, and else to the page that says what is wrong, or home;
\* an entry of the menu opens the page that it names.
THEOREM ArrivesAlwaysWherePromised == Spec => []ArrivesWherePromised
<1>1. Init => TypeOK /\ HonestTokens /\ CabinetInv /\ ArrivalInv
  BY InitTypes, InitCabinet, InitArrival
<1>2. TypeOK /\ HonestTokens /\ CabinetInv /\ ArrivalInv /\ [Next]_vars
        => (TypeOK /\ HonestTokens /\ CabinetInv /\ ArrivalInv)'
  BY NextTypes, NextCabinet, NextArrival
<1>3. ArrivalInv => ArrivesWherePromised
  BY DEF ArrivalInv, LoginOnItsWay, MenuOnItsWay, ArrivesWherePromised, LoginBringsBack,
         MenuLeadsThere
<1> QED BY <1>1, <1>2, <1>3, PTL DEF Spec

=============================================================================
