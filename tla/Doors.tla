-------------------------------- MODULE Doors --------------------------------
(***************************************************************************)
(* The doors of the application.  One tab goes through the pages: each     *)
(* request passes the proxy (proxy.ts), which renews the session and sends *)
(* whoever has no business there somewhere else; then the server renders   *)
(* the page and asks the API, whose two global guards look at the same     *)
(* token again.  The claims of a token are written by a hook of the        *)
(* identity provider and stay as they are until the token is renewed.      *)
(* An open page of the cabinet has a socket besides, whose gateway reads   *)
(* the token on its own.                                                   *)
(*                                                                         *)
(* Five places decide who may open what: the table of the proxy, the menu, *)
(* the requests of each page, the roles of the routes and the gateway.  Of *)
(* an address only the page and the parameter next matter; orders and      *)
(* contractors are one of each.                                            *)
(***************************************************************************)
EXTENDS Naturals, FiniteSets

CONSTANTS
  Users, RoleOf,  \* accounts and the roles in their profiles
  NoToken, NoNext, Foreign, NoPromise,
  MaxEvents       \* bound: events outside of the tab

Roles == {"CLIENT", "COMPANY"}
NoRole == "unsaid"

ASSUME DoorsAssumption == RoleOf \in [Users -> Roles] /\ MaxEvents \in Nat

-----------------------------------------------------------------------------
(* Pages *)

OrderPages == {"/orders", "/orders/new", "/orders/[id]"}
ContractorPages == {"/contractors", "/contractors/[id]"}
Sections ==
  OrderPages \union ContractorPages
    \union {"/available", "/offers", "/documents", "/notifications", "/settings"}
GUEST_ONLY_PAGES == {"/login", "/register", "/forgot-password"}
SESSION_ISSUE_PAGES == {"/verify-email", "/no-role"}
AUTH_FLOW_PAGES == {"/callback", "/callback/complete", "/reset-password"}

Pages == Sections \union GUEST_ONLY_PAGES \union SESSION_ISSUE_PAGES \union AUTH_FLOW_PAGES
           \union {"/"}

VARIABLES
  hookOn,     \* whether the project has the hook switched on
  confirmed,  \* users whose address is confirmed
  alive,      \* users whose session has not been ended
  cookie,     \* the access token that the browser holds
  place,      \* the address of the tab
  phase,      \* "asking" the proxy, "rendering" on the server or "shown"
  door,       \* the token with which the proxy let the request through
  renews,     \* whether it renewed the token: the answer sets the cookie
  socket,     \* the token with which the socket of the cabinet is connected
  answers,    \* what the API answered to the page, with the token it saw
  promise,    \* where the last visit, entry of the menu or sign-in was to lead
  events

vars == <<hookOn, confirmed, alive, cookie, place, phase, door, renews, socket, answers,
          promise, events>>
outside == <<hookOn, confirmed, alive>>

-----------------------------------------------------------------------------
(* Tokens *)

Token ==
  [user : Users, verified : {"yes", "no", "unsaid"}, role : Roles \union {NoRole},
   fresh : BOOLEAN]

\* custom_access_token_hook; switched off, it says nothing.
custom_access_token_hook(u) ==
  IF hookOn
  THEN [verified |-> IF u \in confirmed THEN "yes" ELSE "no", role |-> RoleOf[u]]
  ELSE [verified |-> "unsaid", role |-> NoRole]

issue(u) ==
  [user |-> u, verified |-> custom_access_token_hook(u).verified,
   role |-> custom_access_token_hook(u).role, fresh |-> TRUE]

readRoleClaim(t) == IF t.role \in Roles THEN t.role ELSE NoRole
readEmailVerifiedClaim(t) == t.verified # "no"

\* getSession renews a token that is about to expire, while the session lives.
renewed(t) ==
  IF t = NoToken \/ t.fresh THEN t
  ELSE IF t.user \in alive THEN issue(t.user)
  ELSE NoToken

-----------------------------------------------------------------------------
(* The API: routes and the roles that their decorators name *)

workflowRoutes ==
  [CLIENT  |-> {"POST /orders/:id/accept-offer", "POST /orders/:id/confirm",
                "POST /orders/:id/dispute"},
   COMPANY |-> {"POST /orders/:id/submit", "POST /orders/:id/files",
                "PATCH /orders/:id/verified-area"},
   both    |-> {}]
ordersRoutes ==
  [CLIENT |-> {"POST /orders", "GET /orders", "DELETE /orders/:id"}, COMPANY |-> {},
   both |-> {"GET /orders/:id"}]
companyRoutes ==
  [CLIENT |-> {}, COMPANY |-> {"GET /company/orders/available", "GET /company/offers"},
   both |-> {}]
offersRoutes ==
  [CLIENT |-> {"POST /offers/:id/reject"}, COMPANY |-> {"POST /offers", "POST /offers/:id/withdraw"},
   both |-> {}]
contractorsRoutes ==
  [CLIENT |-> {"GET /contractors", "GET /contractors/:id"}, COMPANY |-> {}, both |-> {}]
documentsRoutes ==
  [CLIENT |-> {}, COMPANY |-> {}, both |-> {"GET /documents", "GET /documents/:id/download"}]
notificationsRoutes ==
  [CLIENT |-> {}, COMPANY |-> {},
   both |-> {"GET /notifications", "GET /notifications/unread-count", "POST /notifications/:id/read",
             "POST /notifications/read-all"}]
profileRoutes == [CLIENT |-> {}, COMPANY |-> {}, both |-> {"GET /profile", "PATCH /profile"}]

Controllers ==
  {workflowRoutes, ordersRoutes, companyRoutes, offersRoutes, contractorsRoutes,
   documentsRoutes, notificationsRoutes, profileRoutes}

\* No decorator, no restriction.
requiredRoles(route) ==
  {role \in Roles : \E c \in Controllers : route \in c[role]}

\* SupabaseAuthGuard: a token that is good, of a confirmed address.
authenticates(t) == t # NoToken /\ t.fresh
SupabaseAuthGuard(t) ==
  IF ~authenticates(t) THEN "401"
  ELSE IF ~readEmailVerifiedClaim(t) THEN "403"
  ELSE "passed"

RolesGuard(route, t) ==
  IF requiredRoles(route) = {} \/ readRoleClaim(t) \in requiredRoles(route)
  THEN "passed" ELSE "403"

answerTo(route, t) ==
  IF SupabaseAuthGuard(t) # "passed" THEN SupabaseAuthGuard(t) ELSE RolesGuard(route, t)

-----------------------------------------------------------------------------
(* The gateway of the sockets *)

\* The rule of SupabaseAuthGuard, once for each connection.
authenticate(t) ==
  IF ~authenticates(t) THEN "401"
  ELSE IF ~readEmailVerifiedClaim(t) THEN "403"
  ELSE "passed"

\* The token of the socket that is connected after the handshake, if it is.
handleConnection(t) == IF authenticate(t) = "passed" THEN t ELSE NoToken

activeUser(t) == t # NoToken /\ t.fresh

\* The room of the feed is for companies; whoever connected, now or long ago.
subscribeFeed(t) ==
  IF activeUser(t) /\ readRoleClaim(t) = "COMPANY" THEN "passed" ELSE "403"

-----------------------------------------------------------------------------
(* What the pages ask for *)

layoutRequests == {"GET /profile", "GET /notifications/unread-count"}
\* The orders to filter documents by come from another route for each role.
documentRequests(role) ==
  {"GET /documents", IF role = "CLIENT" THEN "GET /orders" ELSE "GET /company/offers"}

pageRequests(page, role) ==
  CASE page \notin Sections        -> {}
    [] page = "/orders"            -> layoutRequests \union {"GET /orders"}
    [] page = "/orders/[id]"       -> layoutRequests \union {"GET /orders/:id"}
    [] page = "/contractors"       -> layoutRequests \union {"GET /contractors"}
    [] page = "/contractors/[id]"  -> layoutRequests \union {"GET /contractors/:id"}
    [] page = "/available"         -> layoutRequests \union {"GET /company/orders/available"}
    [] page = "/offers"            -> layoutRequests \union {"GET /company/offers"}
    [] page = "/documents"         -> layoutRequests \union documentRequests(role)
    [] page = "/notifications"     -> layoutRequests \union {"GET /notifications"}
    [] OTHER                       -> layoutRequests

\* The dialogs of an order, by the side that sees them.
orderCalls(role) ==
  IF role = "CLIENT"
  THEN workflowRoutes.CLIENT \union {"POST /offers/:id/reject", "DELETE /orders/:id"}
  ELSE workflowRoutes.COMPANY \union {"POST /offers", "POST /offers/:id/withdraw"}

\* What an open page asks for from the browser.
pageCalls(page, role) ==
  {"GET /notifications/unread-count"} \union
  CASE page = "/orders/new"    -> {"POST /orders"}
    [] page = "/orders/[id]"   -> orderCalls(role) \union {"GET /orders/:id", "GET /documents/:id/download"}
    [] page = "/available"     -> {"POST /offers"}
    [] page = "/offers"        -> {"POST /offers", "POST /offers/:id/withdraw"}
    [] page = "/documents"     -> {"GET /documents/:id/download"}
    [] page = "/notifications" -> {"POST /notifications/:id/read", "POST /notifications/read-all"}
    [] page = "/settings"      -> {"PATCH /profile"}
    [] OTHER                   -> {}

-----------------------------------------------------------------------------
(* Where the pages lead *)

SlipSameHome(role) == IF role \in Roles THEN "/orders" ELSE "/no-role"
getHomeHref(role) ==
  CASE role = "COMPANY" -> "/available"
    [] role = "CLIENT"  -> "/orders"
    [] OTHER            -> "/no-role"

getNavigation(role) ==
  {"/documents", "/notifications", "/settings"} \union
    IF role = "COMPANY" THEN {"/available", "/offers"}
    ELSE {"/orders", "/orders/new", "/contractors"}

\* The address of another site is no place to go back to.
safeNextPath(next) == IF next \in {NoNext, Foreign} THEN "/" ELSE next

resolveAfterAuthHref(next, t) == IF next # "/" THEN next ELSE getHomeHref(readRoleClaim(t))

at(page) == [path |-> page, next |-> NoNext]

-----------------------------------------------------------------------------
(* The proxy *)

SlipContractorsForAll(page, role) ==
  /\ page \in {"/orders", "/orders/new"} => role = "CLIENT"
  /\ page \in {"/available", "/offers"} => role = "COMPANY"
isAllowedForRole(page, role) ==
  /\ page \in {"/orders", "/orders/new"} \union ContractorPages => role = "CLIENT"
  /\ page \in {"/available", "/offers"} => role = "COMPANY"

\* Where the proxy sends a request for page, made with token t; nowhere when it
\* lets the request through.
stay == {}
stayOrGo(page, target) == IF page = target THEN stay ELSE {at(target)}

SlipWithoutNext(page) ==
  IF page \in Sections \union SESSION_ISSUE_PAGES THEN {at("/login")} ELSE stay
guestTarget(page) ==
  CASE page \in Sections            -> {[path |-> "/login", next |-> page]}
    [] page \in SESSION_ISSUE_PAGES -> {at("/login")}
    [] OTHER                        -> stay

userTarget(page, t) ==
  IF page \in AUTH_FLOW_PAGES THEN stay
  ELSE IF ~readEmailVerifiedClaim(t) THEN stayOrGo(page, "/verify-email")
  ELSE IF readRoleClaim(t) = NoRole THEN stayOrGo(page, "/no-role")
  ELSE IF \/ page \in GUEST_ONLY_PAGES \union SESSION_ISSUE_PAGES
          \/ ~isAllowedForRole(page, readRoleClaim(t))
       THEN {at(getHomeHref(readRoleClaim(t)))}
  ELSE stay

proxyTarget(page, t) == IF t = NoToken THEN guestTarget(page) ELSE userTarget(page, t)

Init ==
  /\ hookOn \in BOOLEAN
  /\ confirmed \in SUBSET Users
  /\ alive = {}
  /\ cookie = NoToken /\ door = NoToken
  /\ place = at("/") /\ phase = "asking"
  /\ renews = FALSE /\ socket = NoToken
  /\ answers = {} /\ promise = [by |-> "visit", path |-> NoNext]
  /\ events = 0

go(where) == place' = where /\ phase' = "asking" /\ answers' = {}

\* updateSession, and then on or somewhere else.  The renewed session goes to
\* the browser with the response of updateSession; a redirect is another one.
Proxy ==
  /\ phase = "asking"
  /\ LET t == renewed(cookie)
         target == proxyTarget(place.path, t)
     IN IF target = stay
        THEN /\ phase' = "rendering" /\ door' = t /\ renews' = (t # cookie)
             /\ UNCHANGED <<place, answers>>
        ELSE \E where \in target : go(where) /\ UNCHANGED <<door, renews>>
  /\ UNCHANGED <<outside, cookie, socket, promise, events>>

-----------------------------------------------------------------------------
(* Rendering *)

\* LandingPage, VerifyEmailPage, NoRolePage, getCurrentUser and the callback
\* without a code look at the session once more.
redirected ==
  IF place.path = "/" /\ door # NoToken THEN at(getHomeHref(readRoleClaim(door)))
  ELSE IF \/ place.path \in Sections \union SESSION_ISSUE_PAGES /\ door = NoToken
          \/ place.path = "/callback/complete"
       THEN at("/login")
  ELSE IF place.path = "/callback" THEN at("/callback/complete")
  ELSE place

answersTo(routes, t) == {[route |-> r, token |-> t, answer |-> answerTo(r, t)] : r \in routes}

Render ==
  /\ phase = "rendering"
  /\ cookie' = IF renews THEN door ELSE cookie
  /\ IF redirected # place
     THEN go(redirected) /\ UNCHANGED socket
     ELSE /\ phase' = "shown"
          /\ socket' = IF place.path \in Sections THEN socket ELSE NoToken
          /\ answers' = IF door = NoToken THEN {}
                        ELSE answersTo(pageRequests(place.path, RoleOf[door.user]), door)
          /\ UNCHANGED place
  /\ renews' = FALSE
  /\ UNCHANGED <<outside, door, promise, events>>

-----------------------------------------------------------------------------
(* The user at the open page *)

SignedInPage == place.path \in Sections \union SESSION_ISSUE_PAGES

\* An address typed by hand, or a bookmark.
Visit(page, next) ==
  /\ phase = "shown"
  /\ next # NoNext => page = "/login"
  /\ go([path |-> page, next |-> next])
  /\ promise' = [by |-> "visit", path |-> IF page \in Sections THEN page ELSE next]
  /\ socket' = NoToken
  /\ UNCHANGED <<outside, cookie, door, renews, events>>

\* The menu is that of the profile with which the page was rendered.  The socket
\* outlives the page.
FollowMenu(page) ==
  /\ phase = "shown" /\ place.path \in Sections /\ door # NoToken
  /\ page \in getNavigation(RoleOf[door.user])
  /\ go(at(page))
  /\ promise' = IF renewed(cookie) = door THEN [by |-> "menu", path |-> page] ELSE NoPromise
  /\ UNCHANGED <<outside, cookie, door, renews, socket, events>>

SignIn(u) ==
  /\ phase = "shown" /\ place.path = "/login"
  /\ cookie' = issue(u)
  /\ alive' = alive \union {u}
  /\ go(at(resolveAfterAuthHref(safeNextPath(place.next), issue(u))))
  /\ promise' = IF promise = NoPromise THEN NoPromise ELSE [promise EXCEPT !.by = "login"]
  /\ UNCHANGED <<hookOn, confirmed, door, renews, socket, events>>

SignOut ==
  /\ phase = "shown" /\ SignedInPage
  /\ cookie' = NoToken
  /\ alive' = IF cookie = NoToken THEN alive ELSE alive \ {cookie.user}
  /\ go(at("/login"))
  /\ promise' = [by |-> "visit", path |-> NoNext]
  /\ UNCHANGED <<hookOn, confirmed, door, renews, socket, events>>

\* The browser asks with the token of the session, renewed if need be.
Call ==
  /\ phase = "shown" /\ place.path \in Sections /\ door # NoToken
  /\ cookie' = renewed(cookie)
  /\ answers' = answers \union answersTo(pageCalls(place.path, RoleOf[door.user]), renewed(cookie))
  /\ promise' = IF renewed(cookie) = cookie THEN promise ELSE NoPromise
  /\ UNCHANGED <<outside, place, phase, door, renews, socket, events>>

\* RealtimeProvider connects when the cabinet is opened and whenever the server
\* has closed the socket, and retries a refusal; each attempt asks for the token
\* of the session anew.
createAppSocket == renewed(cookie)
Connect ==
  /\ phase = "shown" /\ place.path \in Sections /\ door # NoToken
  /\ socket = NoToken
  /\ LET t == createAppSocket IN
       /\ cookie' = t /\ socket' = handleConnection(t)
       /\ answers' = answers \union
                       {[route |-> "WS handshake", token |-> t, answer |-> authenticate(t)]}
       /\ promise' = IF t = cookie THEN promise ELSE NoPromise
  /\ UNCHANGED <<outside, place, phase, door, renews, events>>

\* The page of available orders asks for the feed.
AskFeed ==
  /\ phase = "shown" /\ place.path = "/available" /\ door # NoToken
  /\ socket # NoToken
  /\ answers' = answers \union
                  {[route |-> "WS subscribe:feed", token |-> socket, answer |-> subscribeFeed(socket)]}
  /\ UNCHANGED <<outside, cookie, place, phase, door, renews, socket, promise, events>>

-----------------------------------------------------------------------------
(* Outside of the tab *)

happens == events < MaxEvents /\ events' = events + 1 /\ promise' = NoPromise

\* The administrator switches the hook.
SwitchHook ==
  /\ happens
  /\ hookOn' = ~hookOn
  /\ UNCHANGED <<confirmed, alive, cookie, place, phase, door, renews, socket, answers>>

\* The letter is opened in another browser.
Confirm(u) ==
  /\ happens
  /\ u \notin confirmed
  /\ confirmed' = confirmed \union {u}
  /\ UNCHANGED <<hookOn, alive, cookie, place, phase, door, renews, socket, answers>>

\* Another tab signs in, with any account, or out: the cookie is the same.
ElsewhereSignIn(u) ==
  /\ happens
  /\ cookie' = issue(u) /\ alive' = alive \union {u}
  /\ UNCHANGED <<hookOn, confirmed, place, phase, door, renews, socket, answers>>
ElsewhereSignOut ==
  /\ happens
  /\ cookie # NoToken
  /\ cookie' = NoToken /\ alive' = alive \ {cookie.user}
  /\ UNCHANGED <<hookOn, confirmed, place, phase, door, renews, socket, answers>>

\* An hour goes by.  The proxy leaves no token that would expire in the
\* minute and a half of a rendering.  The gateway closes a socket whose token
\* has expired.
TokenAges ==
  /\ phase = "shown" /\ cookie # NoToken
  /\ cookie' = [cookie EXCEPT !.fresh = FALSE]
  /\ socket' = IF socket = cookie THEN NoToken ELSE socket
  /\ UNCHANGED <<outside, place, phase, door, renews, answers, promise, events>>

\* The network breaks, or the token of the socket expires.
SocketCloses ==
  /\ socket # NoToken
  /\ socket' = NoToken
  /\ UNCHANGED <<outside, cookie, place, phase, door, renews, answers, promise, events>>

Next ==
  \/ Proxy \/ Render
  \/ \E page \in Pages, next \in Sections \union {NoNext, Foreign, "/login"} : Visit(page, next)
  \/ \E page \in Sections : FollowMenu(page)
  \/ \E u \in Users : SignIn(u) \/ Confirm(u) \/ ElsewhereSignIn(u)
  \/ SignOut \/ Call \/ Connect \/ AskFeed \/ SocketCloses
  \/ SwitchHook \/ ElsewhereSignOut \/ TokenAges

Spec == Init /\ [][Next]_vars /\ WF_vars(Proxy) /\ WF_vars(Render)

-----------------------------------------------------------------------------
(* Properties *)

Promise == [by : {"visit", "menu", "login"}, path : Pages \union {NoNext, Foreign}]

\* What says that there is none is not one.
ASSUME DoorsValues ==
  /\ NoToken \notin Token /\ NoPromise \notin Promise
  /\ NoNext \notin Pages /\ Foreign \notin Pages

TypeOK ==
  /\ hookOn \in BOOLEAN /\ confirmed \subseteq Users /\ alive \subseteq Users
  /\ cookie \in Token \union {NoToken} /\ door \in Token \union {NoToken}
  /\ socket \in Token \union {NoToken}
  /\ place \in [path : Pages, next : Sections \union {NoNext, Foreign, "/login"}]
  /\ phase \in {"asking", "rendering", "shown"} /\ renews \in BOOLEAN
  /\ promise \in Promise \union {NoPromise}
  /\ events \in 0..MaxEvents

\* Whom the proxy lets onto a page, the guards serve: nothing that the page asks
\* for, when it is rendered or later and over its socket too, is refused, unless the
\* browser got another token meanwhile (the reason for the checks of proxy.ts and its issue pages).
CabinetIsServed ==
  \A a \in answers : a.answer # "passed" => a.token # door

\* A page of the cabinet that role can use, by the routes alone.
usable(page, role) ==
  /\ page \in Sections
  /\ \A r \in pageRequests(page, role) \union pageCalls(page, role) :
       requiredRoles(r) = {} \/ role \in requiredRoles(r)

\* Who signs in comes to the page that was asked for before, if the routes serve
\* it to the role; else to the page that tells what is wrong with the account, or
\* home: never to the page of the other side, another site or a login form.
whereToBe(page, t) ==
  IF ~readEmailVerifiedClaim(t) THEN "/verify-email"
  ELSE IF readRoleClaim(t) = NoRole THEN "/no-role"
  ELSE IF usable(page, readRoleClaim(t)) THEN page
  ELSE getHomeHref(readRoleClaim(t))
LoginBringsBack ==
  promise.by = "login" /\ cookie # NoToken => place.path = whereToBe(promise.path, cookie)

\* An entry of the menu opens the page that it names.
MenuLeadsThere == promise.by = "menu" => place.path = promise.path

\* Whoever follows the menu or signs in comes where that was to lead.
ArrivesWherePromised == phase = "shown" /\ promise # NoPromise => LoginBringsBack /\ MenuLeadsThere

\* Every request ends at a page: no two redirects send it back and forth,
\* whatever happens to the session on the way.
EveryoneArrives == phase # "shown" ~> phase = "shown"

=============================================================================
