------------------------------- MODULE Accounts -------------------------------
(***************************************************************************)
(* Accounts: registration, letters, sessions and passwords.  The provider  *)
(* of identities (GoTrue) keeps the accounts and sessions and is external; *)
(* the triggers of this project on its tables, and the screens that call   *)
(* it, are modelled here.                                                  *)
(*                                                                         *)
(* A password is known to the person who chose it; <<p, n>> is the n-th    *)
(* password of an account, chosen by p.  Two browsers may be of one        *)
(* person, and a person may type the address of another.                   *)
(***************************************************************************)
EXTENDS Naturals, FiniteSets

CONSTANTS
  Addresses,    \* addresses of mail
  People, Browsers,
  owner,        \* whose each browser is
  mailOf,       \* the addresses whose mail each person reads
  Window,       \* 15 minutes: PASSWORD_CHANGE_WINDOW_MINUTES, and the interval of the trigger
  NoAccount, NoPassword, Published, NoLetter, NoSession, Never,
  MaxTime, MaxPasswords   \* bounds: the clock, passwords of an account

ASSUME AccountsAssumption ==
  /\ owner \in [Browsers -> People]
  /\ mailOf \in [People -> SUBSET Addresses]
  /\ Window \in Nat \ {0} /\ MaxTime \in Nat /\ MaxPasswords \in Nat \ {0}

VARIABLES
  now,
  confirmsMail,  \* whether the project asks for a confirmation of the address
  account,       \* auth.users
  sessions,      \* auth.sessions
  cookie,        \* the session that each browser holds, alive or not
  verifier,      \* the address for which a browser keeps a PKCE verifier
  screen         \* what each browser shows

vars == <<now, confirmsMail, account, sessions, cookie, verifier, screen>>

Password == (People \X (1..MaxPasswords)) \cup {NoPassword, Published}

\* auth.users: confirmation_sent_at is letterSent; letter is the browser that asked
\* for the letter whose link is still good; byLetter tells how it was confirmed; demo
\* is app_metadata.demo.
Account ==
  [demo : BOOLEAN, confirmed : BOOLEAN, byLetter : BOOLEAN, letterSent : BOOLEAN,
   letter : Browsers \cup {NoLetter}, recovery : BOOLEAN,
   password : Password, chosen : 0..MaxPasswords,
   lastSignIn : 0..MaxTime \cup {Never}]

\* A session: amr names the way it came and, for letters, when.
Session ==
  [address : Addresses, browser : Browsers, amr : {"password", "signup", "otp"},
   at : 0..MaxTime \cup {Never}, under : Password]

\* What stands for the lack of a value is not a value.
ASSUME AccountsValues ==
  /\ NoAccount \notin Account /\ NoSession \notin Session
  /\ NoLetter \notin Browsers /\ NoLetter \notin Addresses /\ Never \notin Nat
  /\ NoPassword # Published
  /\ {NoPassword, Published} \cap (People \X (1..MaxPasswords)) = {}

exists(e) == account[e] # NoAccount
isDemo(e) == exists(e) /\ account[e].demo
sessionsOf(e) == {s \in sessions : s.address = e}

-----------------------------------------------------------------------------
(* Triggers on auth.users and auth.sessions *)

\* on_auth_user_signup_confirmed: the password of an account as it is stored when
\* its address becomes confirmed.
SlipPasswordKept(u) == u.password
storedOnConfirmation(u) == IF u.letterSent THEN NoPassword ELSE u.password

\* on_auth_user_demo_lock
demoLocked(e) == isDemo(e)

\* on_auth_user_password_reauth.  An account without a password has no prefix of a
\* hash to compare, so it gets one at any time.
signedInRecently(u) == u.lastSignIn # Never /\ u.lastSignIn + Window >= now

acceptsPassword(e) ==
  /\ ~demoLocked(e)
  /\ account[e].password # NoPassword => signedInRecently(account[e])

\* on_auth_session_demo_mass_logout
mayRemove(removed) ==
  \A e \in Addresses : isDemo(e) => Cardinality({s \in removed : s.address = e}) <= 1

-----------------------------------------------------------------------------
(* The provider *)

\* A sign-in with a password.
passwordSession(b, e, password) ==
  [address |-> e, browser |-> b, amr |-> "password", at |-> Never, under |-> password]

signInWithPassword(b, e) ==
  LET s == passwordSession(b, e, account[e].password)
  IN  /\ sessions' = sessions \cup {s}
      /\ cookie' = [cookie EXCEPT ![b] = s]

\* The session of a link, whose amr carries the moment it was opened.
linkSession(b, e, amr) ==
  [address |-> e, browser |-> b, amr |-> amr, at |-> now, under |-> NoPassword]

isLive(b) == cookie[b] # NoSession /\ cookie[b] \in sessions

\* Which rows a sign-out deletes.
doomed(b, scope) ==
  LET s == cookie[b] IN
  IF ~isLive(b) THEN {}
  ELSE CASE scope = "local"  -> {s}
         [] scope = "global" -> sessionsOf(s.address)
         [] scope = "others" -> sessionsOf(s.address) \ {s}

\* A new password, in the order of the account's passwords.
nextPassword(b, e) == <<owner[b], account[e].chosen + 1>>

setPassword(b, e) ==
  account' = [account EXCEPT ![e].password = nextPassword(b, e),
                             ![e].chosen = account[e].chosen + 1]

-----------------------------------------------------------------------------
(* Registration (register-form.tsx) *)

newAccount(b, e) ==
  [demo |-> FALSE, confirmed |-> ~confirmsMail, byLetter |-> FALSE, letterSent |-> confirmsMail,
   letter |-> IF confirmsMail THEN b ELSE NoLetter, recovery |-> FALSE,
   password |-> <<owner[b], 1>>, chosen |-> 1,
   lastSignIn |-> IF confirmsMail THEN Never ELSE now]

\* The project does not confirm addresses: the session comes at once.
SignUpAtOnce(b, e) ==
  /\ cookie[b] = NoSession /\ ~confirmsMail /\ ~exists(e)
  /\ account' = [account EXCEPT ![e] = newAccount(b, e)]
  /\ LET s == passwordSession(b, e, <<owner[b], 1>>)
     IN  sessions' = sessions \cup {s} /\ cookie' = [cookie EXCEPT ![b] = s]
  /\ screen' = [screen EXCEPT ![b] = "home"]
  /\ UNCHANGED <<now, confirmsMail, verifier>>

\* It does: a letter, also when the address waits for its confirmation already, the
\* account of which is left as it was.
SignUpByLetter(b, e) ==
  /\ cookie[b] = NoSession /\ confirmsMail
  /\ IF exists(e)
     THEN account' = IF account[e].confirmed THEN account
                     ELSE [account EXCEPT ![e].letter = b]
     ELSE account' = [account EXCEPT ![e] = newAccount(b, e)]
  /\ verifier' = [verifier EXCEPT ![b] = e]
  /\ UNCHANGED <<now, confirmsMail, sessions, cookie, screen>>

-----------------------------------------------------------------------------
(* Letters (callback/route.ts, complete-callback.tsx) *)

confirm(e) ==
  [account[e] EXCEPT !.confirmed = TRUE, !.byLetter = TRUE, !.letter = NoLetter,
                     !.recovery = FALSE, !.password = storedOnConfirmation(account[e])]

\* The exchange of the code needs the verifier of the browser that asked for the
\* letter; without it the address is confirmed all the same.
OpenLetter(b, e) ==
  /\ e \in mailOf[owner[b]] /\ exists(e) /\ account[e].letter # NoLetter
  /\ IF account[e].letter = b /\ verifier[b] = e
     THEN LET s == linkSession(b, e, "signup")
          IN  /\ account' = [account EXCEPT ![e] = [confirm(e) EXCEPT !.lastSignIn = now]]
              /\ sessions' = sessions \cup {s}
              /\ cookie' = [cookie EXCEPT ![b] = s]
              /\ verifier' = [verifier EXCEPT ![b] = NoLetter]
              /\ screen' = [screen EXCEPT ![b] = "new-password"]
     ELSE /\ account' = [account EXCEPT ![e] = confirm(e)]
          /\ screen' = [screen EXCEPT ![b] = IF cookie[b] = NoSession THEN "login" ELSE "home"]
          /\ UNCHANGED <<sessions, cookie, verifier>>
  /\ UNCHANGED <<now, confirmsMail>>

\* The administrator sends a letter of recovery; its link needs no verifier, but a
\* press of the button on /callback/complete.
SendRecovery(e) ==
  /\ exists(e) /\ ~isDemo(e)
  /\ account' = [account EXCEPT ![e].recovery = TRUE]
  /\ UNCHANGED <<now, confirmsMail, sessions, cookie, verifier, screen>>

OpenRecovery(b, e) ==
  /\ e \in mailOf[owner[b]] /\ exists(e) /\ account[e].recovery
  /\ LET u == IF account[e].confirmed THEN [account[e] EXCEPT !.recovery = FALSE]
              ELSE confirm(e)
         s == linkSession(b, e, "otp")
     IN  /\ account' = [account EXCEPT ![e] = [u EXCEPT !.lastSignIn = now]]
         /\ sessions' = sessions \cup {s}
         /\ cookie' = [cookie EXCEPT ![b] = s]
  /\ screen' = [screen EXCEPT ![b] = "new-password"]
  /\ UNCHANGED <<now, confirmsMail, verifier>>

-----------------------------------------------------------------------------
(* Sessions (login-form.tsx, sign-out-button.tsx, request-new-link-button.tsx) *)

knows(b, e) ==
  \/ account[e].password = Published
  \/ \E n \in 1..MaxPasswords : account[e].password = <<owner[b], n>>

SignIn(b, e) ==
  /\ cookie[b] = NoSession
  /\ exists(e) /\ account[e].confirmed /\ knows(b, e)
  /\ signInWithPassword(b, e)
  /\ account' = [account EXCEPT ![e].lastSignIn = now]
  /\ screen' = [screen EXCEPT ![b] = "home"]
  /\ UNCHANGED <<now, confirmsMail, verifier>>

signOutScope(e) == IF isDemo(e) THEN "local" ELSE "global"

\* The button forgets its session unless the provider failed, and leaves for /login
\* in either case; whom the cookie still signs in, proxy.ts sends home from there.
leave(b, scope, to) ==
  /\ LET removed == doomed(b, scope)
     IN  IF mayRemove(removed)
         THEN sessions' = sessions \ removed /\ cookie' = [cookie EXCEPT ![b] = NoSession]
         ELSE UNCHANGED <<sessions, cookie>>
  /\ screen' = [screen EXCEPT ![b] = to]
  /\ UNCHANGED <<now, confirmsMail, account, verifier>>

SignOut(b) == cookie[b] # NoSession /\ leave(b, signOutScope(cookie[b].address), "login")

RequestNewLink(b) == cookie[b] # NoSession /\ leave(b, "local", "forgot-password")

\* The SDK signs out with any scope, from any page.
SignOutBySdk(b, scope) ==
  /\ isLive(b) /\ scope \in {"global", "others"}
  /\ mayRemove(doomed(b, scope))
  /\ sessions' = sessions \ doomed(b, scope)
  /\ cookie' = IF scope = "global" THEN [cookie EXCEPT ![b] = NoSession] ELSE cookie
  /\ screen' = IF scope = "global" THEN [screen EXCEPT ![b] = "home"] ELSE screen
  /\ UNCHANGED <<now, confirmsMail, account, verifier>>

-----------------------------------------------------------------------------
(* Passwords *)

\* readRecoveredAt, canChangePasswordNow and the page /reset-password.
SlipWindowOnceMore(t) == now <= t + Window + 1
canChangePasswordNow(t) == now < t + Window

showsResetForm(b) ==
  /\ cookie[b] # NoSession
  /\ ~isDemo(cookie[b].address)
  /\ cookie[b].amr \in {"signup", "otp"}
  /\ canChangePasswordNow(cookie[b].at)

OpenReset(b) ==
  /\ showsResetForm(b)
  /\ screen' = [screen EXCEPT ![b] = "new-password"]
  /\ UNCHANGED <<now, confirmsMail, account, sessions, cookie, verifier>>

\* handleSubmit of reset-password-form.tsx.  Refused by the database, the screen is
\* read again and decides anew whether there is a form.
SubmitReset(b) ==
  /\ screen[b] = "new-password" /\ isLive(b)
  /\ LET e == cookie[b].address
     IN  IF acceptsPassword(e)
         THEN /\ account[e].chosen < MaxPasswords
              /\ setPassword(b, e)
              /\ screen' = [screen EXCEPT ![b] = "home"]
         ELSE /\ screen' = [screen EXCEPT ![b] =
                              IF showsResetForm(b) THEN "refused-form" ELSE "home"]
              /\ UNCHANGED account
  /\ UNCHANGED <<now, confirmsMail, sessions, cookie, verifier>>

\* handleSubmit of settings/password-form.tsx: three calls one after another.  The
\* first signs in with the current password; the form is not shown to a demo account.
EnterCurrent(b) ==
  /\ cookie[b] # NoSession /\ ~isDemo(cookie[b].address)
  /\ screen[b] = "home"
  /\ LET e == cookie[b].address
     IN  /\ knows(b, e)
         /\ signInWithPassword(b, e)
         /\ account' = [account EXCEPT ![e].lastSignIn = now]
  /\ screen' = [screen EXCEPT ![b] = "entered"]
  /\ UNCHANGED <<now, confirmsMail, verifier>>

ChangePassword(b) ==
  /\ screen[b] = "entered"
  /\ LET e == cookie[b].address
     IN  IF isLive(b) /\ acceptsPassword(e)
         THEN /\ account[e].chosen < MaxPasswords
              /\ setPassword(b, e)
              /\ screen' = [screen EXCEPT ![b] = "changed"]
         ELSE screen' = [screen EXCEPT ![b] = "home"] /\ UNCHANGED account
  /\ UNCHANGED <<now, confirmsMail, sessions, cookie, verifier>>

\* The last call; it may fail, and the form then warns.
SlipReportsAnyway(b) ==
  /\ screen[b] = "changed"
  /\ \/ isLive(b) /\ sessions' = sessions \ doomed(b, "others")
     \/ UNCHANGED sessions
  /\ screen' = [screen EXCEPT ![b] = "password-changed"]
  /\ UNCHANGED <<now, confirmsMail, account, cookie, verifier>>
LeaveOthers(b) ==
  /\ screen[b] = "changed"
  /\ \/ /\ isLive(b)
        /\ sessions' = sessions \ doomed(b, "others")
        /\ screen' = [screen EXCEPT ![b] = "password-changed"]
     \/ screen' = [screen EXCEPT ![b] = "home"] /\ UNCHANGED sessions
  /\ UNCHANGED <<now, confirmsMail, account, cookie, verifier>>

\* The notice of success goes.
Close(b) ==
  /\ screen[b] = "password-changed"
  /\ screen' = [screen EXCEPT ![b] = "home"]
  /\ UNCHANGED <<now, confirmsMail, account, sessions, cookie, verifier>>

\* The SDK changes the password of any live session, from any page.
UpdateUserBySdk(b) ==
  /\ isLive(b)
  /\ LET e == cookie[b].address
     IN  acceptsPassword(e) /\ account[e].chosen < MaxPasswords /\ setPassword(b, e)
  /\ UNCHANGED <<now, confirmsMail, sessions, cookie, verifier, screen>>

-----------------------------------------------------------------------------

Tick ==
  /\ now < MaxTime
  /\ now' = now + 1
  /\ UNCHANGED <<confirmsMail, account, sessions, cookie, verifier, screen>>

demoAccount ==
  [demo |-> TRUE, confirmed |-> TRUE, byLetter |-> FALSE, letterSent |-> FALSE, letter |-> NoLetter,
   recovery |-> FALSE, password |-> Published, chosen |-> 0, lastSignIn |-> Never]

Init ==
  /\ now = 0
  /\ confirmsMail \in BOOLEAN
  /\ account \in [Addresses -> {NoAccount, demoAccount}]
  /\ sessions = {}
  /\ cookie = [b \in Browsers |-> NoSession]
  /\ verifier = [b \in Browsers |-> NoLetter]
  /\ screen = [b \in Browsers |-> "login"]

Next ==
  \/ \E b \in Browsers, e \in Addresses :
       \/ SignUpAtOnce(b, e) \/ SignUpByLetter(b, e)
       \/ OpenLetter(b, e) \/ OpenRecovery(b, e)
       \/ SignIn(b, e)
  \/ \E e \in Addresses : SendRecovery(e)
  \/ \E b \in Browsers :
       \/ SignOut(b) \/ RequestNewLink(b)
       \/ \E scope \in {"global", "others"} : SignOutBySdk(b, scope)
       \/ OpenReset(b) \/ SubmitReset(b)
       \/ EnterCurrent(b) \/ ChangePassword(b) \/ LeaveOthers(b) \/ Close(b)
       \/ UpdateUserBySdk(b)
  \/ Tick

Spec == Init /\ [][Next]_vars

-----------------------------------------------------------------------------
(* Properties *)

Screens ==
  {"login", "home", "new-password", "refused-form", "entered", "changed",
   "password-changed", "forgot-password"}

\* Types.
TypeOK ==
  /\ now \in 0..MaxTime /\ confirmsMail \in BOOLEAN
  /\ account \in [Addresses -> Account \cup {NoAccount}]
  /\ sessions \subseteq Session
  /\ cookie \in [Browsers -> Session \cup {NoSession}]
  /\ verifier \in [Browsers -> Addresses \cup {NoLetter}]
  /\ screen \in [Browsers -> Screens]

\* An account confirmed by a letter belongs to who reads that mail, whoever typed
\* its address before: nobody else has its password or a session of it (migrations
\* 20260930120000 and 20260930150000).
OwnersAccount ==
  \A e \in Addresses : exists(e) /\ account[e].byLetter =>
    /\ \A p \in People : (\E n \in 1..MaxPasswords : account[e].password = <<p, n>>) =>
         e \in mailOf[p]
    /\ \A s \in sessionsOf(e) : e \in mailOf[owner[s.browser]]

\* A form for a new password is shown only while the database accepts one: the two
\* copies of the window agree, whatever signed in or changed elsewhere meanwhile
\* (password-form.ts:20-28, on_auth_user_password_reauth).
FormIsHonoured ==
  \A b \in Browsers : showsResetForm(b) => acceptsPassword(cookie[b].address)

\* Who sees the screen of signing in is signed out: for the button of a demo account,
\* too, which the database does not let sign out the others (signOutScope,
\* on_auth_session_demo_mass_logout).
LoginMeansOut == \A b \in Browsers : screen[b] = "login" => cookie[b] = NoSession

\* When the form reports that the others are out, nobody is in the account any more
\* by the password it replaced (password-form.tsx:84-117): the one under which it signed in
\* a moment before, whatever signs in or changes between its three calls.
OldPasswordsAreOut ==
  \A b \in Browsers : screen[b] = "password-changed" =>
    \A s \in sessionsOf(cookie[b].address) \ {cookie[b]} :
      s.amr = "password" => s.under # cookie[b].under

\* What a screen says of sessions is so.
ScreensAreTrue == LoginMeansOut /\ OldPasswordsAreOut
=============================================================================
