----------------------------- MODULE AccountsProofs -----------------------------
(***************************************************************************)
(* Proofs about Accounts, for any people, browsers and addresses, any      *)
(* window and any bounds: the types; an account that a letter confirmed    *)
(* belongs to who reads that mail; a form for a new password is honoured;  *)
(* screens tell the truth about sessions.                                  *)
(***************************************************************************)
EXTENDS Accounts, FiniteSetTheorems, TLAPS

Pairs == People \X (1..MaxPasswords)

-----------------------------------------------------------------------------
(* The inductive invariant *)

\* Whoever holds a session, alive or not, has a confirmed account.
SessionsHaveAccounts ==
  /\ \A s \in sessions : exists(s.address) /\ account[s.address].confirmed
  /\ \A b \in Browsers : cookie[b] # NoSession =>
       /\ cookie[b].browser = b
       /\ exists(cookie[b].address) /\ account[cookie[b].address].confirmed

\* An account whose address waits for its confirmation got a letter; no link of a
\* letter is good once the address is confirmed.
LettersConfirm ==
  \A e \in Addresses : exists(e) =>
    /\ ~account[e].confirmed => account[e].letterSent
    /\ account[e].letter # NoLetter => ~account[e].confirmed

\* A demo account has the published password, and nobody else has it.
DemoIsPublished ==
  \A e \in Addresses : exists(e) =>
    /\ account[e].demo <=> account[e].password = Published
    /\ account[e].demo => account[e].confirmed /\ ~account[e].byLetter

\* A password that somebody chose is the last one chosen.
PasswordIsLast ==
  \A e \in Addresses : exists(e) /\ account[e].password \in Pairs =>
    account[e].password[2] = account[e].chosen

\* A session that came of a letter tells when, and the account has been signed in to
\* at that moment or later.
LinksAreSignIns ==
  \A b \in Browsers : cookie[b] # NoSession /\ cookie[b].amr \in {"signup", "otp"} =>
    /\ cookie[b].at \in 0..now
    /\ account[cookie[b].address].lastSignIn \in Nat
    /\ cookie[b].at <= account[cookie[b].address].lastSignIn

\* The form in settings holds the session of the current password it was given, and
\* when it says that the password is changed, a later one has been chosen.
FormsHoldTheirSession ==
  \A b \in Browsers : screen[b] \in {"entered", "changed", "password-changed"} =>
    /\ cookie[b] # NoSession /\ cookie[b].under \in Pairs
    /\ cookie[b].under[2] <= account[cookie[b].address].chosen
    /\ screen[b] # "entered" => cookie[b].under[2] < account[cookie[b].address].chosen

IInv ==
  /\ TypeOK /\ SessionsHaveAccounts /\ LettersConfirm /\ DemoIsPublished /\ PasswordIsLast
  /\ LinksAreSignIns /\ FormsHoldTheirSession
  /\ OwnersAccount /\ LoginMeansOut /\ OldPasswordsAreOut

-----------------------------------------------------------------------------
(* Types *)

LEMMA PasswordsAre ==
  /\ Password = Pairs \cup {NoPassword, Published}
  /\ NoPassword \notin Pairs /\ Published \notin Pairs /\ NoPassword # Published
  BY AccountsValues DEF Password, Pairs

LEMMA NewPasswordType ==
  ASSUME TypeOK, NEW b \in Browsers, NEW e \in Addresses, exists(e),
         account[e].chosen < MaxPasswords
  PROVE  nextPassword(b, e) \in Pairs /\ account[e].chosen + 1 \in 0..MaxPasswords
  <1>1. account[e].chosen \in 0..MaxPasswords BY DEF TypeOK, exists, Account
  <1>2. owner[b] \in People /\ MaxPasswords \in Nat BY AccountsAssumption
  <1> QED BY <1>1, <1>2 DEF nextPassword, Pairs

LEMMA SessionTypes ==
  ASSUME TypeOK, NEW b \in Browsers, NEW e \in Addresses
  PROVE  /\ \A w \in Password : passwordSession(b, e, w) \in Session
         /\ \A amr \in {"signup", "otp"} : linkSession(b, e, amr) \in Session
  <1>1. now \in 0..MaxTime /\ NoPassword \in Password BY PasswordsAre DEF TypeOK
  <1> QED BY <1>1 DEF passwordSession, linkSession, Session

LEMMA NewAccountType ==
  ASSUME TypeOK, NEW b \in Browsers, NEW e \in Addresses
  PROVE  newAccount(b, e) \in Account
  <1>1. now \in 0..MaxTime /\ confirmsMail \in BOOLEAN BY DEF TypeOK
  <1>2. <<owner[b], 1>> \in Pairs /\ 1 \in 0..MaxPasswords BY AccountsAssumption DEF Pairs
  <1> QED BY <1>1, <1>2, PasswordsAre DEF newAccount, Account

LEMMA ConfirmType ==
  ASSUME TypeOK, NEW e \in Addresses, exists(e)
  PROVE  /\ confirm(e) \in Account
         /\ confirm(e).confirmed /\ confirm(e).byLetter /\ confirm(e).letter = NoLetter
         /\ confirm(e).demo = account[e].demo /\ confirm(e).letterSent = account[e].letterSent
         /\ confirm(e).password = storedOnConfirmation(account[e])
         /\ confirm(e).chosen = account[e].chosen
         /\ confirm(e).lastSignIn = account[e].lastSignIn
  <1>1. account[e] \in Account BY DEF TypeOK, exists
  <1>2. storedOnConfirmation(account[e]) \in Password
    BY <1>1, PasswordsAre DEF storedOnConfirmation, Account
  <1> QED BY <1>1, <1>2 DEF confirm, Account

-----------------------------------------------------------------------------
(* What the operations write *)

\* What no sign-in, letter or recovery touches.
Kept(u, v) ==
  /\ v.demo = u.demo /\ v.confirmed = u.confirmed /\ v.byLetter = u.byLetter
  /\ v.letterSent = u.letterSent /\ v.password = u.password /\ v.chosen = u.chosen

LEMMA Stamped ==
  ASSUME NEW u \in Account, NEW t \in 0..MaxTime
  PROVE  LET v == [u EXCEPT !.lastSignIn = t]
         IN  v \in Account /\ Kept(u, v) /\ v.letter = u.letter /\ v.lastSignIn = t
  BY DEF Account, Kept

LEMMA Recovering ==
  ASSUME NEW u \in Account, NEW r \in BOOLEAN
  PROVE  LET v == [u EXCEPT !.recovery = r]
         IN  v \in Account /\ Kept(u, v) /\ v.letter = u.letter /\ v.lastSignIn = u.lastSignIn
  BY DEF Account, Kept

LEMMA Lettered ==
  ASSUME NEW u \in Account, NEW b \in Browsers
  PROVE  LET v == [u EXCEPT !.letter = b]
         IN  v \in Account /\ Kept(u, v) /\ v.letter = b /\ v.lastSignIn = u.lastSignIn
  BY DEF Account, Kept

LEMMA AccountAt ==
  ASSUME TypeOK, NEW e \in Addresses, exists(e)
  PROVE  account[e] \in Account
  BY DEF TypeOK, exists

LEMMA ChosenIsNumber ==
  ASSUME NEW a \in Account
  PROVE  a.chosen \in Nat
  BY AccountsAssumption DEF Account

LEMMA PairsAre ==
  ASSUME NEW p \in Pairs
  PROVE  /\ p[1] \in People /\ p[2] \in Nat
         /\ p # Published /\ p # NoPassword
  BY PasswordsAre, AccountsAssumption DEF Pairs

LEMMA AtMostOne ==
  ASSUME NEW S, NEW s, S = {} \/ S = {s}
  PROVE  Cardinality(S) <= 1
  BY FS_EmptySet, FS_Singleton

LEMMA SetPasswordWrites ==
  ASSUME TypeOK, NEW b \in Browsers, NEW e \in Addresses, exists(e),
         account[e].chosen < MaxPasswords, setPassword(b, e)
  PROVE  /\ account' \in [Addresses -> Account \cup {NoAccount}]
         /\ \A f \in Addresses \ {e} : account'[f] = account[f]
         /\ account'[e] \in Account
         /\ account'[e].password = nextPassword(b, e)
         /\ account'[e].chosen = account[e].chosen + 1
         /\ account'[e].demo = account[e].demo
         /\ account'[e].confirmed = account[e].confirmed
         /\ account'[e].byLetter = account[e].byLetter
         /\ account'[e].letterSent = account[e].letterSent
         /\ account'[e].letter = account[e].letter
         /\ account'[e].lastSignIn = account[e].lastSignIn
  <1> DEFINE u == account[e]
             w == nextPassword(b, e)
             v == [u EXCEPT !.password = w, !.chosen = u.chosen + 1]
  <1>1. u \in Account /\ w \in Password /\ u.chosen + 1 \in 0..MaxPasswords
    <2>1. u \in Account BY AccountAt
    <2>2. w \in Password BY NewPasswordType, PasswordsAre
    <2>3. u.chosen + 1 \in 0..MaxPasswords BY NewPasswordType
    <2> QED BY <2>1, <2>2, <2>3
  <1>2. /\ v \in Account /\ v.password = w /\ v.chosen = u.chosen + 1
        /\ v.demo = u.demo /\ v.confirmed = u.confirmed /\ v.byLetter = u.byLetter
        /\ v.letterSent = u.letterSent /\ v.letter = u.letter /\ v.lastSignIn = u.lastSignIn
    <2> HIDE DEF w, u
    <2> QED BY <1>1 DEF Account
  <1>3. account' = [account EXCEPT ![e] = v] BY DEF setPassword, TypeOK
  <1> QED BY <1>1, <1>2, <1>3 DEF TypeOK

\* A sign-in with a password, and the session of a link.
LEMMA SignInWrites ==
  ASSUME TypeOK, NEW b \in Browsers, NEW e \in Addresses, exists(e),
         signInWithPassword(b, e), account' = [account EXCEPT ![e].lastSignIn = now]
  PROVE  /\ account' \in [Addresses -> Account \cup {NoAccount}]
         /\ \A f \in Addresses \ {e} : account'[f] = account[f]
         /\ account'[e] \in Account /\ Kept(account[e], account'[e])
         /\ account'[e].letter = account[e].letter /\ account'[e].lastSignIn = now
         /\ LET s == passwordSession(b, e, account[e].password)
            IN  s \in Session /\ sessions' = sessions \cup {s} /\ cookie' = [cookie EXCEPT ![b] = s]
  <1>1. account[e] \in Account /\ now \in 0..MaxTime BY AccountAt DEF TypeOK
  <1>2. account[e].password \in Password BY <1>1 DEF Account
  <1>3. passwordSession(b, e, account[e].password) \in Session BY <1>2, SessionTypes
  <1>4. account' = [account EXCEPT ![e] = [account[e] EXCEPT !.lastSignIn = now]] OBVIOUS
  <1>5. /\ account' \in [Addresses -> Account \cup {NoAccount}]
        /\ \A f \in Addresses \ {e} : account'[f] = account[f]
        /\ account'[e] = [account[e] EXCEPT !.lastSignIn = now]
    BY <1>1, <1>4, Stamped DEF TypeOK
  <1> QED BY <1>1, <1>3, <1>5, Stamped DEF signInWithPassword

LEMMA OpenLetterWrites ==
  ASSUME TypeOK, NEW b \in Browsers, NEW e \in Addresses, OpenLetter(b, e)
  PROVE  /\ account' \in [Addresses -> Account \cup {NoAccount}]
         /\ \A f \in Addresses \ {e} : account'[f] = account[f]
         /\ account'[e] \in Account /\ Kept(confirm(e), account'[e])
         /\ account'[e].letter = NoLetter
         /\ \/ /\ account'[e].lastSignIn = now
               /\ LET s == linkSession(b, e, "signup")
                  IN  s \in Session /\ sessions' = sessions \cup {s} /\ cookie' = [cookie EXCEPT ![b] = s]
               /\ screen' = [screen EXCEPT ![b] = "new-password"]
               /\ verifier' = [verifier EXCEPT ![b] = NoLetter]
            \/ /\ account'[e].lastSignIn = account[e].lastSignIn
               /\ screen' = [screen EXCEPT ![b] = IF cookie[b] = NoSession THEN "login" ELSE "home"]
               /\ UNCHANGED <<sessions, cookie, verifier>>
  <1> DEFINE v == [confirm(e) EXCEPT !.lastSignIn = now]
  <1>1. exists(e) BY DEF OpenLetter
  <1>2. confirm(e) \in Account /\ now \in 0..MaxTime BY <1>1, ConfirmType DEF TypeOK
  <1>3. v \in Account /\ Kept(confirm(e), v) /\ v.letter = NoLetter /\ v.lastSignIn = now
    BY <1>1, <1>2, Stamped, ConfirmType
  <1>4. linkSession(b, e, "signup") \in Session BY SessionTypes
  <1>5. CASE account[e].letter = b /\ verifier[b] = e
    <2>1. account' = [account EXCEPT ![e] = v] BY <1>5 DEF OpenLetter
    <2> HIDE DEF v
    <2>2. account' \in [Addresses -> Account \cup {NoAccount}] /\ account'[e] = v
          /\ \A f \in Addresses \ {e} : account'[f] = account[f]
      BY <2>1, <1>3 DEF TypeOK
    <2>3. /\ sessions' = sessions \cup {linkSession(b, e, "signup")}
          /\ cookie' = [cookie EXCEPT ![b] = linkSession(b, e, "signup")]
          /\ screen' = [screen EXCEPT ![b] = "new-password"]
          /\ verifier' = [verifier EXCEPT ![b] = NoLetter]
      BY <1>5 DEF OpenLetter
    <2> QED BY <2>2, <2>3, <1>3, <1>4
  <1>6. CASE ~(account[e].letter = b /\ verifier[b] = e)
    <2>1. /\ account' = [account EXCEPT ![e] = confirm(e)]
          /\ screen' = [screen EXCEPT ![b] = IF cookie[b] = NoSession THEN "login" ELSE "home"]
          /\ UNCHANGED <<sessions, cookie, verifier>>
      BY <1>6 DEF OpenLetter
    <2>2. account' \in [Addresses -> Account \cup {NoAccount}] /\ account'[e] = confirm(e)
          /\ \A f \in Addresses \ {e} : account'[f] = account[f]
      BY <2>1, <1>2 DEF TypeOK
    <2> QED BY <2>1, <2>2, <1>1, <1>2, ConfirmType DEF Kept
  <1> QED BY <1>5, <1>6

LEMMA OpenRecoveryWrites ==
  ASSUME TypeOK, NEW b \in Browsers, NEW e \in Addresses, OpenRecovery(b, e)
  PROVE  /\ account' \in [Addresses -> Account \cup {NoAccount}]
         /\ \A f \in Addresses \ {e} : account'[f] = account[f]
         /\ account'[e] \in Account /\ account'[e].lastSignIn = now
         /\ IF account[e].confirmed
            THEN Kept(account[e], account'[e]) /\ account'[e].letter = account[e].letter
            ELSE Kept(confirm(e), account'[e]) /\ account'[e].letter = NoLetter
         /\ LET s == linkSession(b, e, "otp")
            IN  s \in Session /\ sessions' = sessions \cup {s} /\ cookie' = [cookie EXCEPT ![b] = s]
         /\ screen' = [screen EXCEPT ![b] = "new-password"]
  <1> DEFINE u == IF account[e].confirmed THEN [account[e] EXCEPT !.recovery = FALSE]
                  ELSE confirm(e)
             v == [u EXCEPT !.lastSignIn = now]
  <1>1. exists(e) BY DEF OpenRecovery
  <1>2. account[e] \in Account /\ confirm(e) \in Account /\ now \in 0..MaxTime
    BY <1>1, ConfirmType, AccountAt DEF TypeOK
  <1>3. /\ u \in Account
        /\ IF account[e].confirmed
           THEN Kept(account[e], u) /\ u.letter = account[e].letter
           ELSE Kept(confirm(e), u) /\ u.letter = NoLetter
    <2>1. CASE account[e].confirmed
      <3>1. u = [account[e] EXCEPT !.recovery = FALSE] BY <2>1
      <3> HIDE DEF u
      <3> QED BY <2>1, <3>1, <1>2, Recovering
    <2>2. CASE ~account[e].confirmed
      BY <2>2, <1>1, <1>2, ConfirmType DEF Kept
    <2> QED BY <2>1, <2>2
  <1>4. account' = [account EXCEPT ![e] = v] BY DEF OpenRecovery
  <1> HIDE DEF u
  <1>5. v \in Account /\ Kept(u, v) /\ v.letter = u.letter /\ v.lastSignIn = now
    BY <1>2, <1>3, Stamped
  <1> HIDE DEF v
  <1>6. account' \in [Addresses -> Account \cup {NoAccount}] /\ account'[e] = v
        /\ \A f \in Addresses \ {e} : account'[f] = account[f]
    BY <1>4, <1>5 DEF TypeOK
  <1>7. /\ sessions' = sessions \cup {linkSession(b, e, "otp")}
        /\ cookie' = [cookie EXCEPT ![b] = linkSession(b, e, "otp")]
        /\ screen' = [screen EXCEPT ![b] = "new-password"]
    BY DEF OpenRecovery
  <1>8. linkSession(b, e, "otp") \in Session BY SessionTypes
  <1> QED BY <1>3, <1>5, <1>6, <1>7, <1>8 DEF Kept

LEMMA TypeInit == Init => TypeOK
  <1>1. demoAccount \in Account
    BY AccountsAssumption, PasswordsAre DEF demoAccount, Account
  <1> QED BY <1>1, AccountsAssumption DEF Init, TypeOK, Screens

LEMMA HoldersExist ==
  ASSUME TypeOK, SessionsHaveAccounts, NEW b \in Browsers, cookie[b] # NoSession
  PROVE  /\ cookie[b] \in Session /\ cookie[b].address \in Addresses
         /\ cookie[b].browser = b /\ exists(cookie[b].address)
         /\ account[cookie[b].address].confirmed
  <1>1. cookie[b] \in Session BY DEF TypeOK
  <1>2. cookie[b].address \in Addresses BY <1>1 DEF Session
  <1> QED BY <1>1, <1>2 DEF SessionsHaveAccounts

\* A browser takes a session.
LEMMA TakesSession ==
  ASSUME TypeOK, NEW b \in Browsers, NEW s \in Session,
         sessions' = sessions \cup {s}, cookie' = [cookie EXCEPT ![b] = s]
  PROVE  sessions' \subseteq Session /\ cookie' \in [Browsers -> Session \cup {NoSession}]
  BY DEF TypeOK

LEMMA TurnsScreen ==
  ASSUME TypeOK, NEW b \in Browsers, NEW x \in Screens, screen' = [screen EXCEPT ![b] = x]
  PROVE  screen' \in [Browsers -> Screens]
  BY DEF TypeOK

\* Each operation shows one of the screens.
LEMMA ScreensAre ==
  /\ "login" \in Screens /\ "home" \in Screens /\ "new-password" \in Screens
  /\ "entered" \in Screens /\ "changed" \in Screens
  BY DEF Screens

LEMMA TypeNext == TypeOK /\ SessionsHaveAccounts /\ [Next]_vars => TypeOK'
  <1> SUFFICES ASSUME TypeOK, SessionsHaveAccounts, [Next]_vars PROVE TypeOK'
    OBVIOUS
  <1>1. ASSUME NEW b \in Browsers, NEW e \in Addresses, SignUpAtOnce(b, e) PROVE TypeOK'
    <2> DEFINE s == passwordSession(b, e, <<owner[b], 1>>)
    <2>1. <<owner[b], 1>> \in Password BY AccountsAssumption, PasswordsAre DEF Pairs
    <2>2. s \in Session BY <2>1, SessionTypes
    <2>3. /\ sessions' = sessions \cup {s} /\ cookie' = [cookie EXCEPT ![b] = s]
          /\ screen' = [screen EXCEPT ![b] = "home"]
          /\ account' = [account EXCEPT ![e] = newAccount(b, e)]
          /\ UNCHANGED <<now, confirmsMail, verifier>>
      BY <1>1 DEF SignUpAtOnce
    <2> HIDE DEF s
    <2>4. account' \in [Addresses -> Account \cup {NoAccount}]
      BY <2>3, NewAccountType DEF TypeOK
    <2> QED BY <2>2, <2>3, <2>4, TakesSession, TurnsScreen, ScreensAre DEF TypeOK
  <1>2. ASSUME NEW b \in Browsers, NEW e \in Addresses, SignUpByLetter(b, e) PROVE TypeOK'
    <2>1. account' \in [Addresses -> Account \cup {NoAccount}]
      <3>1. CASE ~exists(e)
        <4>1. account' = [account EXCEPT ![e] = newAccount(b, e)] BY <1>2, <3>1 DEF SignUpByLetter
        <4> QED BY <4>1, NewAccountType DEF TypeOK
      <3>2. CASE exists(e) /\ ~account[e].confirmed
        <4>1. account' = [account EXCEPT ![e] = [account[e] EXCEPT !.letter = b]]
          BY <1>2, <3>2 DEF SignUpByLetter
        <4> QED BY <3>2, <4>1, AccountAt, Lettered DEF TypeOK
      <3>3. CASE exists(e) /\ account[e].confirmed
        BY <1>2, <3>3 DEF SignUpByLetter, TypeOK
      <3> QED BY <3>1, <3>2, <3>3
    <2> QED BY <1>2, <2>1 DEF SignUpByLetter, TypeOK
  <1>3. ASSUME NEW b \in Browsers, NEW e \in Addresses, OpenLetter(b, e) PROVE TypeOK'
    <2>1. account' \in [Addresses -> Account \cup {NoAccount}] BY <1>3, OpenLetterWrites
    <2>2. /\ sessions' \subseteq Session /\ cookie' \in [Browsers -> Session \cup {NoSession}]
          /\ verifier' \in [Browsers -> Addresses \cup {NoLetter}]
      BY <1>3, OpenLetterWrites, TakesSession DEF TypeOK
    <2>3. screen' \in [Browsers -> Screens]
      BY <1>3, OpenLetterWrites, TurnsScreen, ScreensAre
    <2>4. UNCHANGED <<now, confirmsMail>> BY <1>3 DEF OpenLetter
    <2> QED BY <2>1, <2>2, <2>3, <2>4 DEF TypeOK
  <1>4. ASSUME NEW b \in Browsers, NEW e \in Addresses, OpenRecovery(b, e) PROVE TypeOK'
    BY <1>4, OpenRecoveryWrites DEF OpenRecovery, TypeOK, Screens
  <1>5. ASSUME NEW b \in Browsers, NEW e \in Addresses, SignIn(b, e) PROVE TypeOK'
    <2>1. /\ exists(e) /\ signInWithPassword(b, e)
          /\ account' = [account EXCEPT ![e].lastSignIn = now]
          /\ screen' = [screen EXCEPT ![b] = "home"]
          /\ UNCHANGED <<now, confirmsMail, verifier>>
      BY <1>5 DEF SignIn
    <2> QED BY <2>1, SignInWrites, TakesSession, TurnsScreen, ScreensAre DEF TypeOK
  <1>6. ASSUME NEW e \in Addresses, SendRecovery(e) PROVE TypeOK'
    BY <1>6, AccountAt, Recovering DEF SendRecovery, TypeOK
  <1>7. ASSUME NEW b \in Browsers, SignOut(b) PROVE TypeOK'
    BY <1>7 DEF SignOut, leave, TypeOK, Screens
  <1>8. ASSUME NEW b \in Browsers, RequestNewLink(b) PROVE TypeOK'
    BY <1>8 DEF RequestNewLink, leave, TypeOK, Screens
  <1>9. ASSUME NEW b \in Browsers, NEW scope \in {"global", "others"}, SignOutBySdk(b, scope)
        PROVE TypeOK'
    BY <1>9 DEF SignOutBySdk, TypeOK, Screens
  <1>10. ASSUME NEW b \in Browsers, OpenReset(b) PROVE TypeOK'
    BY <1>10 DEF OpenReset, TypeOK, Screens
  <1>11. ASSUME NEW b \in Browsers, SubmitReset(b) PROVE TypeOK'
    <2>1. cookie[b].address \in Addresses /\ exists(cookie[b].address)
      BY <1>11, HoldersExist DEF SubmitReset, isLive
    <2>2. account' \in [Addresses -> Account \cup {NoAccount}]
      BY <1>11, <2>1, SetPasswordWrites DEF SubmitReset, TypeOK
    <2> QED BY <1>11, <2>2 DEF SubmitReset, TypeOK, Screens
  <1>12. ASSUME NEW b \in Browsers, EnterCurrent(b) PROVE TypeOK'
    <2>1. cookie[b].address \in Addresses /\ exists(cookie[b].address)
      BY <1>12, HoldersExist DEF EnterCurrent
    <2>2. PICK e \in Addresses : e = cookie[b].address BY <2>1
    <2>3. /\ exists(e) /\ signInWithPassword(b, e)
          /\ account' = [account EXCEPT ![e].lastSignIn = now]
          /\ screen' = [screen EXCEPT ![b] = "entered"]
          /\ UNCHANGED <<now, confirmsMail, verifier>>
      BY <1>12, <2>1, <2>2 DEF EnterCurrent
    <2> QED BY <2>3, SignInWrites, TakesSession, TurnsScreen, ScreensAre DEF TypeOK
  <1>13. ASSUME NEW b \in Browsers, ChangePassword(b) PROVE TypeOK'
    <2>1. CASE isLive(b) /\ acceptsPassword(cookie[b].address)
      <3>1. cookie[b].address \in Addresses /\ exists(cookie[b].address)
        BY <2>1, HoldersExist DEF isLive
      <3>2. account' \in [Addresses -> Account \cup {NoAccount}]
        BY <1>13, <2>1, <3>1, SetPasswordWrites DEF ChangePassword, TypeOK
      <3> QED BY <1>13, <2>1, <3>2 DEF ChangePassword, TypeOK, Screens
    <2>2. CASE ~(isLive(b) /\ acceptsPassword(cookie[b].address))
      BY <1>13, <2>2 DEF ChangePassword, TypeOK, Screens
    <2> QED BY <2>1, <2>2
  <1>14. ASSUME NEW b \in Browsers, LeaveOthers(b) PROVE TypeOK'
    BY <1>14 DEF LeaveOthers, TypeOK, Screens
  <1>15. ASSUME NEW b \in Browsers, Close(b) PROVE TypeOK'
    BY <1>15 DEF Close, TypeOK, Screens
  <1>16. ASSUME NEW b \in Browsers, UpdateUserBySdk(b) PROVE TypeOK'
    <2>1. cookie[b].address \in Addresses /\ exists(cookie[b].address)
      BY <1>16, HoldersExist DEF UpdateUserBySdk, isLive
    <2> QED BY <1>16, <2>1, SetPasswordWrites DEF UpdateUserBySdk, TypeOK
  <1>17. ASSUME Tick PROVE TypeOK'
    BY <1>17, AccountsAssumption DEF Tick, TypeOK
  <1>18. ASSUME UNCHANGED vars PROVE TypeOK'
    BY <1>18 DEF vars, TypeOK
  <1> QED
    BY <1>1, <1>2, <1>3, <1>4, <1>5, <1>6, <1>7, <1>8, <1>9, <1>10, <1>11, <1>12, <1>13,
       <1>14, <1>15, <1>16, <1>17, <1>18 DEF Next


-----------------------------------------------------------------------------
(* The effects of a step.  An action is long because it moves an account, a   *)
(* session, a cookie and a screen together; the invariants need only that     *)
(* each of these moves in one of a few ways.                                  *)

signedInLater(u, v) == v.lastSignIn \in {u.lastSignIn, now}

AccountStep(e) ==
  \/ account'[e] = account[e]
  \/ ~exists(e) /\ \E b \in Browsers : account'[e] = newAccount(b, e)
  \/ /\ exists(e) /\ account'[e] \in Account
     /\ signedInLater(account[e], account'[e])
     /\ \/ /\ Kept(account[e], account'[e])
           /\ account'[e].letter = account[e].letter \/ ~account[e].confirmed
        \/ ~account[e].confirmed /\ Kept(confirm(e), account'[e]) /\ account'[e].letter = NoLetter
        \/ \E b \in Browsers :
             /\ cookie[b] \in sessions /\ cookie[b].address = e
             /\ acceptsPassword(e) /\ account[e].chosen < MaxPasswords
             /\ setPassword(b, e)

\* A session s that browser b has just been given.
NewSession(b, s) ==
  /\ s \in Session /\ s.browser = b
  /\ account'[s.address] \in Account /\ account'[s.address].confirmed
  /\ account'[s.address].lastSignIn = now /\ now' = now
  /\ \/ /\ s.amr = "password" /\ s.under = account'[s.address].password
        /\ IF exists(s.address)
           THEN knows(b, s.address) /\ Kept(account[s.address], account'[s.address])
           ELSE ~account'[s.address].byLetter
     \/ s.amr \in {"signup", "otp"} /\ s.at = now /\ s.address \in mailOf[owner[b]]

CookieStep(b) ==
  \/ cookie'[b] = cookie[b]
  \/ cookie'[b] = NoSession
  \/ NewSession(b, cookie'[b])

SessionsStep ==
  \A s \in sessions' \ sessions : NewSession(s.browser, s)

\* The screens that claim nothing of a session.
QuietScreens == {"home", "new-password", "refused-form", "forgot-password"}

ScreenStep(b) ==
  \/ screen'[b] = screen[b] /\ cookie'[b] = cookie[b]
  \/ screen'[b] \in QuietScreens
  \/ screen'[b] = "login" /\ cookie'[b] = NoSession
  \/ /\ screen'[b] = "entered" /\ cookie'[b] \in Session
     /\ exists(cookie'[b].address) /\ ~account[cookie'[b].address].demo
     /\ cookie'[b].under = account[cookie'[b].address].password
     /\ account[cookie'[b].address].password \in Pairs
  \/ /\ screen[b] = "entered" /\ screen'[b] = "changed" /\ cookie'[b] = cookie[b]
     /\ account'[cookie[b].address].chosen = account[cookie[b].address].chosen + 1
  \/ /\ screen[b] = "changed" /\ screen'[b] = "password-changed" /\ cookie'[b] = cookie[b]
     /\ \A s \in sessions' : s.address = cookie[b].address => s = cookie[b]

Effects ==
  /\ \A e \in Addresses : AccountStep(e)
  /\ \A b \in Browsers : CookieStep(b) /\ ScreenStep(b)
  /\ SessionsStep
  /\ now' \in {now, now + 1}

\* A step that writes no account.
LEMMA AccountsStay == account' = account => \A e \in Addresses : AccountStep(e)
  BY DEF AccountStep

\* A step that gives nobody a session.
LEMMA SessionsGo ==
  ASSUME sessions' \subseteq sessions
  PROVE  SessionsStep
  BY DEF SessionsStep

\* A browser is given a session, and shows another screen.
LEMMA BrowserEnters ==
  ASSUME TypeOK, NEW b \in Browsers, NEW s, NewSession(b, s),
         sessions' = sessions \cup {s}, cookie' = [cookie EXCEPT ![b] = s],
         NEW x, screen' = [screen EXCEPT ![b] = x], x \in QuietScreens
  PROVE  SessionsStep /\ \A c \in Browsers : CookieStep(c) /\ ScreenStep(c)
  <1>1. SessionsStep BY DEF SessionsStep, NewSession
  <1>2. ASSUME NEW c \in Browsers PROVE CookieStep(c) /\ ScreenStep(c)
    <2>1. CASE c = b
      <3>1. cookie'[b] = s /\ screen'[b] = x BY DEF TypeOK
      <3> QED BY <2>1, <3>1 DEF CookieStep, ScreenStep
    <2>2. CASE c # b
      <3>1. cookie'[c] = cookie[c] /\ screen'[c] = screen[c] BY <2>2 DEF TypeOK
      <3> QED BY <3>1 DEF CookieStep, ScreenStep
    <2> QED BY <2>1, <2>2
  <1> QED BY <1>1, <1>2


\* The button of the menu always signs out: what it asks of the provider, the database
\* does not forbid.
LEMMA ButtonsMayRemove ==
  ASSUME TypeOK, SessionsHaveAccounts, NEW b \in Browsers, cookie[b] # NoSession
  PROVE  mayRemove(doomed(b, signOutScope(cookie[b].address)))
  <1> DEFINE s == cookie[b]
             a == s.address
             removed == doomed(b, signOutScope(a))
  <1>1. a \in Addresses /\ exists(a) BY HoldersExist
  <1>2. SUFFICES ASSUME NEW e \in Addresses, isDemo(e)
                 PROVE  Cardinality({r \in removed : r.address = e}) <= 1
    BY DEF mayRemove
  <1>3. CASE isDemo(a)
    <2>1. removed \subseteq {s} BY <1>3 DEF doomed, signOutScope
    <2>2. {r \in removed : r.address = e} = {} \/ {r \in removed : r.address = e} = {s}
      BY <2>1
    <2> HIDE DEF removed
    <2> QED BY <2>2, AtMostOne
  <1>4. CASE ~isDemo(a)
    <2>1. \A r \in removed : r.address = a BY <1>4 DEF doomed, signOutScope, sessionsOf
    <2>2. {r \in removed : r.address = e} = {} BY <2>1, <1>2, <1>4
    <2> HIDE DEF removed
    <2> QED BY <2>2, AtMostOne
  <1> QED BY <1>3, <1>4

LEMMA SignUpAtOnceEffects ==
  ASSUME TypeOK, NEW b \in Browsers, NEW e \in Addresses, SignUpAtOnce(b, e)
  PROVE  Effects
  <1> DEFINE s == passwordSession(b, e, <<owner[b], 1>>)
  <1>1. /\ ~exists(e) /\ ~confirmsMail
        /\ account' = [account EXCEPT ![e] = newAccount(b, e)]
        /\ sessions' = sessions \cup {s} /\ cookie' = [cookie EXCEPT ![b] = s]
        /\ screen' = [screen EXCEPT ![b] = "home"] /\ now' = now
    BY DEF SignUpAtOnce
  <1>2. <<owner[b], 1>> \in Password BY AccountsAssumption, PasswordsAre DEF Pairs
  <1>3. s \in Session BY <1>2, SessionTypes
  <1>4. s.browser = b /\ s.address = e /\ s.amr = "password" /\ s.under = <<owner[b], 1>>
    BY DEF passwordSession
  <1>5. account'[e] = newAccount(b, e) /\ newAccount(b, e) \in Account
    BY <1>1, NewAccountType DEF TypeOK
  <1>6. /\ newAccount(b, e).confirmed /\ newAccount(b, e).lastSignIn = now
        /\ ~newAccount(b, e).byLetter /\ newAccount(b, e).password = <<owner[b], 1>>
    BY <1>1 DEF newAccount
  <1>7. NewSession(b, s) BY <1>1, <1>3, <1>4, <1>5, <1>6 DEF NewSession
  <1>8. ASSUME NEW f \in Addresses PROVE AccountStep(f)
    BY <1>1, <1>5 DEF AccountStep, TypeOK
  <1> QED BY <1>1, <1>7, <1>8, BrowserEnters DEF Effects, QuietScreens

LEMMA SignUpByLetterEffects ==
  ASSUME TypeOK, NEW b \in Browsers, NEW e \in Addresses, SignUpByLetter(b, e)
  PROVE  Effects
  <1>1. UNCHANGED <<now, sessions, cookie, screen>> BY DEF SignUpByLetter
  <1>2. SessionsStep /\ \A c \in Browsers : CookieStep(c) /\ ScreenStep(c)
    BY <1>1, SessionsGo DEF CookieStep, ScreenStep
  <1>3. ASSUME NEW f \in Addresses PROVE AccountStep(f)
    <2>1. CASE ~exists(e)
      <3>1. account' = [account EXCEPT ![e] = newAccount(b, e)] BY <2>1 DEF SignUpByLetter
      <3> QED BY <2>1, <3>1 DEF AccountStep, TypeOK
    <2>2. CASE exists(e) /\ ~account[e].confirmed
      <3> DEFINE v == [account[e] EXCEPT !.letter = b]
      <3>1. account' = [account EXCEPT ![e] = v] BY <2>2 DEF SignUpByLetter
      <3>2. v \in Account /\ Kept(account[e], v) /\ v.lastSignIn = account[e].lastSignIn
        BY <2>2, AccountAt, Lettered
      <3> HIDE DEF v
      <3> QED BY <2>2, <3>1, <3>2 DEF AccountStep, TypeOK, signedInLater
    <2>3. CASE exists(e) /\ account[e].confirmed
      BY <2>3 DEF SignUpByLetter, AccountStep
    <2> QED BY <2>1, <2>2, <2>3
  <1> QED BY <1>1, <1>2, <1>3 DEF Effects

\* A sign-in with a password, wherever it is typed.
LEMMA PasswordEffects ==
  ASSUME TypeOK, NEW b \in Browsers, NEW e \in Addresses,
         exists(e), account[e].confirmed, knows(b, e), signInWithPassword(b, e),
         account' = [account EXCEPT ![e].lastSignIn = now], now' = now
  PROVE  /\ \A f \in Addresses : AccountStep(f)
         /\ NewSession(b, passwordSession(b, e, account[e].password))
  <1> DEFINE s == passwordSession(b, e, account[e].password)
  <1>1. /\ \A f \in Addresses \ {e} : account'[f] = account[f]
        /\ account'[e] \in Account /\ Kept(account[e], account'[e])
        /\ account'[e].letter = account[e].letter /\ account'[e].lastSignIn = now
        /\ s \in Session
    BY SignInWrites
  <1>2. s.browser = b /\ s.address = e /\ s.amr = "password" /\ s.under = account[e].password
    BY DEF passwordSession
  <1>3. account'[e].confirmed /\ account'[e].password = account[e].password BY <1>1 DEF Kept
  <1>4. NewSession(b, s) BY <1>1, <1>2, <1>3 DEF NewSession
  <1>5. AccountStep(e) BY <1>1 DEF AccountStep, signedInLater
  <1>6. ASSUME NEW f \in Addresses \ {e} PROVE AccountStep(f) BY <1>1, <1>6 DEF AccountStep
  <1> QED BY <1>4, <1>5, <1>6

LEMMA SignInEffects ==
  ASSUME TypeOK, NEW b \in Browsers, NEW e \in Addresses, SignIn(b, e)
  PROVE  Effects
  <1> DEFINE s == passwordSession(b, e, account[e].password)
  <1>1. /\ exists(e) /\ account[e].confirmed /\ knows(b, e) /\ signInWithPassword(b, e)
        /\ account' = [account EXCEPT ![e].lastSignIn = now] /\ now' = now
        /\ screen' = [screen EXCEPT ![b] = "home"]
    BY DEF SignIn
  <1>2. NewSession(b, s) /\ \A f \in Addresses : AccountStep(f) BY <1>1, PasswordEffects
  <1>3. sessions' = sessions \cup {s} /\ cookie' = [cookie EXCEPT ![b] = s]
    BY <1>1 DEF signInWithPassword
  <1> QED BY <1>1, <1>2, <1>3, BrowserEnters DEF Effects, QuietScreens

LEMMA EnterCurrentEffects ==
  ASSUME TypeOK, SessionsHaveAccounts, DemoIsPublished, NEW b \in Browsers, EnterCurrent(b)
  PROVE  Effects
  <1>1. cookie[b].address \in Addresses /\ exists(cookie[b].address)
        /\ account[cookie[b].address].confirmed
    BY HoldersExist DEF EnterCurrent
  <1>2. PICK e \in Addresses : e = cookie[b].address BY <1>1
  <1> DEFINE s == passwordSession(b, e, account[e].password)
  <1>3. /\ exists(e) /\ account[e].confirmed /\ ~isDemo(e) /\ knows(b, e)
        /\ signInWithPassword(b, e)
        /\ account' = [account EXCEPT ![e].lastSignIn = now] /\ now' = now
        /\ screen' = [screen EXCEPT ![b] = "entered"]
    BY <1>1, <1>2 DEF EnterCurrent
  <1>4. NewSession(b, s) /\ \A f \in Addresses : AccountStep(f) BY <1>3, PasswordEffects
  <1>5. sessions' = sessions \cup {s} /\ cookie' = [cookie EXCEPT ![b] = s]
    BY <1>3 DEF signInWithPassword
  <1>6. SessionsStep BY <1>4, <1>5 DEF SessionsStep, NewSession
  <1>7. account[e].password \in Pairs /\ ~account[e].demo
    <2>1. account[e].password # Published /\ ~account[e].demo
      BY <1>3 DEF DemoIsPublished, isDemo
    <2>2. PICK n \in 1..MaxPasswords : account[e].password = <<owner[b], n>>
      BY <2>1, <1>3 DEF knows
    <2>3. owner[b] \in People BY AccountsAssumption
    <2>4. account[e].password \in Pairs BY <2>2, <2>3 DEF Pairs
    <2> QED BY <2>1, <2>4
  <1>8. s \in Session /\ s.address = e /\ s.under = account[e].password
    BY <1>4 DEF NewSession, passwordSession
  <1>9. ASSUME NEW c \in Browsers PROVE CookieStep(c) /\ ScreenStep(c)
    <2>1. CASE c = b
      <3>1. cookie'[b] = s /\ screen'[b] = "entered" BY <1>3, <1>5 DEF TypeOK
      <3>2. CookieStep(b) BY <3>1, <1>4 DEF CookieStep
      <3> HIDE DEF s
      <3>3. ScreenStep(b) BY <3>1, <1>3, <1>7, <1>8 DEF ScreenStep
      <3> QED BY <2>1, <3>2, <3>3
    <2>2. CASE c # b
      BY <2>2, <1>3, <1>5 DEF CookieStep, ScreenStep, TypeOK
    <2> QED BY <2>1, <2>2
  <1> QED BY <1>3, <1>4, <1>6, <1>9 DEF Effects


LEMMA OpenLetterEffects ==
  ASSUME TypeOK, LettersConfirm, NEW b \in Browsers, NEW e \in Addresses, OpenLetter(b, e)
  PROVE  Effects
  <1> DEFINE s == linkSession(b, e, "signup")
  <1>1. /\ exists(e) /\ ~account[e].confirmed /\ e \in mailOf[owner[b]] /\ now' = now
    BY DEF OpenLetter, LettersConfirm
  <1>2. /\ \A f \in Addresses \ {e} : account'[f] = account[f]
        /\ account'[e] \in Account /\ Kept(confirm(e), account'[e])
        /\ account'[e].letter = NoLetter /\ account'[e].lastSignIn \in {account[e].lastSignIn, now}
    BY OpenLetterWrites
  <1>3. AccountStep(e) BY <1>1, <1>2 DEF AccountStep, signedInLater
  <1>4. ASSUME NEW f \in Addresses \ {e} PROVE AccountStep(f) BY <1>2, <1>4 DEF AccountStep
  <1>5. SessionsStep /\ \A c \in Browsers : CookieStep(c) /\ ScreenStep(c)
    <2>1. CASE /\ account'[e].lastSignIn = now
               /\ s \in Session /\ sessions' = sessions \cup {s} /\ cookie' = [cookie EXCEPT ![b] = s]
               /\ screen' = [screen EXCEPT ![b] = "new-password"]
      <3>1. s.browser = b /\ s.address = e /\ s.amr = "signup" /\ s.at = now
        BY DEF linkSession
      <3>2. account'[e].confirmed BY <1>1, <1>2, ConfirmType DEF Kept
      <3>3. NewSession(b, s) BY <1>1, <1>2, <2>1, <3>1, <3>2 DEF NewSession
      <3> QED BY <2>1, <3>3, BrowserEnters DEF QuietScreens
    <2>2. CASE /\ screen' = [screen EXCEPT ![b] = IF cookie[b] = NoSession THEN "login" ELSE "home"]
               /\ UNCHANGED <<sessions, cookie, verifier>>
      <3>1. SessionsStep BY <2>2, SessionsGo
      <3>2. ASSUME NEW c \in Browsers PROVE CookieStep(c) /\ ScreenStep(c)
        BY <2>2 DEF CookieStep, ScreenStep, QuietScreens, TypeOK
      <3> QED BY <3>1, <3>2
    <2> QED BY <2>1, <2>2, OpenLetterWrites
  <1> QED BY <1>1, <1>3, <1>4, <1>5 DEF Effects

LEMMA OpenRecoveryEffects ==
  ASSUME TypeOK, NEW b \in Browsers, NEW e \in Addresses, OpenRecovery(b, e)
  PROVE  Effects
  <1> DEFINE s == linkSession(b, e, "otp")
  <1>1. exists(e) /\ e \in mailOf[owner[b]] /\ now' = now BY DEF OpenRecovery
  <1>2. /\ \A f \in Addresses \ {e} : account'[f] = account[f]
        /\ account'[e] \in Account /\ account'[e].lastSignIn = now
        /\ IF account[e].confirmed
           THEN Kept(account[e], account'[e]) /\ account'[e].letter = account[e].letter
           ELSE Kept(confirm(e), account'[e]) /\ account'[e].letter = NoLetter
        /\ s \in Session /\ sessions' = sessions \cup {s} /\ cookie' = [cookie EXCEPT ![b] = s]
        /\ screen' = [screen EXCEPT ![b] = "new-password"]
    BY OpenRecoveryWrites
  <1>3. AccountStep(e) BY <1>1, <1>2 DEF AccountStep, signedInLater
  <1>4. ASSUME NEW f \in Addresses \ {e} PROVE AccountStep(f) BY <1>2, <1>4 DEF AccountStep
  <1>5. s.browser = b /\ s.address = e /\ s.amr = "otp" /\ s.at = now BY DEF linkSession
  <1>6. account'[e].confirmed BY <1>1, <1>2, ConfirmType DEF Kept
  <1>7. NewSession(b, s) BY <1>1, <1>2, <1>5, <1>6 DEF NewSession
  <1> QED BY <1>1, <1>2, <1>3, <1>4, <1>7, BrowserEnters DEF Effects, QuietScreens

LEMMA SendRecoveryEffects ==
  ASSUME TypeOK, NEW e \in Addresses, SendRecovery(e)
  PROVE  Effects
  <1> DEFINE v == [account[e] EXCEPT !.recovery = TRUE]
  <1>1. account' = [account EXCEPT ![e] = v] /\ exists(e) /\ UNCHANGED <<now, sessions, cookie, screen>>
    BY DEF SendRecovery
  <1>2. /\ v \in Account /\ Kept(account[e], v) /\ v.letter = account[e].letter
        /\ v.lastSignIn = account[e].lastSignIn
    BY <1>1, AccountAt, Recovering
  <1> HIDE DEF v
  <1>3. ASSUME NEW f \in Addresses PROVE AccountStep(f)
    BY <1>1, <1>2 DEF AccountStep, signedInLater, TypeOK
  <1> QED BY <1>1, <1>3, SessionsGo DEF Effects, CookieStep, ScreenStep

\* A browser's screen turns, and its session may go with the others that it ends.
LEMMA BrowserTurns ==
  ASSUME TypeOK, NEW b \in Browsers, NEW x, screen' = [screen EXCEPT ![b] = x],
         sessions' \subseteq sessions, account' = account, now' = now,
         \/ x \in QuietScreens /\ (cookie' = cookie \/ cookie' = [cookie EXCEPT ![b] = NoSession])
         \/ x = "login" /\ cookie' = [cookie EXCEPT ![b] = NoSession]
  PROVE  Effects
  <1>1. ASSUME NEW c \in Browsers PROVE CookieStep(c) /\ ScreenStep(c)
    <2>1. CASE c = b
      <3>1. /\ screen'[b] = x /\ cookie'[b] \in {cookie[b], NoSession}
            /\ x = "login" => cookie'[b] = NoSession
        BY DEF TypeOK, QuietScreens
      <3> QED BY <2>1, <3>1 DEF CookieStep, ScreenStep
    <2>2. CASE c # b
      <3>1. cookie'[c] = cookie[c] /\ screen'[c] = screen[c] BY <2>2 DEF TypeOK
      <3> QED BY <3>1 DEF CookieStep, ScreenStep
    <2> QED BY <2>1, <2>2
  <1> QED BY <1>1, AccountsStay, SessionsGo DEF Effects

LEMMA SignOutEffects ==
  ASSUME TypeOK, SessionsHaveAccounts, NEW b \in Browsers,
         SignOut(b) \/ RequestNewLink(b) \/ (\E scope \in {"global", "others"} : SignOutBySdk(b, scope))
  PROVE  Effects
  <1>1. CASE SignOut(b)
    <2>1. mayRemove(doomed(b, signOutScope(cookie[b].address)))
      BY <1>1, ButtonsMayRemove DEF SignOut
    <2> QED BY <1>1, <2>1, BrowserTurns DEF SignOut, leave
  <1>2. CASE RequestNewLink(b)
    BY <1>2, BrowserTurns DEF RequestNewLink, leave, QuietScreens
  <1>3. CASE SignOutBySdk(b, "global")
    BY <1>3, BrowserTurns DEF SignOutBySdk, QuietScreens
  <1>4. CASE SignOutBySdk(b, "others")
    <2>1. sessions' \subseteq sessions /\ UNCHANGED <<now, account, cookie, screen>>
      BY <1>4 DEF SignOutBySdk
    <2> QED BY <2>1, AccountsStay, SessionsGo DEF Effects, CookieStep, ScreenStep
  <1> QED BY <1>1, <1>2, <1>3, <1>4

\* A new password is set, and nobody comes or goes.
LEMMA RekeyEffects ==
  ASSUME TypeOK, SessionsHaveAccounts, NEW b \in Browsers, isLive(b),
         acceptsPassword(cookie[b].address),
         account[cookie[b].address].chosen < MaxPasswords, setPassword(b, cookie[b].address)
  PROVE  /\ \A f \in Addresses : AccountStep(f)
         /\ account'[cookie[b].address].chosen = account[cookie[b].address].chosen + 1
  <1>1. cookie[b].address \in Addresses /\ exists(cookie[b].address) /\ cookie[b] \in sessions
    BY HoldersExist DEF isLive
  <1>2. PICK e \in Addresses : e = cookie[b].address BY <1>1
  <1>3. /\ \A f \in Addresses \ {e} : account'[f] = account[f]
        /\ account'[e] \in Account /\ account'[e].lastSignIn = account[e].lastSignIn
        /\ account'[e].chosen = account[e].chosen + 1
    BY <1>1, <1>2, SetPasswordWrites
  <1>4. AccountStep(e) BY <1>1, <1>2, <1>3 DEF AccountStep, signedInLater
  <1>5. ASSUME NEW f \in Addresses \ {e} PROVE AccountStep(f) BY <1>3, <1>5 DEF AccountStep
  <1> QED BY <1>2, <1>3, <1>4, <1>5

LEMMA PasswordFormEffects ==
  ASSUME TypeOK, SessionsHaveAccounts, NEW b \in Browsers,
         OpenReset(b) \/ SubmitReset(b) \/ ChangePassword(b) \/ LeaveOthers(b) \/ Close(b)
           \/ UpdateUserBySdk(b)
  PROVE  Effects
  <1>1. CASE OpenReset(b) \/ Close(b)
    BY <1>1, BrowserTurns DEF OpenReset, Close, QuietScreens
  <1>2. CASE SubmitReset(b)
    <2>1. /\ isLive(b) /\ UNCHANGED <<now, sessions, cookie>>
          /\ \E x \in QuietScreens : screen' = [screen EXCEPT ![b] = x]
          /\ \/ account' = account
             \/ /\ acceptsPassword(cookie[b].address)
                /\ account[cookie[b].address].chosen < MaxPasswords
                /\ setPassword(b, cookie[b].address)
      BY <1>2 DEF SubmitReset, QuietScreens
    <2>2. \A f \in Addresses : AccountStep(f) BY <2>1, RekeyEffects, AccountsStay
    <2>3. ASSUME NEW c \in Browsers PROVE CookieStep(c) /\ ScreenStep(c)
      BY <2>1 DEF CookieStep, ScreenStep, TypeOK
    <2> QED BY <2>1, <2>2, <2>3, SessionsGo DEF Effects
  <1>3. CASE ChangePassword(b)
    <2>1. screen[b] = "entered" /\ UNCHANGED <<now, sessions, cookie>>
      BY <1>3 DEF ChangePassword
    <2>2. CASE isLive(b) /\ acceptsPassword(cookie[b].address)
      <3>1. /\ account[cookie[b].address].chosen < MaxPasswords
            /\ setPassword(b, cookie[b].address)
            /\ screen' = [screen EXCEPT ![b] = "changed"]
        BY <1>3, <2>2 DEF ChangePassword
      <3>2. /\ \A f \in Addresses : AccountStep(f)
            /\ account'[cookie[b].address].chosen = account[cookie[b].address].chosen + 1
        BY <2>2, <3>1, RekeyEffects
      <3>3. ASSUME NEW c \in Browsers PROVE CookieStep(c) /\ ScreenStep(c)
        BY <2>1, <3>1, <3>2 DEF CookieStep, ScreenStep, TypeOK
      <3> QED BY <2>1, <3>2, <3>3, SessionsGo DEF Effects
    <2>3. CASE ~(isLive(b) /\ acceptsPassword(cookie[b].address))
      BY <1>3, <2>1, <2>3, BrowserTurns DEF ChangePassword, QuietScreens
    <2> QED BY <2>2, <2>3
  <1>4. CASE LeaveOthers(b)
    <2>1. screen[b] = "changed" /\ UNCHANGED <<now, account, cookie>>
      BY <1>4 DEF LeaveOthers
    <2>2. CASE /\ isLive(b) /\ sessions' = sessions \ doomed(b, "others")
               /\ screen' = [screen EXCEPT ![b] = "password-changed"]
      <3>1. sessions' \subseteq sessions BY <2>2
      <3>2. \A s \in sessions' : s.address = cookie[b].address => s = cookie[b]
        BY <2>2 DEF doomed, sessionsOf
      <3>3. ASSUME NEW c \in Browsers PROVE CookieStep(c) /\ ScreenStep(c)
        BY <2>1, <2>2, <3>2 DEF CookieStep, ScreenStep, TypeOK
      <3> QED BY <2>1, <3>1, <3>3, AccountsStay, SessionsGo DEF Effects
    <2>3. CASE screen' = [screen EXCEPT ![b] = "home"] /\ UNCHANGED sessions
      BY <2>1, <2>3, BrowserTurns DEF QuietScreens
    <2> QED BY <1>4, <2>2, <2>3 DEF LeaveOthers
  <1>5. CASE UpdateUserBySdk(b)
    <2>1. /\ isLive(b) /\ UNCHANGED <<now, sessions, cookie, screen>>
          /\ acceptsPassword(cookie[b].address)
          /\ account[cookie[b].address].chosen < MaxPasswords
          /\ setPassword(b, cookie[b].address)
      BY <1>5 DEF UpdateUserBySdk
    <2> QED BY <2>1, RekeyEffects, SessionsGo DEF Effects, CookieStep, ScreenStep
  <1> QED BY <1>1, <1>2, <1>3, <1>4, <1>5

\* Every step of the system has these effects and no other.
LEMMA StepsHaveEffects ==
  ASSUME TypeOK, SessionsHaveAccounts, LettersConfirm, DemoIsPublished, [Next]_vars
  PROVE  Effects
  <1>1. CASE Tick \/ UNCHANGED vars
    <2>1. UNCHANGED <<account, sessions, cookie, screen>> /\ now' \in {now, now + 1}
      BY <1>1 DEF Tick, vars
    <2> QED BY <2>1, AccountsStay, SessionsGo DEF Effects, CookieStep, ScreenStep
  <1> QED
    BY <1>1, SignUpAtOnceEffects, SignUpByLetterEffects, OpenLetterEffects, OpenRecoveryEffects,
       SignInEffects, SendRecoveryEffects, SignOutEffects, EnterCurrentEffects,
       PasswordFormEffects DEF Next


-----------------------------------------------------------------------------
(* The invariant is inductive *)

\* A confirmation, in the fields that the invariant speaks of.
LEMMA Confirming ==
  ASSUME TypeOK, LettersConfirm, NEW e \in Addresses, exists(e), ~account[e].confirmed,
         NEW v, Kept(confirm(e), v)
  PROVE  /\ v.confirmed /\ v.password = NoPassword
         /\ v.demo = account[e].demo /\ v.chosen = account[e].chosen
  <1>1. account[e].letterSent BY DEF LettersConfirm
  <1> QED BY <1>1, ConfirmType DEF Kept, storedOnConfirmation

\* An account stays, and so does its confirmation; passwords are chosen one after another.
LEMMA AccountsGrow ==
  ASSUME TypeOK, LettersConfirm, NEW e \in Addresses, exists(e), AccountStep(e)
  PROVE  /\ account'[e] \in Account /\ account'[e] # NoAccount
         /\ account[e].confirmed => account'[e].confirmed
         /\ account'[e].demo = account[e].demo
         /\ account[e].chosen <= account'[e].chosen
         /\ account'[e].lastSignIn \in {account[e].lastSignIn, now}
  <1>0. account[e] \in Account /\ account[e].chosen \in Nat BY AccountAt, ChosenIsNumber
  <1>1. CASE account'[e] = account[e] BY <1>0, <1>1, AccountsValues
  <1>2. CASE account'[e] \in Account /\ account'[e].lastSignIn \in {account[e].lastSignIn, now}
    <2>1. CASE Kept(account[e], account'[e]) BY <1>0, <1>2, <2>1, AccountsValues DEF Kept
    <2>2. CASE ~account[e].confirmed /\ Kept(confirm(e), account'[e])
      <3>1. account'[e].demo = account[e].demo /\ account'[e].chosen = account[e].chosen
        BY <2>2, Confirming
      <3>2. account[e].chosen <= account'[e].chosen BY <1>0, <3>1
      <3> QED BY <1>2, <2>2, <3>1, <3>2, AccountsValues
    <2>3. CASE \E b \in Browsers :
                 account[e].chosen < MaxPasswords /\ setPassword(b, e)
      <3>1. /\ account'[e].demo = account[e].demo /\ account'[e].chosen = account[e].chosen + 1
            /\ account'[e].confirmed = account[e].confirmed
        BY <2>3, SetPasswordWrites
      <3>2. account[e].chosen <= account'[e].chosen BY <1>0, <3>1
      <3> QED BY <1>2, <3>1, <3>2, AccountsValues
    <2> QED BY <1>1, <2>1, <2>2, <2>3 DEF AccountStep
  <1> QED BY <1>1, <1>2 DEF AccountStep, signedInLater

LEMMA NewAccountIs ==
  ASSUME TypeOK, NEW b \in Browsers, NEW e \in Addresses
  PROVE  LET v == newAccount(b, e)
         IN  /\ v \in Account /\ ~v.demo /\ ~v.byLetter /\ v.password = <<owner[b], 1>>
             /\ v.password \in Pairs /\ v.chosen = 1
             /\ ~v.confirmed => v.letterSent
             /\ v.letter # NoLetter => ~v.confirmed
  <1>1. <<owner[b], 1>> \in Pairs BY AccountsAssumption DEF Pairs
  <1>2. newAccount(b, e) \in Account BY NewAccountType
  <1>3. confirmsMail \in BOOLEAN BY DEF TypeOK
  <1> QED BY <1>1, <1>2, <1>3 DEF newAccount

LEMMA AccountsKeep ==
  ASSUME TypeOK, LettersConfirm, DemoIsPublished, PasswordIsLast, Effects, TypeOK'
  PROVE  LettersConfirm' /\ DemoIsPublished' /\ PasswordIsLast'
  <1> DEFINE Good(u) == /\ ~u.confirmed => u.letterSent
                        /\ u.letter # NoLetter => ~u.confirmed
                        /\ u.demo <=> u.password = Published
                        /\ u.demo => u.confirmed /\ ~u.byLetter
                        /\ u.password \in Pairs => u.password[2] = u.chosen
  <1>1. SUFFICES ASSUME NEW e \in Addresses, account'[e] # NoAccount
                 PROVE  Good(account'[e])
    BY DEF LettersConfirm, DemoIsPublished, PasswordIsLast, exists
  <1>2. exists(e) => Good(account[e])
    BY DEF LettersConfirm, DemoIsPublished, PasswordIsLast
  <1>3. AccountStep(e) BY DEF Effects
  <1>4. CASE account'[e] = account[e] BY <1>1, <1>2, <1>4 DEF exists
  <1>5. CASE ~exists(e) /\ \E b \in Browsers : account'[e] = newAccount(b, e)
    BY <1>5, NewAccountIs, PasswordsAre
  <1>6. CASE exists(e) /\ Kept(account[e], account'[e])
             /\ (account'[e].letter = account[e].letter \/ ~account[e].confirmed)
    BY <1>2, <1>6 DEF Kept
  <1>7. CASE exists(e) /\ ~account[e].confirmed /\ Kept(confirm(e), account'[e])
             /\ account'[e].letter = NoLetter
    <2>1. /\ account'[e].confirmed /\ account'[e].password = NoPassword
          /\ account'[e].demo = account[e].demo
      BY <1>7, Confirming
    <2>2. ~account[e].demo BY <1>2, <1>7
    <2> QED BY <1>7, <2>1, <2>2, PasswordsAre
  <1>8. CASE exists(e) /\ \E b \in Browsers :
                acceptsPassword(e) /\ account[e].chosen < MaxPasswords /\ setPassword(b, e)
    <2>1. PICK b \in Browsers :
            acceptsPassword(e) /\ account[e].chosen < MaxPasswords /\ setPassword(b, e)
      BY <1>8
    <2>2. ~account[e].demo BY <1>8, <2>1 DEF acceptsPassword, demoLocked, isDemo
    <2>3. /\ account'[e].password = nextPassword(b, e) /\ nextPassword(b, e) \in Pairs
          /\ account'[e].chosen = account[e].chosen + 1
          /\ account'[e].demo = account[e].demo
          /\ account'[e].confirmed = account[e].confirmed
          /\ account'[e].letterSent = account[e].letterSent
          /\ account'[e].letter = account[e].letter
      BY <1>8, <2>1, SetPasswordWrites, NewPasswordType
    <2>4. nextPassword(b, e)[2] = account[e].chosen + 1 BY DEF nextPassword
    <2> QED BY <1>2, <1>8, <2>2, <2>3, <2>4, PasswordsAre
  <1> QED BY <1>3, <1>4, <1>5, <1>6, <1>7, <1>8 DEF AccountStep

\* Sessions of an account that exists; a session that is new is of such an account, too.
LEMMA SessionsKeep ==
  ASSUME TypeOK, SessionsHaveAccounts, LettersConfirm, Effects, TypeOK'
  PROVE  SessionsHaveAccounts'
  <1>1. ASSUME NEW e \in Addresses, exists(e), account[e].confirmed
        PROVE  account'[e] # NoAccount /\ account'[e].confirmed
    BY <1>1, AccountsGrow DEF Effects
  <1>2. ASSUME NEW b \in Browsers, NEW s, NewSession(b, s)
        PROVE  account'[s.address] # NoAccount /\ account'[s.address].confirmed /\ s.browser = b
    BY <1>2, AccountsValues DEF NewSession
  <1>3. ASSUME NEW s \in sessions'
        PROVE  account'[s.address] # NoAccount /\ account'[s.address].confirmed
    <2>1. CASE s \in sessions
      <3>1. s.address \in Addresses BY <2>1 DEF TypeOK, Session
      <3> QED BY <2>1, <3>1, <1>1 DEF SessionsHaveAccounts
    <2>2. CASE s \notin sessions
      <3>1. s.browser \in Browsers BY <1>3 DEF TypeOK, Session
      <3> QED BY <1>2, <1>3, <2>2, <3>1 DEF Effects, SessionsStep
    <2> QED BY <2>1, <2>2
  <1>4. ASSUME NEW b \in Browsers, cookie'[b] # NoSession
        PROVE  /\ cookie'[b].browser = b
               /\ account'[cookie'[b].address] # NoAccount
               /\ account'[cookie'[b].address].confirmed
    <2>1. CASE cookie'[b] = cookie[b]
      <3>1. /\ cookie[b].address \in Addresses /\ exists(cookie[b].address)
            /\ account[cookie[b].address].confirmed /\ cookie[b].browser = b
        BY <1>4, <2>1, HoldersExist
      <3> QED BY <2>1, <3>1, <1>1
    <2>2. CASE NewSession(b, cookie'[b]) BY <2>2, <1>2
    <2> QED BY <1>4, <2>1, <2>2 DEF Effects, CookieStep
  <1> QED BY <1>3, <1>4 DEF SessionsHaveAccounts, exists


LEMMA LinksKeep ==
  ASSUME TypeOK, SessionsHaveAccounts, LettersConfirm, LinksAreSignIns, Effects, TypeOK'
  PROVE  LinksAreSignIns'
  <1>0. now \in Nat /\ now' \in Nat /\ now <= now' BY AccountsAssumption DEF TypeOK, Effects
  <1> SUFFICES ASSUME NEW b \in Browsers, cookie'[b] # NoSession,
                      cookie'[b].amr \in {"signup", "otp"}
               PROVE  /\ cookie'[b].at \in 0..now'
                      /\ account'[cookie'[b].address].lastSignIn \in Nat
                      /\ cookie'[b].at <= account'[cookie'[b].address].lastSignIn
    BY DEF LinksAreSignIns
  <1>1. CASE cookie'[b] = cookie[b]
    <2>1. cookie[b].address \in Addresses /\ exists(cookie[b].address)
      BY <1>1, HoldersExist
    <2>2. PICK e \in Addresses : e = cookie[b].address BY <2>1
    <2>3. /\ cookie[b].at \in 0..now /\ account[e].lastSignIn \in Nat
          /\ cookie[b].at <= account[e].lastSignIn
      BY <1>1, <2>2 DEF LinksAreSignIns
    <2>4. account'[e].lastSignIn \in {account[e].lastSignIn, now}
      BY <2>1, <2>2, AccountsGrow DEF Effects
    <2>5. PICK n \in Nat, m \in Nat, k \in Nat :
            n = cookie[b].at /\ m = account[e].lastSignIn /\ k = account'[e].lastSignIn
      BY <1>0, <2>3, <2>4
    <2>6. n <= now /\ n <= m /\ k \in {m, now} BY <1>0, <2>3, <2>4, <2>5
    <2>7. n \in 0..now' /\ n <= k BY <1>0, <2>6
    <2> QED BY <1>1, <2>2, <2>5, <2>7
  <1>2. CASE NewSession(b, cookie'[b])
    <2>1. cookie'[b].amr # "password" OBVIOUS
    <2>2. /\ cookie'[b].at = now /\ now' = now
          /\ account'[cookie'[b].address].lastSignIn = now
      BY <1>2, <2>1 DEF NewSession
    <2>3. now \in 0..now BY <1>0
    <2> QED BY <1>0, <2>2, <2>3
  <1> QED BY <1>1, <1>2 DEF Effects, CookieStep

\* Nobody else comes into an account that a letter confirmed: while the address waits
\* nobody is in, the password that was typed before is dropped by the confirmation, and
\* after it only who is in sets another.
LEMMA OwnersKeep ==
  ASSUME TypeOK, SessionsHaveAccounts, LettersConfirm, DemoIsPublished, OwnersAccount, Effects,
         TypeOK'
  PROVE  OwnersAccount'
  <1> SUFFICES ASSUME NEW e \in Addresses, account'[e] # NoAccount, account'[e].byLetter
               PROVE  /\ \A p \in People :
                           (\E n \in 1..MaxPasswords : account'[e].password = <<p, n>>) =>
                             e \in mailOf[p]
                      /\ \A s \in sessions' : s.address = e => e \in mailOf[owner[s.browser]]
    BY DEF OwnersAccount, exists, sessionsOf
  <1>1. exists(e)
    BY NewAccountIs DEF Effects, AccountStep, exists
  <1>2. account[e] \in Account /\ account'[e] \in Account BY <1>1, AccountAt, AccountsGrow DEF Effects
  <1>3. /\ \A p \in People :
             (\E n \in 1..MaxPasswords : account'[e].password = <<p, n>>) => e \in mailOf[p]
        /\ \A s \in sessions : s.address = e => e \in mailOf[owner[s.browser]]
    <2>1. CASE account'[e] = account[e] \/ Kept(account[e], account'[e])
      <3>1. account[e].byLetter /\ account'[e].password = account[e].password
        BY <2>1 DEF Kept
      <3> QED BY <1>1, <3>1 DEF OwnersAccount, sessionsOf
    <2>2. CASE ~account[e].confirmed /\ Kept(confirm(e), account'[e])
      <3>1. account'[e].password = NoPassword BY <1>1, <2>2, Confirming
      <3>2. \A p \in People, n \in 1..MaxPasswords : <<p, n>> \in Pairs BY DEF Pairs
      <3>3. \A s \in sessions : s.address # e BY <2>2 DEF SessionsHaveAccounts
      <3> QED BY <3>1, <3>2, <3>3, PasswordsAre
    <2>3. CASE \E b \in Browsers :
                 /\ cookie[b] \in sessions /\ cookie[b].address = e
                 /\ account[e].chosen < MaxPasswords /\ setPassword(b, e)
      <3>1. PICK b \in Browsers :
              /\ cookie[b] \in sessions /\ cookie[b].address = e
              /\ account[e].chosen < MaxPasswords /\ setPassword(b, e)
        BY <2>3
      <3>2. account'[e].password = nextPassword(b, e) /\ account[e].byLetter
        BY <1>1, <3>1, SetPasswordWrites
      <3>3. cookie[b] # NoSession
        BY <3>1, AccountsValues DEF TypeOK
      <3>4. cookie[b].browser = b BY <3>3, HoldersExist
      <3>5. e \in mailOf[owner[b]] BY <1>1, <3>1, <3>2, <3>4 DEF OwnersAccount, sessionsOf
      <3>6. \A p \in People, n \in 1..MaxPasswords : nextPassword(b, e) = <<p, n>> => p = owner[b]
        BY DEF nextPassword
      <3> QED BY <1>1, <3>2, <3>5, <3>6 DEF OwnersAccount, sessionsOf
    <2>4. AccountStep(e) BY DEF Effects
    <2> QED BY <1>1, <2>1, <2>2, <2>3, <2>4 DEF AccountStep
  <1>4. ASSUME NEW s \in sessions', s.address = e, s \notin sessions
        PROVE  e \in mailOf[owner[s.browser]]
    <2>1. s.browser \in Browsers /\ NewSession(s.browser, s)
      BY <1>4 DEF TypeOK, Session, Effects, SessionsStep
    <2>2. PICK b \in Browsers : b = s.browser BY <2>1
    <2>3. CASE s.amr = "password"
      <3>1. knows(b, e) /\ Kept(account[e], account'[e])
        BY <1>1, <1>4, <2>1, <2>2, <2>3 DEF NewSession
      <3>2. account[e].byLetter BY <3>1 DEF Kept
      <3>3. account[e].password # Published BY <1>1, <3>2 DEF DemoIsPublished
      <3>4. owner[b] \in People BY AccountsAssumption
      <3> QED BY <1>1, <2>2, <3>1, <3>2, <3>3, <3>4 DEF OwnersAccount, knows
    <2>4. CASE s.amr # "password"
      BY <1>4, <2>1, <2>4 DEF NewSession
    <2> QED BY <2>3, <2>4
  <1> QED BY <1>3, <1>4

LEMMA LoginKeeps ==
  ASSUME LoginMeansOut, Effects
  PROVE  LoginMeansOut'
  BY DEF LoginMeansOut, Effects, ScreenStep, QuietScreens

\* The form of the settings: its session is of the password that was entered, which is
\* older than any that is chosen later.
LEMMA FormsKeep ==
  ASSUME TypeOK, SessionsHaveAccounts, LettersConfirm, PasswordIsLast, FormsHoldTheirSession,
         Effects, TypeOK'
  PROVE  FormsHoldTheirSession'
  <1> SUFFICES ASSUME NEW b \in Browsers, screen'[b] \in {"entered", "changed", "password-changed"}
               PROVE  /\ cookie'[b] # NoSession /\ cookie'[b].under \in Pairs
                      /\ cookie'[b].under[2] <= account'[cookie'[b].address].chosen
                      /\ screen'[b] # "entered" =>
                           cookie'[b].under[2] < account'[cookie'[b].address].chosen
    BY DEF FormsHoldTheirSession
  <1>1. CASE cookie'[b] = cookie[b] /\ screen[b] \in {"entered", "changed", "password-changed"}
             /\ (screen'[b] # "entered" =>
                   \/ screen[b] # "entered"
                   \/ account'[cookie[b].address].chosen = account[cookie[b].address].chosen + 1)
    <2>1. /\ cookie[b] # NoSession /\ cookie[b].under \in Pairs
          /\ cookie[b].under[2] <= account[cookie[b].address].chosen
          /\ screen[b] # "entered" =>
               cookie[b].under[2] < account[cookie[b].address].chosen
      BY <1>1 DEF FormsHoldTheirSession
    <2>2. PICK e \in Addresses : e = cookie[b].address /\ exists(e) BY <2>1, HoldersExist
    <2>3. account[e].chosen \in Nat /\ account'[e].chosen \in Nat
          /\ account[e].chosen <= account'[e].chosen
      <3>1. AccountStep(e) BY DEF Effects
      <3> QED BY <2>2, <3>1, AccountAt, AccountsGrow, ChosenIsNumber
    <2>4. PICK p \in Pairs : p = cookie[b].under BY <2>1
    <2>5. PICK n \in Nat : n = p[2] BY PairsAre
    <2>6. /\ n <= account'[e].chosen
          /\ screen'[b] # "entered" => n < account'[e].chosen
      BY <1>1, <2>1, <2>2, <2>3, <2>4, <2>5
    <2> QED BY <1>1, <2>1, <2>2, <2>4, <2>5, <2>6
  <1>2. CASE /\ screen'[b] = "entered" /\ cookie'[b] \in Session
             /\ exists(cookie'[b].address)
             /\ cookie'[b].under = account[cookie'[b].address].password
             /\ account[cookie'[b].address].password \in Pairs
    <2>1. PICK e \in Addresses : e = cookie'[b].address BY <1>2 DEF Session
    <2>2. account[e].password[2] = account[e].chosen BY <1>2, <2>1 DEF PasswordIsLast
    <2>3. account[e].chosen \in Nat /\ account'[e].chosen \in Nat
          /\ account[e].chosen <= account'[e].chosen
      <3>1. AccountStep(e) /\ exists(e) BY <1>2, <2>1 DEF Effects
      <3> QED BY <3>1, AccountAt, AccountsGrow, ChosenIsNumber
    <2>4. cookie'[b] # NoSession BY <1>2, AccountsValues
    <2> QED BY <1>2, <2>1, <2>2, <2>3, <2>4
  <1> QED BY <1>1, <1>2 DEF Effects, ScreenStep, QuietScreens

LEMMA OldPasswordsKeep ==
  ASSUME TypeOK, SessionsHaveAccounts, PasswordIsLast, FormsHoldTheirSession, OldPasswordsAreOut,
         Effects, TypeOK', PasswordIsLast', FormsHoldTheirSession', SessionsHaveAccounts'
  PROVE  OldPasswordsAreOut'
  <1> SUFFICES ASSUME NEW b \in Browsers, screen'[b] = "password-changed",
                      NEW s \in sessions', s.address = cookie'[b].address, s # cookie'[b],
                      s.amr = "password"
               PROVE  s.under # cookie'[b].under
    BY DEF OldPasswordsAreOut, sessionsOf
  <1>1. CASE /\ cookie'[b] = cookie[b]
             /\ \A r \in sessions' : r.address = cookie[b].address => r = cookie[b]
    BY <1>1
  <1>2. CASE screen'[b] = screen[b] /\ cookie'[b] = cookie[b]
    <2>1. CASE s \in sessions
      BY <1>2, <2>1 DEF OldPasswordsAreOut, sessionsOf
    <2>2. CASE s \notin sessions
      <3>1. s.browser \in Browsers /\ NewSession(s.browser, s)
        BY <2>2 DEF TypeOK, Session, Effects, SessionsStep
      <3>2. PICK e \in Addresses : e = s.address BY DEF TypeOK, Session
      <3>3. s.under = account'[e].password /\ account'[e] \in Account
        BY <3>1, <3>2 DEF NewSession
      <3>4. /\ cookie'[b].under \in Pairs
            /\ cookie'[b].under[2] < account'[e].chosen
        BY <3>2 DEF FormsHoldTheirSession
      <3>5. account'[e].password \in Pairs => account'[e].password[2] = account'[e].chosen
        BY <3>3, AccountsValues DEF PasswordIsLast, exists
      <3>6. account'[e].chosen \in Nat /\ cookie'[b].under[2] \in Nat
        BY <3>3, <3>4 DEF Account, Pairs
      <3> QED BY <3>3, <3>4, <3>5, <3>6
    <2> QED BY <2>1, <2>2
  <1> QED BY <1>1, <1>2 DEF Effects, ScreenStep, QuietScreens

-----------------------------------------------------------------------------
(* Theorems *)

LEMMA InitInv == Init => IInv
  <1> SUFFICES ASSUME Init PROVE IInv
    OBVIOUS
  <1>1. TypeOK BY TypeInit
  <1>2. /\ sessions = {} /\ \A b \in Browsers : cookie[b] = NoSession /\ screen[b] = "login"
        /\ \A e \in Addresses : exists(e) => account[e] = demoAccount
    BY DEF Init, exists
  <1>3. demoAccount.demo /\ demoAccount.confirmed /\ ~demoAccount.byLetter
        /\ demoAccount.letter = NoLetter /\ demoAccount.password = Published
    BY DEF demoAccount
  <1>4. SessionsHaveAccounts /\ LinksAreSignIns /\ FormsHoldTheirSession
    BY <1>2 DEF SessionsHaveAccounts, LinksAreSignIns, FormsHoldTheirSession
  <1>5. LettersConfirm /\ DemoIsPublished /\ PasswordIsLast
    BY <1>2, <1>3, PasswordsAre DEF LettersConfirm, DemoIsPublished, PasswordIsLast
  <1>6. OwnersAccount /\ LoginMeansOut /\ OldPasswordsAreOut
    BY <1>2, <1>3 DEF OwnersAccount, LoginMeansOut, OldPasswordsAreOut, sessionsOf
  <1> QED BY <1>1, <1>4, <1>5, <1>6 DEF IInv

LEMMA NextInv == IInv /\ [Next]_vars => IInv'
  <1> SUFFICES ASSUME IInv, [Next]_vars PROVE IInv'
    OBVIOUS
  <1>1. Effects BY StepsHaveEffects DEF IInv
  <1>2. TypeOK' BY TypeNext DEF IInv
  <1>3. LettersConfirm' /\ DemoIsPublished' /\ PasswordIsLast' BY <1>1, <1>2, AccountsKeep DEF IInv
  <1>4. SessionsHaveAccounts' BY <1>1, <1>2, SessionsKeep DEF IInv
  <1>5. LinksAreSignIns' /\ OwnersAccount' /\ LoginMeansOut' /\ FormsHoldTheirSession'
    BY <1>1, <1>2, LinksKeep, OwnersKeep, LoginKeeps, FormsKeep DEF IInv
  <1>6. OldPasswordsAreOut' BY <1>1, <1>2, <1>3, <1>4, <1>5, OldPasswordsKeep DEF IInv
  <1> QED BY <1>2, <1>3, <1>4, <1>5, <1>6 DEF IInv

LEMMA InvAlways == Spec => []IInv
  <1> QED BY InitInv, NextInv, PTL DEF Spec

\* The type invariant of accounts, sessions and screens.
THEOREM AccountsTypes == Spec => []TypeOK
  <1>1. IInv => TypeOK BY DEF IInv
  <1> QED BY <1>1, InvAlways, PTL

\* Whoever typed the address first, an account that a letter confirmed is of who reads
\* that mail: nobody else has its password or a session of it.
THEOREM OwnersAlwaysOwn == Spec => []OwnersAccount
  <1>1. IInv => OwnersAccount BY DEF IInv
  <1> QED BY <1>1, InvAlways, PTL

\* A form for a new password, shown by the frontend's copy of the window, is accepted
\* by the database's: the stamp of the account is not older than that of the link.
THEOREM FormsAlwaysHonoured == Spec => []FormIsHonoured
  <1>1. IInv => FormIsHonoured
    <2> SUFFICES ASSUME IInv, NEW b \in Browsers, showsResetForm(b)
                 PROVE  acceptsPassword(cookie[b].address)
      BY DEF FormIsHonoured
    <2>1. /\ cookie[b] # NoSession /\ ~isDemo(cookie[b].address)
          /\ cookie[b].amr \in {"signup", "otp"} /\ now < cookie[b].at + Window
      BY DEF showsResetForm, canChangePasswordNow
    <2>2. /\ cookie[b].at \in 0..now
          /\ account[cookie[b].address].lastSignIn \in Nat
          /\ cookie[b].at <= account[cookie[b].address].lastSignIn
      BY <2>1 DEF IInv, LinksAreSignIns
    <2>3. now \in Nat /\ Window \in Nat BY AccountsAssumption DEF IInv, TypeOK
    <2>4. account[cookie[b].address].lastSignIn + Window >= now BY <2>1, <2>2, <2>3
    <2> QED BY <2>1, <2>2, <2>4, AccountsValues DEF acceptsPassword, demoLocked, signedInRecently
  <1> QED BY <1>1, InvAlways, PTL

\* The screen of signing in is shown to who is out, and when the form says that the
\* others are out, no session of the old password is left.
THEOREM ScreensAlwaysTrue == Spec => []ScreensAreTrue
  <1>1. IInv => ScreensAreTrue BY DEF IInv, ScreensAreTrue
  <1> QED BY <1>1, InvAlways, PTL


=============================================================================
