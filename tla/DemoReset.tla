------------------------------- MODULE DemoReset -------------------------------
(***************************************************************************)
(* The reset of the demo (modules/demo): the shared accounts get their     *)
(* orders back, by schedule, by the seed script, or after a wipe of the    *)
(* database.  Several of these may run at once, in several processes.      *)
(*                                                                         *)
(* The demo client's account stands for the four of them: its row in User  *)
(* carries the time of the last reset and is the lock of every reset.  A   *)
(* set of demo orders is one value, named after the reset that laid it.    *)
(* Two kinds of real users are in the way: outsiders, companies that trade *)
(* on demo orders, and a client with whom a demo company trades.           *)
(*                                                                         *)
(* READ COMMITTED: each statement of a transaction sees what is committed  *)
(* when it starts, so the statements that matter are steps of their own.   *)
(* A row lock is not given up before the end of its transaction.           *)
(***************************************************************************)
EXTENDS Naturals

CONSTANTS
  Ticks,        \* instances of the backend, each with its schedule
  Seeds,        \* runs of npm run db:seed
  Wipes,        \* runs of npm run db:reset
  Outsiders,    \* real companies
  Nobody,
  MaxFailures   \* bound: resets that fail for reasons outside of them

Resetters == Ticks \union Seeds \union Wipes

ASSUME DemoAssumption ==
  /\ Nobody \notin Resetters \union Outsiders
  /\ "first" \notin Resetters
  /\ Ticks \intersect (Seeds \union Wipes) = {} /\ Seeds \intersect Wipes = {}
  /\ MaxFailures \in Nat

VARIABLES
  account,     \* the demo client: "none", "plain" (without the flag demo) or "demo"
  stale,       \* its updatedAt is DEMO_RESET_INTERVAL_MS old
  laid,        \* the sets of demo orders
  pc,          \* where each reset is
  running,     \* DemoResetService.running of each instance
  recreated,   \* the reset made the account anew
  hears,       \* outsiders that the reset found in play; Nobody for a deleted one
  doomed,      \* the sets that its deleteMany removed
  rowLock,     \* who has the row of the demo client FOR UPDATE
  failures,    \* failed resets so far
  offer,       \* the offer of each outsider on a demo order
  trading,     \* outsiders whose transaction has the row of the demo order
  told,        \* outsiders with a notification ORDER_DELETED
  deal         \* the real client's order and the demo company's offer on it

localVars == <<pc, running, recreated, hears, doomed, rowLock, failures>>
realVars == <<offer, trading, told, deal>>
demoVars == <<account, stale, laid, localVars, realVars>>

Phase == {"idle", "wiping", "wipeLocking", "wipeLocked", "finding", "deleting", "creating", "ensured",
          "locked", "read", "deleted"}

\* In a transaction that has the row of the demo client.
Inside == {"wipeLocked", "locked", "read", "deleted"}

Deal == [order : {"WAITING", "AWAITING_CONFIRMATION", "IN_PROGRESS"},
         offer : {"none", "active", "inactive"}]

DemoInit ==
  /\ account \in {"none", "plain", "demo"}
  /\ stale \in BOOLEAN
  /\ laid = IF account = "none" THEN {} ELSE {"first"}
  /\ pc = [r \in Resetters |-> "idle"]
  /\ running = [t \in Ticks |-> FALSE]
  /\ recreated = [r \in Resetters |-> FALSE]
  /\ hears = [r \in Resetters |-> {}]
  /\ doomed = [r \in Resetters |-> {}]
  /\ rowLock = Nobody
  /\ failures = 0
  /\ offer = [o \in Outsiders |-> "none"]
  /\ trading = {}
  /\ told = {}
  /\ deal = [order |-> "WAITING", offer |-> "none"]

-----------------------------------------------------------------------------
(* The beginning of a reset *)

\* lastDemoReset and isDemoStale: no client, or a marker that is too old.
isDemoStale == account = "none" \/ stale

goesTo(r, phase) == pc' = [pc EXCEPT ![r] = phase]

\* tick(): a cheap look first; one that finds the demo fresh changes nothing.
StartTick(t) ==
  /\ ~running[t] /\ isDemoStale
  /\ running' = [running EXCEPT ![t] = TRUE]
  /\ goesTo(t, "finding")
  /\ UNCHANGED <<account, stale, laid, recreated, hears, doomed, rowLock, failures, realVars>>

StartScript(r) ==
  /\ r \in Seeds \union Wipes /\ pc[r] = "idle"
  /\ goesTo(r, IF r \in Wipes THEN "wiping" ELSE "finding")
  /\ UNCHANGED <<account, stale, laid, running, recreated, hears, doomed, rowLock, failures,
                 realVars>>

\* ensureDemoUsers: an account without the flag goes, and a new one comes.
Find(r) ==
  /\ pc[r] = "finding"
  /\ goesTo(r, CASE account = "demo" -> "ensured"
                 [] account = "plain" -> "deleting"
                 [] account = "none" -> "creating")
  /\ recreated' = [recreated EXCEPT ![r] = FALSE]
  /\ UNCHANGED <<account, stale, laid, running, hears, doomed, rowLock, failures, realVars>>

noOffers == [o \in Outsiders |-> "none"]

\* Orders, and offers on them, go by cascade, and nobody is told.  Deleting an
\* id that is gone is an error, see Fail.
DeleteAccount(r) ==
  /\ pc[r] = "deleting" /\ account = "plain"
  /\ rowLock = Nobody /\ trading = {}
  /\ account' = "none" /\ laid' = {} /\ offer' = noOffers
  /\ goesTo(r, "creating")
  /\ UNCHANGED <<stale, running, recreated, hears, doomed, rowLock, failures, trading, told, deal>>

\* The new row is as young as a reset; a taken address is an error.
CreateAccount(r) ==
  /\ pc[r] = "creating" /\ account = "none"
  /\ account' = "demo" /\ stale' = FALSE
  /\ recreated' = [recreated EXCEPT ![r] = TRUE]
  /\ goesTo(r, "ensured")
  /\ UNCHANGED <<laid, running, hears, doomed, rowLock, failures, realVars>>

-----------------------------------------------------------------------------
(* The transaction *)

SlipLockNotTaken == TRUE
rowIsFree == rowLock = Nobody

stillNeeded(r) == r \notin Ticks \/ recreated[r] \/ stale

\* tick() ends, and its finally clears the flag.
SlipFlagLeftByFailure(r, failed) == [t \in Ticks |-> running[t] /\ (t # r \/ failed)]
runningAfter(r, failed) == [t \in Ticks |-> running[t] /\ t # r]

\* What the reset had found out goes with it.
ends(r, failed) ==
  /\ goesTo(r, "idle")
  /\ running' = runningAfter(r, failed)
  /\ recreated' = [recreated EXCEPT ![r] = FALSE]
  /\ hears' = [hears EXCEPT ![r] = {}]
  /\ doomed' = [doomed EXCEPT ![r] = {}]
  /\ rowLock' = IF rowLock = r THEN Nobody ELSE rowLock

\* SELECT ... FOR UPDATE, and the second look at the marker under the lock.
Lock(r) ==
  /\ pc[r] = "ensured" /\ rowIsFree
  /\ \/ /\ stillNeeded(r)
        /\ rowLock' = r /\ goesTo(r, "locked")
        /\ UNCHANGED <<running, recreated, hears, doomed>>
     \/ ~stillNeeded(r) /\ ends(r, FALSE)
  /\ UNCHANGED <<account, stale, laid, failures, realVars>>

outsidersInPlay == {o \in Outsiders : offer[o] = "active"}

ReadOutsiders(r) ==
  /\ pc[r] = "locked"
  /\ hears' = [hears EXCEPT ![r] = outsidersInPlay]
  /\ goesTo(r, "read")
  /\ UNCHANGED <<account, stale, laid, running, recreated, doomed, rowLock, failures, realVars>>

\* deleteMany waits for every transaction that has one of the rows.
DeleteOrders(r) ==
  /\ pc[r] = "read" /\ trading = {}
  /\ doomed' = [doomed EXCEPT ![r] = laid]
  /\ goesTo(r, "deleted")
  /\ UNCHANGED <<account, stale, laid, running, recreated, hears, rowLock, failures, realVars>>

\* Offers of demo companies go from real clients' orders, but those in play.
SlipAllOffersGo == [deal EXCEPT !.offer = "none"]
dealAfterReset == IF deal.offer = "active" THEN deal ELSE [deal EXCEPT !.offer = "none"]

\* Notices, profiles (and with them the marker), the new orders, and COMMIT.  A
\* notice to an account that is gone violates its foreign key, see Fail.
Commit(r) ==
  /\ pc[r] = "deleted" /\ Nobody \notin hears[r]
  /\ laid' = (laid \ doomed[r]) \union {r}
  /\ stale' = FALSE
  /\ offer' = noOffers /\ told' = told \union hears[r]
  /\ deal' = dealAfterReset
  /\ ends(r, FALSE)
  /\ UNCHANGED <<account, failures, trading>>

\* An account that another reset has deleted or made first, or any other error:
\* the provider's, the timeout of a wait, a deadlock that costs the reset.
forced(r) ==
  \/ pc[r] = "deleting" /\ account # "plain"
  \/ pc[r] = "creating" /\ account # "none"
  \/ pc[r] = "deleted" /\ Nobody \in hears[r]

Fail(r) ==
  /\ pc[r] # "idle"
  /\ \/ forced(r) /\ UNCHANGED failures
     \/ ~forced(r) /\ failures < MaxFailures /\ failures' = failures + 1
  /\ ends(r, TRUE)
  /\ UNCHANGED <<account, stale, laid, realVars>>

-----------------------------------------------------------------------------
(* The wipe that precedes the reset of npm run db:reset *)

\* Orders whose deletion another transaction has yet to commit.
rowsAreFree == trading = {} /\ \A r \in Resetters : pc[r] = "deleted" => doomed[r] = {}

\* The ids that a reset has read stay ids when their accounts go.
hearsWithout(S) == [r \in Resetters |-> {IF o \in S THEN Nobody ELSE o : o \in hears[r]}]

\* Everyone but flagged accounts goes, with all that hangs on them.
WipeAccounts(r) ==
  /\ pc[r] = "wiping" /\ rowsAreFree
  /\ IF account = "plain" THEN account' = "none" /\ laid' = {} ELSE UNCHANGED <<account, laid>>
  /\ hears' = hearsWithout(Outsiders)
  /\ offer' = noOffers /\ told' = {}
  /\ deal' = [order |-> "WAITING", offer |-> "none"]
  /\ goesTo(r, "wipeLocking")
  /\ UNCHANGED <<stale, running, recreated, doomed, rowLock, failures, trading>>

\* The row is locked by its address: where there is none, nothing is locked.
WipeLock(r) ==
  /\ pc[r] = "wipeLocking"
  /\ IF account = "none" THEN UNCHANGED rowLock ELSE rowIsFree /\ rowLock' = r
  /\ goesTo(r, "wipeLocked")
  /\ UNCHANGED <<account, stale, laid, running, recreated, hears, doomed, failures, realVars>>

\* All orders, offers and notifications; then the reset without maxAgeMs.
WipeOrders(r) ==
  /\ pc[r] = "wipeLocked" /\ rowsAreFree
  /\ laid' = {} /\ offer' = noOffers /\ told' = {}
  /\ deal' = [order |-> "WAITING", offer |-> "none"]
  /\ rowLock' = IF rowLock = r THEN Nobody ELSE rowLock
  /\ goesTo(r, "finding")
  /\ UNCHANGED <<account, stale, running, recreated, hears, doomed, failures, trading>>

-----------------------------------------------------------------------------
(* Real users, and time *)

onlyReal == UNCHANGED <<account, stale, laid, localVars>>

\* The transaction of an offer locks the order.
BeginTrade(o) ==
  /\ laid # {} /\ o \notin trading
  /\ \A r \in Resetters : pc[r] # "deleted"
  /\ trading' = trading \union {o}
  /\ onlyReal /\ UNCHANGED <<offer, told, deal>>

\* To notify the client of an offer is to share the lock of the client's row; a
\* rejection notifies the company, and does not wait for a reset.
SlipNoticeAfterCommit == TRUE
clientMayBeNotified == rowLock = Nobody

CommitTrade(o) ==
  /\ o \in trading
  /\ trading' = trading \ {o}
  /\ \/ clientMayBeNotified /\ offer' = [offer EXCEPT ![o] = "active"]
     \/ offer[o] = "active" /\ offer' = [offer EXCEPT ![o] = "inactive"]
  /\ onlyReal /\ UNCHANGED <<told, deal>>

\* Its timeout, or the deadlock detector of the database.
AbortTrade(o) ==
  /\ o \in trading
  /\ trading' = trading \ {o}
  /\ onlyReal /\ UNCHANGED <<offer, told, deal>>

\* The account of an outsider is deleted (StaleSignups).
LoseAccount(o) ==
  /\ o \notin trading
  /\ \A r \in Resetters : pc[r] = "deleted" => o \notin hears[r]
  /\ offer' = [offer EXCEPT ![o] = "none"] /\ told' = told \ {o}
  /\ hears' = hearsWithout({o})
  /\ IF hears' = hears THEN UNCHANGED failures
     ELSE failures < MaxFailures /\ failures' = failures + 1
  /\ UNCHANGED <<account, stale, laid, pc, running, recreated, doomed, rowLock, trading, deal>>

\* A demo company offers on a real client's order, leaves, or is chosen.
Trade ==
  /\ \/ deal.order = "WAITING" /\ deal' = [order |-> "AWAITING_CONFIRMATION", offer |-> "active"]
     \/ deal.order = "AWAITING_CONFIRMATION" /\ deal' = [order |-> "WAITING", offer |-> "inactive"]
     \/ deal.order = "AWAITING_CONFIRMATION" /\ deal' = [order |-> "IN_PROGRESS", offer |-> "active"]
  /\ onlyReal /\ UNCHANGED <<offer, trading, told>>

TimePasses ==
  /\ ~stale /\ stale' = TRUE
  /\ UNCHANGED <<account, laid, localVars, realVars>>

ResetStep(r) ==
  \/ Find(r) \/ DeleteAccount(r) \/ CreateAccount(r)
  \/ Lock(r) \/ ReadOutsiders(r) \/ DeleteOrders(r) \/ Commit(r)
  \/ WipeAccounts(r) \/ WipeLock(r) \/ WipeOrders(r)

DemoNext ==
  \/ \E t \in Ticks : StartTick(t)
  \/ \E r \in Seeds \union Wipes : StartScript(r)
  \/ \E r \in Resetters : ResetStep(r)
  \/ \E r \in Resetters : Fail(r)
  \/ \E o \in Outsiders : BeginTrade(o) \/ CommitTrade(o) \/ AbortTrade(o) \/ LoseAccount(o)
  \/ Trade
  \/ TimePasses

DemoSpec == DemoInit /\ [][DemoNext]_demoVars

\* The timer of every instance fires; a reset goes on, or fails where it must;
\* the database grants row locks in turn, which makes the waits SF; no
\* transaction outlives its timeout; and hours pass.
DemoFairness ==
  /\ \A t \in Ticks : WF_demoVars(StartTick(t))
  /\ \A r \in Resetters : SF_demoVars(ResetStep(r)) /\ WF_demoVars(forced(r) /\ Fail(r))
  /\ \A o \in Outsiders : WF_demoVars(CommitTrade(o) \/ AbortTrade(o))
  /\ WF_demoVars(TimePasses)

-----------------------------------------------------------------------------
(* Properties *)

DemoTypeOK ==
  /\ account \in {"none", "plain", "demo"}
  /\ stale \in BOOLEAN
  /\ laid \subseteq Resetters \union {"first"}
  /\ pc \in [Resetters -> Phase]
  /\ running \in [Ticks -> BOOLEAN]
  /\ recreated \in [Resetters -> BOOLEAN]
  /\ hears \in [Resetters -> SUBSET (Outsiders \union {Nobody})]
  /\ doomed \in [Resetters -> SUBSET (Resetters \union {"first"})]
  /\ rowLock \in Resetters \union {Nobody}
  /\ failures \in Nat
  /\ offer \in [Outsiders -> {"none", "active", "inactive"}]
  /\ trading \subseteq Outsiders /\ told \subseteq Outsiders
  /\ deal \in Deal

\* However many resets run into each other, and wherever they fail, the demo
\* never holds two sets of orders.
OneDemoSet == \A x, y \in laid : x = y

\* A scheduled reset never throws away a demo that is still fresh, though it
\* looked at the marker long before its turn came: unless it had to make the
\* account anew.
NoNeedlessReset ==
  [][\A t \in Ticks : Commit(t) => stale \/ recreated[t]]_demoVars

\* The status of a real client's order always has the offer that it rests on,
\* whatever a reset removes.
DealsStand == deal.offer = "active" <=> deal.order # "WAITING"

\* A reset that takes away an outsider's offer in play tells it, also when the
\* offer came while the reset was at work: such an offer has to wait, since it
\* notifies the demo client, whose row is locked.
OutsidersAreTold ==
  [][\A r \in Resetters, o \in Outsiders :
       Commit(r) /\ offer[o] = "active" => o \in told']_demoVars

\* A demo that is stale, empty or gone comes back, though resets fail, stand in
\* each other's way and wait for those who trade.
DemoComesBack == (isDemoStale \/ laid = {}) ~> (~isDemoStale /\ laid # {})

=============================================================================
