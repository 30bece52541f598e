---------------------------- MODULE DemoResetProofs ----------------------------
(***************************************************************************)
(* The resets of the demo do not disturb one another or real users.  The   *)
(* argument: between its Lock and its end a reset has the row of the demo  *)
(* client, which keeps out the transactions of other resets and, by the    *)
(* foreign key of their notices to the client, new offers.                 *)
(***************************************************************************)
EXTENDS ScheduledJobs, TLAPS

\* In the transaction of a reset, as opposed to that of a wipe.
Resetting == {"locked", "read", "deleted"}

HolderInv ==
  \A r \in Resetters : pc[r] \in Resetting => rowLock = r

AccountInv ==
  \A r \in Resetters : pc[r] \in Resetting \union {"ensured"} => account = "demo"

ReasonInv ==
  \A t \in Ticks : pc[t] \in Resetting => stale \/ recreated[t]

DoomedInv ==
  \A r \in Resetters : pc[r] = "deleted" => doomed[r] = laid

HeardInv ==
  \A r \in Resetters, o \in Outsiders :
    pc[r] \in {"read", "deleted"} /\ offer[o] = "active" => o \in hears[r]

DemoInv ==
  /\ DemoTypeOK /\ HolderInv /\ AccountInv /\ ReasonInv /\ DoomedInv /\ HeardInv
  /\ OneDemoSet /\ DealsStand

USE DemoAssumption DEF Resetters, Phase, Resetting

-----------------------------------------------------------------------------
LEMMA DemoInitInv == DemoInit => DemoInv
  BY DEF DemoInit, DemoInv, DemoTypeOK, HolderInv, AccountInv, ReasonInv, DoomedInv, HeardInv,
         OneDemoSet, DealsStand, Deal

\* What has a value keeps a value of its type.
LEMMA DemoTyping == DemoTypeOK /\ [DemoNext]_demoVars => DemoTypeOK'
<1> SUFFICES ASSUME DemoTypeOK, [DemoNext]_demoVars PROVE DemoTypeOK'
  OBVIOUS
<1> USE DEF DemoTypeOK, goesTo, realVars
<1>1. ASSUME NEW t \in Ticks, StartTick(t) PROVE DemoTypeOK'
  BY <1>1 DEF StartTick
<1>2. ASSUME NEW r \in Seeds \union Wipes, StartScript(r) PROVE DemoTypeOK'
  BY <1>2 DEF StartScript
<1>3. ASSUME NEW r \in Resetters, ResetStep(r) PROVE DemoTypeOK'
  <2>1. CASE Find(r)
    BY <2>1 DEF Find
  <2>2. CASE DeleteAccount(r)
    BY <2>2 DEF DeleteAccount, noOffers
  <2>3. CASE CreateAccount(r)
    BY <2>3 DEF CreateAccount
  <2>4. CASE Lock(r)
    <3>1. CASE stillNeeded(r)
      BY <2>4, <3>1 DEF Lock
    <3>2. CASE ~stillNeeded(r)
      <4>1. ends(r, FALSE) /\ UNCHANGED <<account, stale, laid, failures, realVars>>
        BY <2>4, <3>2 DEF Lock
      <4> QED BY <4>1 DEF ends, runningAfter
    <3> QED BY <3>1, <3>2
  <2>5. CASE ReadOutsiders(r)
    BY <2>5 DEF ReadOutsiders, outsidersInPlay
  <2>6. CASE DeleteOrders(r)
    BY <2>6 DEF DeleteOrders
  <2>7. CASE Commit(r)
    <3>1. ends(r, FALSE) /\ UNCHANGED <<account, failures, trading>>
      BY <2>7 DEF Commit
    <3>2. /\ pc' \in [Resetters -> Phase] /\ running' \in [Ticks -> BOOLEAN]
          /\ recreated' \in [Resetters -> BOOLEAN]
          /\ hears' \in [Resetters -> SUBSET (Outsiders \union {Nobody})]
          /\ doomed' \in [Resetters -> SUBSET (Resetters \union {"first"})]
          /\ rowLock' \in Resetters \union {Nobody}
      BY <3>1 DEF ends, runningAfter
    <3>3. laid' \subseteq Resetters \union {"first"} /\ stale' \in BOOLEAN
      BY <2>7 DEF Commit
    <3>4. offer' \in [Outsiders -> {"none", "active", "inactive"}] /\ told' \subseteq Outsiders
      BY <2>7 DEF Commit, noOffers
    <3>5. deal' \in Deal
      BY <2>7 DEF Commit, dealAfterReset, Deal
    <3> QED BY <3>1, <3>2, <3>3, <3>4, <3>5
  <2>8. CASE WipeAccounts(r)
    BY <2>8 DEF WipeAccounts, hearsWithout, noOffers, Deal
  <2>9. CASE WipeLock(r)
    BY <2>9 DEF WipeLock
  <2>10. CASE WipeOrders(r)
    BY <2>10 DEF WipeOrders, noOffers, Deal
  <2> QED BY <1>3, <2>1, <2>2, <2>3, <2>4, <2>5, <2>6, <2>7, <2>8, <2>9, <2>10 DEF ResetStep
<1>4. ASSUME NEW r \in Resetters, Fail(r) PROVE DemoTypeOK'
  BY <1>4 DEF Fail, ends, runningAfter
<1>5. ASSUME NEW o \in Outsiders, BeginTrade(o) PROVE DemoTypeOK'
  BY <1>5 DEF BeginTrade, onlyReal, localVars
<1>6. ASSUME NEW o \in Outsiders, CommitTrade(o) PROVE DemoTypeOK'
  BY <1>6 DEF CommitTrade, onlyReal, localVars
<1>7. ASSUME NEW o \in Outsiders, AbortTrade(o) PROVE DemoTypeOK'
  BY <1>7 DEF AbortTrade, onlyReal, localVars
<1>8. ASSUME NEW o \in Outsiders, LoseAccount(o) PROVE DemoTypeOK'
  BY <1>8 DEF LoseAccount, hearsWithout
<1>9. CASE Trade
  BY <1>9 DEF Trade, onlyReal, localVars, Deal
<1>10. CASE TimePasses
  BY <1>10 DEF TimePasses, localVars
<1>11. CASE UNCHANGED demoVars
  BY <1>11 DEF demoVars, localVars
<1> QED BY <1>1, <1>2, <1>3, <1>4, <1>5, <1>6, <1>7, <1>8, <1>9, <1>10, <1>11 DEF DemoNext

-----------------------------------------------------------------------------
\* Inside the transaction of a reset the demo is its own: nobody else gets the
\* row, removes the account, or makes the demo fresh.
LEMMA DemoStepInv == DemoInv /\ [DemoNext]_demoVars => DemoInv'
<1> SUFFICES ASSUME DemoInv, [DemoNext]_demoVars PROVE DemoInv'
  OBVIOUS
<1>t. DemoTypeOK /\ DemoTypeOK'
  BY DemoTyping DEF DemoInv
<1> DEFINE Rest == /\ HolderInv' /\ AccountInv' /\ ReasonInv' /\ DoomedInv' /\ HeardInv'
                   /\ OneDemoSet' /\ DealsStand'
<1> USE <1>t DEF DemoTypeOK, DemoInv, HolderInv, AccountInv, ReasonInv, DoomedInv, HeardInv,
                 OneDemoSet, DealsStand, goesTo, realVars
<1>1. ASSUME NEW t \in Ticks, StartTick(t) PROVE Rest
  BY <1>1 DEF StartTick
<1>2. ASSUME NEW r \in Seeds \union Wipes, StartScript(r) PROVE Rest
  BY <1>2 DEF StartScript
<1>3. ASSUME NEW r \in Resetters, ResetStep(r) PROVE Rest
  <2>1. CASE Find(r)
    BY <2>1 DEF Find
  <2>2. CASE DeleteAccount(r)
    BY <2>2 DEF DeleteAccount, noOffers
  <2>3. CASE CreateAccount(r)
    BY <2>3 DEF CreateAccount
  <2>4. CASE Lock(r)
    BY <2>4 DEF Lock, ends, runningAfter, rowIsFree, stillNeeded
  <2>5. CASE ReadOutsiders(r)
    BY <2>5 DEF ReadOutsiders, outsidersInPlay
  <2>6. CASE DeleteOrders(r)
    BY <2>6 DEF DeleteOrders
  <2>7. CASE Commit(r)
    BY <2>7 DEF Commit, ends, runningAfter, noOffers, dealAfterReset, Deal
  <2>8. CASE WipeAccounts(r)
    BY <2>8 DEF WipeAccounts, hearsWithout, noOffers, Deal
  <2>9. CASE WipeLock(r)
    BY <2>9 DEF WipeLock, rowIsFree
  <2>10. CASE WipeOrders(r)
    BY <2>10 DEF WipeOrders, noOffers, Deal, rowsAreFree
  <2> QED BY <1>3, <2>1, <2>2, <2>3, <2>4, <2>5, <2>6, <2>7, <2>8, <2>9, <2>10 DEF ResetStep
<1>4. ASSUME NEW r \in Resetters, Fail(r) PROVE Rest
  BY <1>4 DEF Fail, ends, runningAfter
<1>5. ASSUME NEW o \in Outsiders, BeginTrade(o) PROVE Rest
  BY <1>5 DEF BeginTrade, onlyReal, localVars
<1>6. ASSUME NEW o \in Outsiders, CommitTrade(o) PROVE Rest
  BY <1>6 DEF CommitTrade, onlyReal, localVars, clientMayBeNotified
<1>7. ASSUME NEW o \in Outsiders, AbortTrade(o) PROVE Rest
  BY <1>7 DEF AbortTrade, onlyReal, localVars
<1>8. ASSUME NEW o \in Outsiders, LoseAccount(o) PROVE Rest
  BY <1>8 DEF LoseAccount, hearsWithout
<1>9. CASE Trade
  BY <1>9 DEF Trade, onlyReal, localVars, Deal
<1>10. CASE TimePasses
  BY <1>10 DEF TimePasses, localVars
<1>11. CASE UNCHANGED demoVars
  BY <1>11 DEF demoVars, localVars
<1> QED BY <1>1, <1>2, <1>3, <1>4, <1>5, <1>6, <1>7, <1>8, <1>9, <1>10, <1>11 DEF DemoNext

LEMMA DemoAlwaysInv == DemoSpec => []DemoInv
<1>1. DemoInv /\ [DemoNext]_demoVars => DemoInv'
  BY DemoStepInv
<1> QED BY DemoInitInv, <1>1, PTL DEF DemoSpec

-----------------------------------------------------------------------------
(* Results *)

\* The variables of the resets keep to their types.
THEOREM DemoTyped == DemoSpec => []DemoTypeOK
<1>1. DemoInv => DemoTypeOK
  BY DEF DemoInv
<1> QED BY <1>1, DemoAlwaysInv, PTL

\* Concurrent resets never leave two sets of demo orders (resetDemo).
THEOREM OneSet == DemoSpec => []OneDemoSet
<1>1. DemoInv => OneDemoSet
  BY DEF DemoInv
<1> QED BY <1>1, DemoAlwaysInv, PTL

\* Resets leave real clients' orders the offers that they rest on
\* (the filter of resetDemo's offer.deleteMany).
THEOREM DealsSurvive == DemoSpec => []DealsStand
<1>1. DemoInv => DealsStand
  BY DEF DemoInv
<1> QED BY <1>1, DemoAlwaysInv, PTL

\* A scheduled reset that commits has a stale demo before it, or a new account
\* (the second look of resetDemo, under the lock).
THEOREM FreshDemoIsKept == DemoSpec => NoNeedlessReset
<1>1. DemoInv => (\A t \in Ticks : Commit(t) => stale \/ recreated[t])
  BY DEF DemoInv, ReasonInv, Commit
<1>2. DemoInv /\ [DemoNext]_demoVars
      => [\A t \in Ticks : Commit(t) => stale \/ recreated[t]]_demoVars
  BY <1>1
<1> QED BY <1>2, DemoAlwaysInv, PTL DEF DemoSpec, NoNeedlessReset

\* An outsider whose offer in play goes with the demo orders is told
\* (outsiders, clientsOnOrders and the notices of resetDemo).
THEOREM LosersAreTold == DemoSpec => OutsidersAreTold
<1>1. ASSUME DemoInv, NEW r \in Resetters, NEW o \in Outsiders, Commit(r), offer[o] = "active"
      PROVE o \in told'
  <2>1. o \in hears[r]
    BY <1>1 DEF DemoInv, HeardInv, Commit
  <2> QED BY <1>1, <2>1 DEF Commit
<1>2. DemoInv /\ [DemoNext]_demoVars
      => [\A r \in Resetters, o \in Outsiders :
            Commit(r) /\ offer[o] = "active" => o \in told']_demoVars
  BY <1>1
<1> QED BY <1>2, DemoAlwaysInv, PTL DEF DemoSpec, OutsidersAreTold

-----------------------------------------------------------------------------
(* The same, with the clean-up of signups and the wipe of all accounts *)

\* Every step of the jobs together is a step of the resets or leaves them alone:
\* an outsider that the clean-up deletes is one that DemoReset may lose.
THEOREM JobsImplementDemo == Spec => DemoSpec
<1>1. Init => DemoInit
  BY DEF Init
<1>2. ASSUME [Next]_vars PROVE [DemoNext]_demoVars
  <2>1. ASSUME NEW r \in Resetters, ResetStepOf(r) PROVE DemoNext
    BY <2>1 DEF ResetStepOf, DemoNext
  <2>2. ASSUME NEW o \in Outsiders, OutsiderStep(o) PROVE DemoNext
    BY <2>2 DEF OutsiderStep, DemoNext
  <2>3. ASSUME NEW p \in People, DeleteChosen(p),
               IF p \in Outsiders THEN LoseAccount(p) ELSE UNCHANGED demoVars
        PROVE DemoNext \/ UNCHANGED demoVars
    <3>1. CASE p \in Outsiders
      BY <2>3, <3>1 DEF DemoNext
    <3> QED BY <2>3, <3>1
  <2>4. CASE UNCHANGED vars
    BY <2>4 DEF vars
  <2> QED BY <1>2, <2>1, <2>2, <2>3, <2>4 DEF Next, DemoNext
<1> QED BY <1>1, <1>2, PTL DEF Spec, DemoSpec

\* What the run of the jobs checks of the resets, for any number of instances,
\* scripts and outsiders.
THEOREM JobsKeepTheDemo ==
  Spec => /\ []OneDemoSet /\ []DealsStand
          /\ NoNeedlessReset /\ OutsidersAreTold
  BY JobsImplementDemo, OneSet, DealsSurvive, FreshDemoIsKept, LosersAreTold

=============================================================================
