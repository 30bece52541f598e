----------------------------- MODULE ScheduledJobs -----------------------------
(***************************************************************************)
(* The two scheduled jobs and the wipe together, on the same accounts: the *)
(* companies that trade on demo orders have signed up and confirmed, a     *)
(* wipe deletes them as well, and the clean-up of signups may delete one   *)
(* that confirmed late, with the offers that it has made since.            *)
(***************************************************************************)
EXTENDS DemoReset, StaleSignups

ASSUME JobsAssumption == Outsiders \subseteq People

vars == <<demoVars, signupVars>>

Init == DemoInit /\ SignupInit

\* A confirmed address is needed to get in.
OutsiderStep(o) ==
  \/ BeginTrade(o) /\ signup[o] = "verified"
  \/ CommitTrade(o)
  \/ AbortTrade(o)

\* All accounts but those of the demo are deleted, confirmed or not; an id that
\* was chosen before is nobody's now, and its deletion fails.
WipeSignups ==
  /\ signup' = [p \in People |-> "free"]
  /\ arrivals' = <<>>
  /\ chosen' = {}
  /\ UNCHANGED refusals

ResetStepOf(r) ==
  /\ ResetStep(r)
  /\ IF pc[r] = "wiping" THEN WipeSignups ELSE UNCHANGED signupVars

Next ==
  \/ \E t \in Ticks : StartTick(t) /\ UNCHANGED signupVars
  \/ \E r \in Seeds \union Wipes : StartScript(r) /\ UNCHANGED signupVars
  \/ \E r \in Resetters : ResetStepOf(r)
  \/ \E r \in Resetters : Fail(r) /\ UNCHANGED signupVars
  \/ \E o \in Outsiders : OutsiderStep(o) /\ UNCHANGED signupVars
  \/ Trade /\ UNCHANGED signupVars
  \/ TimePasses /\ UNCHANGED signupVars
  \/ \E p \in People : SignUp(p) /\ UNCHANGED demoVars
  \/ \E p \in People : GrowOld(p) /\ UNCHANGED demoVars
  \/ \E p \in People : Confirm(p) /\ UNCHANGED demoVars
  \/ Choose /\ UNCHANGED demoVars
  \/ \E p \in People : DeleteChosen(p) /\ IF p \in Outsiders THEN LoseAccount(p) ELSE UNCHANGED demoVars
  \/ \E p \in People : RefuseDeletion(p) /\ UNCHANGED demoVars

Fairness == DemoFairness /\ SignupFairness

Spec == Init /\ [][Next]_vars /\ Fairness

\* Whatever the jobs, the wipe and the companies do to each other, a demo that
\* is stale or gone comes back, and an abandoned signup does not hold its
\* address for ever.
JobsAreDone == DemoComesBack /\ AddressesAreFreed

=============================================================================
