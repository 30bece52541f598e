----------------------------- MODULE StaleSignups -----------------------------
(***************************************************************************)
(* Signups that nobody confirmed (modules/accounts).  An account exists,   *)
(* and holds its address, from the moment of signing up; an hourly pass    *)
(* chooses the oldest ones that are past their day without confirmation,   *)
(* and then deletes each by a call to the identity provider.  The account  *)
(* may be confirmed between the two.                                       *)
(***************************************************************************)
EXTENDS Naturals, SequencesExt

CONSTANTS
  People,             \* addresses
  STALE_SIGNUP_BATCH, \* accounts deleted in one pass
  MaxRefusals         \* bound: deletions that the provider refuses

ASSUME SignupAssumption == STALE_SIGNUP_BATCH \in Nat \ {0} /\ MaxRefusals \in Nat

VARIABLES
  signup,     \* the account of each address: "free" when there is none
  arrivals,   \* accounts without emailVerifiedAt, by createdAt
  chosen,     \* ids that the present pass has yet to delete
  refusals    \* deletions refused so far

signupVars == <<signup, arrivals, chosen, refusals>>

SignupInit ==
  /\ signup = [p \in People |-> "free"]
  /\ arrivals = <<>>
  /\ chosen = {}
  /\ refusals = 0

-----------------------------------------------------------------------------
(* The identity provider; its trigger keeps emailVerifiedAt in step *)

without(p) == SelectSeq(arrivals, LAMBDA q : q # p)

SignUp(p) ==
  /\ signup[p] = "free"
  /\ signup' = [signup EXCEPT ![p] = "fresh"]
  /\ arrivals' = Append(arrivals, p)
  /\ UNCHANGED <<chosen, refusals>>

\* A day goes by: whoever came earlier is past it too.
GrowOld(p) ==
  /\ signup[p] = "fresh"
  /\ \E i \in 1..Len(arrivals) :
       arrivals[i] = p /\ \A j \in 1..(i - 1) : signup[arrivals[j]] = "old"
  /\ signup' = [signup EXCEPT ![p] = "old"]
  /\ UNCHANGED <<arrivals, chosen, refusals>>

\* An old account too: signing up again sends the owner another link.
Confirm(p) ==
  /\ signup[p] \in {"fresh", "old"}
  /\ signup' = [signup EXCEPT ![p] = "verified"]
  /\ arrivals' = without(p)
  /\ UNCHANGED <<chosen, refusals>>

-----------------------------------------------------------------------------
(* The hourly pass *)

staleSignups(n) ==
  {p \in People : \E i \in 1..n : i <= Len(arrivals) /\ arrivals[i] = p /\ signup[p] = "old"}

\* A pass that is still deleting keeps the next one out (running).
Choose ==
  /\ chosen = {}
  /\ staleSignups(STALE_SIGNUP_BATCH) # {}
  /\ chosen' = staleSignups(STALE_SIGNUP_BATCH)
  /\ UNCHANGED <<signup, arrivals, refusals>>

\* Promise.all: all are tried, in any order, whatever becomes of the others.
\* The id that was chosen is deleted, confirmed meanwhile or not.
DeleteChosen(p) ==
  /\ p \in chosen
  /\ chosen' = chosen \ {p}
  /\ signup' = [signup EXCEPT ![p] = "free"]
  /\ arrivals' = without(p)
  /\ UNCHANGED refusals

RefuseDeletion(p) ==
  /\ p \in chosen /\ refusals < MaxRefusals
  /\ chosen' = chosen \ {p}
  /\ refusals' = refusals + 1
  /\ UNCHANGED <<signup, arrivals>>

SignupNext ==
  \/ \E p \in People : SignUp(p)
  \/ \E p \in People : GrowOld(p)
  \/ \E p \in People : Confirm(p)
  \/ Choose
  \/ \E p \in People : DeleteChosen(p)
  \/ \E p \in People : RefuseDeletion(p)

\* The timer fires and calls are answered; people do what they like.
SignupFairness ==
  /\ WF_signupVars(Choose)
  /\ \A p \in People : WF_signupVars(DeleteChosen(p) \/ RefuseDeletion(p))

-----------------------------------------------------------------------------
(* Properties *)

\* An address does not stay taken by a signup that nobody confirms, however
\* many others sign up after it and take part in every pass.
AddressesAreFreed == \A p \in People : signup[p] = "old" ~> signup[p] # "old"

=============================================================================
