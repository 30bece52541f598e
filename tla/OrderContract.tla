----------------------------- MODULE OrderContract -----------------------------
(***************************************************************************)
(* What the order machinery promises the two sides, without saying how:    *)
(* an order looks for a contractor, engages one company on one set of      *)
(* terms, and from then on neither the company nor the terms change; the   *)
(* work goes back and forth between the contractor and the client until    *)
(* the client approves it, which is final.  An order may be taken back.    *)
(***************************************************************************)
CONSTANTS Companies, Terms, Null

VARIABLES stage, contractor, terms

contractVars == <<stage, contractor, terms>>

ContractInit == stage = "none" /\ contractor = Null /\ terms = Null

Publish ==
  /\ stage = "none" /\ stage' = "choosing"
  /\ UNCHANGED <<contractor, terms>>

Engage(c, t) ==
  /\ stage = "choosing" /\ stage' = "working"
  /\ contractor' = c /\ terms' = t

\* The work changes hands; the deal stands.
Proceed(from, to) ==
  /\ stage = from /\ stage' = to
  /\ UNCHANGED <<contractor, terms>>

TakeBack ==
  /\ stage \notin {"none", "gone"} /\ stage' = "gone"
  /\ contractor' = Null /\ terms' = Null

ContractNext ==
  \/ Publish
  \/ \E c \in Companies, t \in Terms : Engage(c, t)
  \/ Proceed("working", "judging")
  \/ Proceed("judging", "working")
  \/ Proceed("judging", "done")
  \/ TakeBack

ContractSpec == ContractInit /\ [][ContractNext]_contractVars

=============================================================================
