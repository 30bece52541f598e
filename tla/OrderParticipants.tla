-------------------------- MODULE OrderParticipants --------------------------
(***************************************************************************)
(* Who takes part in an order: its client, and the companies whose offers  *)
(* are active.  This is all that the rooms of the gateway know about an    *)
(* order; OrderLifecycle implements it, and OrderRoom builds on it.        *)
(***************************************************************************)
CONSTANTS
  Companies,  \* companies that may send offers
  Client      \* the client who owns the order

VARIABLES
  stage,      \* "open" to offers, "work", or "gone": the row is deleted
  active      \* companies with an offer in an active status

partVars == <<stage, active>>

ParticipantsInit == stage = "open" /\ active = {}

\* The answer of isOrderParticipant to user u.
isOrderParticipant(u) == stage # "gone" /\ u \in active \union {Client}

OfferSent(c) ==
  /\ stage = "open"
  /\ active' = active \union {c}
  /\ UNCHANGED stage

\* Withdrawn by the company or rejected by the client.
OfferLeft(c) ==
  /\ stage = "open" /\ c \in active
  /\ active' = active \ {c}
  /\ UNCHANGED stage

OfferTaken(c) ==
  /\ stage = "open" /\ c \in active
  /\ stage' = "work"
  /\ active' = {c}

\* Rounds of work, disputes and the completion leave the participants alone.
WorkMoves == stage = "work" /\ UNCHANGED partVars

\* The client removes the order before the work.
OrderRemoved ==
  /\ stage = "open"
  /\ stage' = "gone" /\ active' = {}

\* The row goes in any stage when its creation is taken back.
OrderVanishes ==
  /\ stage # "gone"
  /\ stage' = "gone" /\ active' = {}

ParticipantsNext ==
  \/ \E c \in Companies : OfferSent(c) \/ OfferLeft(c) \/ OfferTaken(c)
  \/ WorkMoves
  \/ OrderRemoved
  \/ OrderVanishes

ParticipantsSpec == ParticipantsInit /\ [][ParticipantsNext]_partVars

=============================================================================
