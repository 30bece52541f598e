----------------------------- MODULE MCDemoOrders -----------------------------
(* The orders of the demo, for TLC: a visitor may offer one price for all. *)
EXTENDS DemoOrders

CONSTANTS visitorsPrice

\* What the data propose is in the table already; requests propose this.
MCTerms == {[price |-> visitorsPrice, deadline |-> Today + 1]}
=============================================================================
